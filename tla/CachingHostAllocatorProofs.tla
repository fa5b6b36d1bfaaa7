--------------------- MODULE CachingHostAllocatorProofs ---------------------
(***************************************************************************)
(* Pinned memory in the free list is used by nobody, no freed block is     *)
(* forgotten and every event is counted, for every number of threads,      *)
(* streams and addresses: the theorems HostQuiescenceCorrect,              *)
(* HostNotForgottenCorrect and EventsCountedCorrect.                       *)
(***************************************************************************)
EXTENDS CachingHostAllocator, FiniteSetTheorems, TLAPS

Sizes0 == {PowerOf2Ceil(n) : n \in Sizes \cup {0}} \cup {0}

Block == [size : Sizes0, allocated : BOOLEAN, event_count : Int, streams : SUBSET Streams]

Event == [ptr : Ptrs, stream : Streams]

Local == [op : {"none", "allocate", "empty"}, size : Sizes \cup {0}, ptr : Ptrs \cup {0},
          streams : SUBSET Streams, events : Seq(Event)]

Phases == {"idle", "process", "query", "complete", "insert", "search", "create",
           "publish", "free_insert", "record", "enqueue", "empty_events", "release"}

\* Phases in which a thread has events in its hands, and the block of an address
EventPhases == {"query", "complete", "record", "enqueue"}
PtrPhases == EventPhases \cup {"insert", "publish", "free_insert"}

NoMemory == {"none", "lost"}

Types ==
    /\ memory \in [Ptrs -> {"none", "registered", "host_alloc", "lost"}]
    /\ block \in [Ptrs -> Block]
    /\ blocks_ \subseteq Ptrs /\ free_list_ \subseteq Ptrs
    /\ supa_events_ \in Seq(Event)
    /\ work \in [Ptrs -> SUBSET Streams]
    /\ pc \in [Threads -> Phases]
    /\ local \in [Threads -> Local]
    /\ \A t \in Threads : pc[t] \in PtrPhases => local[t].ptr \in Ptrs
    /\ \A t \in Threads : pc[t] \in {"query", "complete"} =>
          \E s \in Streams : local[t].streams = {s}

-----------------------------------------------------------------------------
(* Queues of events.                                                       *)

Entries(q) == {q[i] : i \in DOMAIN q}

NoRepeats(q) == \A i, j \in DOMAIN q : q[i] = q[j] => i = j

\* The oldest event leaves the deque.
LEMMA EntriesFront ==
    ASSUME NEW S, NEW q \in Seq(S), q # <<>>, NoRepeats(q)
    PROVE  /\ Front(q) \in Seq(S) /\ NoRepeats(Front(q))
           /\ Entries(Front(q)) = Entries(q) \ {Last(q)}
           /\ Last(q) \in Entries(q) /\ Last(q) \in S
<1> DEFINE n == Len(q)
<1>1. n \in Nat \ {0} /\ DOMAIN q = 1 .. n
    OBVIOUS
<1>2. /\ Front(q) \in Seq(S) /\ DOMAIN Front(q) = 1 .. (n - 1)
      /\ \A i \in 1 .. (n - 1) : Front(q)[i] = q[i]
    BY <1>1 DEF Front
<1>3. Last(q) = q[n] /\ n \in 1 .. n
    BY <1>1 DEF Last
<1> HIDE DEF n
<1>4. NoRepeats(Front(q))
    BY <1>1, <1>2 DEF NoRepeats
<1>5. \A i \in 1 .. n : i \in 1 .. (n - 1) \/ i = n
    BY <1>1
<1>6. \A i \in 1 .. (n - 1) : i \in 1 .. n /\ i # n
    BY <1>1
<1>7. Entries(Front(q)) = Entries(q) \ {Last(q)}
    <2>1. ASSUME NEW x \in Entries(Front(q)) PROVE x \in Entries(q) \ {Last(q)}
        BY <1>1, <1>2, <1>3, <1>6 DEF Entries, NoRepeats
    <2>2. ASSUME NEW x \in Entries(q) \ {Last(q)} PROVE x \in Entries(Front(q))
        BY <1>1, <1>2, <1>3, <1>5 DEF Entries
    <2> QED BY <2>1, <2>2
<1>8. Last(q) \in Entries(q)
    BY <1>1, <1>3 DEF Entries
<1>9. Last(q) \in S
    BY <1>1, <1>3
<1> QED
    BY <1>2, <1>4, <1>7, <1>8, <1>9

\* An event goes back to the old end of the deque.
LEMMA EntriesAppend ==
    ASSUME NEW S, NEW q \in Seq(S), NEW e \in S
    PROVE  /\ Append(q, e) \in Seq(S) /\ Entries(Append(q, e)) = Entries(q) \cup {e}
           /\ NoRepeats(q) /\ e \notin Entries(q) => NoRepeats(Append(q, e))
<1> DEFINE n == Len(q)
           a == Append(q, e)
<1>1. /\ n \in Nat /\ DOMAIN q = 1 .. n /\ a \in Seq(S) /\ DOMAIN a = 1 .. (n + 1)
      /\ a[n + 1] = e /\ \A i \in 1 .. n : a[i] = q[i]
    OBVIOUS
<1> HIDE DEF n, a
<1>2. \A i \in 1 .. (n + 1) : i \in 1 .. n \/ i = n + 1
    BY <1>1
<1>3. /\ \A i \in 1 .. n : i \in 1 .. (n + 1) /\ i # n + 1
      /\ n + 1 \in 1 .. (n + 1)
    BY <1>1
<1>4. Entries(a) = Entries(q) \cup {e}
    <2>1. ASSUME NEW x \in Entries(a) PROVE x \in Entries(q) \cup {e}
        BY <1>1, <1>2 DEF Entries
    <2>2. ASSUME NEW x \in Entries(q) \cup {e} PROVE x \in Entries(a)
        BY <1>1, <1>3 DEF Entries
    <2> QED BY <2>1, <2>2
<1>5. NoRepeats(q) /\ e \notin Entries(q) => NoRepeats(a)
    BY <1>1, <1>2 DEF NoRepeats, Entries
<1> QED
    BY <1>1, <1>4, <1>5 DEF a

\* free adds the events of a block at the front.
LEMMA EntriesAhead ==
    ASSUME NEW S, NEW q \in Seq(S), NEW r \in Seq(S), NoRepeats(q), NoRepeats(r),
           Entries(q) \cap Entries(r) = {}
    PROVE  /\ Reverse(r) \o q \in Seq(S) /\ NoRepeats(Reverse(r) \o q)
           /\ Entries(Reverse(r) \o q) = Entries(r) \cup Entries(q)
<1> DEFINE n == Len(q)
           m == Len(r)
           v == Reverse(r)
           a == v \o q
<1>1. n \in Nat /\ DOMAIN q = 1 .. n /\ m \in Nat /\ DOMAIN r = 1 .. m
    OBVIOUS
<1>2. v \in Seq(S) /\ Len(v) = m /\ \A i \in 1 .. m : v[i] = r[(m - i) + 1]
    <2>1. \A i \in 1 .. m : r[(m - i) + 1] \in S
        BY <1>1
    <2>2. v = [i \in 1 .. m |-> r[(m - i) + 1]]
        BY DEF Reverse
    <2> HIDE DEF v
    <2>3. v \in Seq(S) /\ DOMAIN v = 1 .. m
        BY <1>1, <2>1, <2>2
    <2> QED BY <1>1, <2>2, <2>3
<1> HIDE DEF v
<1>3. /\ a \in Seq(S) /\ DOMAIN a = 1 .. (m + n)
      /\ \A i \in 1 .. m : a[i] = r[(m - i) + 1]
      /\ \A i \in 1 .. (m + n) : i > m => a[i] = q[i - m]
    BY <1>1, <1>2
<1> HIDE DEF n, m, a
<1>4. \A i \in 1 .. (m + n) : \/ i \in 1 .. m /\ (m - i) + 1 \in 1 .. m
                              \/ i > m /\ i - m \in 1 .. n
    BY <1>1
<1>5. /\ \A j \in 1 .. m : (m - j) + 1 \in 1 .. (m + n) /\ (m - j) + 1 \in 1 .. m
                           /\ (m - ((m - j) + 1)) + 1 = j
      /\ \A j \in 1 .. n : m + j \in 1 .. (m + n) /\ m + j > m /\ (m + j) - m = j
    BY <1>1
<1>6. Entries(a) = Entries(r) \cup Entries(q)
    <2>1. ASSUME NEW x \in Entries(a) PROVE x \in Entries(r) \cup Entries(q)
        BY <1>1, <1>3, <1>4 DEF Entries
    <2>2. ASSUME NEW x \in Entries(r) PROVE x \in Entries(a)
        <3>1. PICK j \in 1 .. m : x = r[j]
            BY <1>1, <2>2 DEF Entries
        <3>2. a[(m - j) + 1] = r[j] /\ (m - j) + 1 \in 1 .. (m + n)
            BY <1>3, <1>5
        <3> QED BY <1>3, <3>1, <3>2 DEF Entries
    <2>3. ASSUME NEW x \in Entries(q) PROVE x \in Entries(a)
        <3>1. PICK j \in 1 .. n : x = q[j]
            BY <1>1, <2>3 DEF Entries
        <3>2. a[m + j] = q[j] /\ m + j \in 1 .. (m + n)
            BY <1>3, <1>5
        <3> QED BY <1>3, <3>1, <3>2 DEF Entries
    <2> QED BY <2>1, <2>2, <2>3
<1>7. NoRepeats(a)
    <2> SUFFICES ASSUME NEW i \in 1 .. (m + n), NEW j \in 1 .. (m + n), a[i] = a[j]
                 PROVE  i = j
        BY <1>3 DEF NoRepeats
    <2>1. CASE i \in 1 .. m /\ j \in 1 .. m
        <3> DEFINE k == (m - i) + 1
                   l == (m - j) + 1
        <3>1. k \in 1 .. m /\ l \in 1 .. m /\ (k = l => i = j)
            BY <1>1, <2>1
        <3>2. r[k] = r[l]
            BY <1>3, <2>1
        <3> HIDE DEF k, l
        <3> QED BY <1>1, <3>1, <3>2 DEF NoRepeats
    <2>2. CASE i > m /\ j > m
        <3> DEFINE k == i - m
                   l == j - m
        <3>1. k \in 1 .. n /\ l \in 1 .. n /\ (k = l => i = j)
            BY <1>1, <2>2
        <3>2. q[k] = q[l]
            BY <1>3, <2>2
        <3> HIDE DEF k, l
        <3> QED BY <1>1, <3>1, <3>2 DEF NoRepeats
    <2>3. ASSUME NEW k \in 1 .. m, NEW l \in 1 .. (m + n), l > m
          PROVE  a[k] # a[l]
        <3> DEFINE k1 == (m - k) + 1
                   l1 == l - m
        <3>1. k1 \in 1 .. m /\ l1 \in 1 .. n
            BY <1>1, <2>3
        <3>2. a[k] = r[k1] /\ a[l] = q[l1]
            BY <1>3, <2>3
        <3> HIDE DEF k1, l1
        <3>3. a[k] \in Entries(r) /\ a[l] \in Entries(q)
            BY <1>1, <3>1, <3>2 DEF Entries
        <3> QED BY <3>3
    <2>4. (i \in 1 .. m \/ i > m) /\ (j \in 1 .. m \/ j > m)
        BY <1>4
    <2> QED BY <2>1, <2>2, <2>3, <2>4
<1> QED
    BY <1>3, <1>6, <1>7 DEF a, v

\* An order of a finite set has each of its elements once.
LEMMA OrderOfSet ==
    ASSUME NEW S, IsFiniteSet(S), NEW order \in SetToSeqs(S)
    PROVE  order \in Seq(S) /\ NoRepeats(order) /\ Entries(order) = S
<1> DEFINE n == Cardinality(S)
<1>1. n \in Nat
    BY FS_CardinalityType
<1>2. order \in [1 .. n -> S] /\ \A i, j \in 1 .. n : i # j => order[i] # order[j]
    BY DEF SetToSeqs
<1>3. order \in Injection(1 .. n, S)
    BY <1>2 DEF Injection, IsInjective
<1>4. Cardinality(1 .. n) = n
    BY <1>1, FS_Interval
<1>5. order \in Surjection(1 .. n, S)
    BY <1>3, <1>4, FS_Injection
<1>6. \A x \in S : \E i \in 1 .. n : order[i] = x
    BY <1>5 DEF Surjection
<1> HIDE DEF n
<1> QED
    BY <1>1, <1>2, <1>6 DEF NoRepeats, Entries

-----------------------------------------------------------------------------
(* Types.                                                                  *)

\* What EXCEPT does to a block and to what a thread holds
LEMMA BlockType ==
    ASSUME NEW b \in Block
    PROVE  /\ b.size \in Sizes0 /\ b.allocated \in BOOLEAN
           /\ b.event_count \in Int /\ b.streams \in SUBSET Streams
    BY DEF Block

LEMMA NewBlockType ==
    ASSUME NEW n \in Sizes0
    PROVE  /\ NewBlock(n) \in Block
           /\ NewBlock(n).allocated = TRUE /\ NewBlock(n).event_count = 0
           /\ NewBlock(n).streams = {}
    BY DEF NewBlock, Block

LEMMA FreedBlockType ==
    ASSUME NEW b \in Block, NEW c \in Int
    PROVE  LET d == [b EXCEPT !.allocated = FALSE, !.streams = {}, !.event_count = @ + c]
           IN  /\ d \in Block /\ ~d.allocated /\ d.streams = {}
               /\ d.event_count = b.event_count + c
<1> DEFINE d == [b EXCEPT !.allocated = FALSE, !.streams = {}, !.event_count = @ + c]
<1>1. b.event_count + c \in Int
    BY DEF Block
<1>2. d \in Block
    BY <1>1 DEF Block
<1>3. d.allocated = FALSE
    BY DEF Block
<1>4. d.streams = {} /\ d.event_count = b.event_count + c
    BY DEF Block
<1> HIDE DEF d
<1> QED
    BY <1>2, <1>3, <1>4 DEF d

LEMMA CalledType ==
    ASSUME NEW x \in Local, NEW n \in Sizes
    PROVE  /\ [x EXCEPT !.op = "allocate", !.size = n] \in Local
           /\ [x EXCEPT !.op = "empty"] \in Local
    BY DEF Local

LEMMA IdleType == Idle \in Local
<1>1. <<>> \in Seq(Event)
    OBVIOUS
<1> QED
    BY <1>1 DEF Idle, Local

LEMMA TypesInit == HostAssumption /\ Init => Types
<1> SUFFICES ASSUME HostAssumption, Init PROVE Types
    OBVIOUS
<1>1. NewBlock(0) \in Block
    BY NewBlockType DEF Sizes0
<1>2. <<>> \in Seq(Event)
    OBVIOUS
<1> QED
    BY <1>1, <1>2, IdleType DEF Init, Types, Phases, PtrPhases, EventPhases

\* A step of t leaves the other threads where they are.
Others(t) == \A u \in Threads : u # t => pc'[u] = pc[u] /\ local'[u] = local[u]

\* t goes on, with the same in its hands, ...
LEMMA Goes ==
    ASSUME Types, NEW t \in Threads, NEW l \in Phases, Goto(t, l), UNCHANGED local
    PROVE  pc' \in [Threads -> Phases] /\ local' \in [Threads -> Local] /\ Others(t)
           /\ pc'[t] = l /\ local'[t] = local[t]
    BY DEF Types, Goto, Others

\* ... with nothing, at the end of a method, ...
LEMMA Returns ==
    ASSUME Types, NEW t \in Threads, Return(t)
    PROVE  pc' \in [Threads -> Phases] /\ local' \in [Threads -> Local] /\ Others(t)
           /\ pc'[t] = "idle"
    BY IdleType DEF Types, Goto, Others, Return, Phases

\* ... with a block and streams, ...
LEMMA Holds ==
    ASSUME Types, NEW t \in Threads, NEW l \in Phases, Goto(t, l),
           NEW p \in Ptrs \cup {0}, NEW S \in SUBSET Streams,
           local' = [local EXCEPT ![t].ptr = p, ![t].streams = S]
    PROVE  pc' \in [Threads -> Phases] /\ local' \in [Threads -> Local] /\ Others(t)
           /\ pc'[t] = l /\ local'[t].ptr = p /\ local'[t].streams = S
    BY DEF Types, Goto, Others, Local

\* ... or without the event it had.
LEMMA Drops ==
    ASSUME Types, NEW t \in Threads, NEW l \in Phases, Goto(t, l), Drop(t)
    PROVE  pc' \in [Threads -> Phases] /\ local' \in [Threads -> Local] /\ Others(t)
           /\ pc'[t] = l
<1>1. 0 \in Ptrs \cup {0} /\ {} \in SUBSET Streams
    OBVIOUS
<1>2. local' = [local EXCEPT ![t].ptr = 0, ![t].streams = {}]
    BY DEF Drop
<1> QED
    BY <1>1, <1>2, Holds

\* Every variable keeps its type.
LEMMA TypesStep ==
    ASSUME Types, NEW t \in Threads, Others(t),
           pc' \in [Threads -> Phases], local' \in [Threads -> Local],
           pc'[t] \in PtrPhases => local'[t].ptr \in Ptrs,
           pc'[t] \in {"query", "complete"} => \E s \in Streams : local'[t].streams = {s},
           memory' \in [Ptrs -> {"none", "registered", "host_alloc", "lost"}],
           block' \in [Ptrs -> Block], blocks_' \subseteq Ptrs, free_list_' \subseteq Ptrs,
           supa_events_' \in Seq(Event), work' \in [Ptrs -> SUBSET Streams]
    PROVE  Types'
    BY DEF Types, Others

-----------------------------------------------------------------------------
(* The inductive invariant.                                                *)

Ev(p, s) == [ptr |-> p, stream |-> s]

\* The event of p and s is in the deque, or in the hands of t: being queried,
\* or still to be queued by free.
Waits(p, s) == Ev(p, s) \in Entries(supa_events_)
Has(t, p, s) == pc[t] \in EventPhases /\ local[t].ptr = p /\ s \in local[t].streams

\* The streams that p still waits for
Pending(p) == {s \in Streams : Waits(p, s) \/ \E t \in Threads : Has(t, p, s)}

\* t is about to put p in the free list, or to publish it.
Carries(t, p) == pc[t] \in {"insert", "free_insert"} /\ local[t].ptr = p
Makes(t, p) == pc[t] = "publish" /\ local[t].ptr = p

\* Every event is in one place; an event that was found complete stays so.
Hands ==
    /\ NoRepeats(supa_events_)
    /\ \A t \in Threads, p \in Ptrs, s \in Streams : Has(t, p, s) => ~Waits(p, s)
    /\ \A t, u \in Threads, p \in Ptrs, s \in Streams : Has(t, p, s) /\ Has(u, p, s) => t = u
    /\ \A t \in Threads : pc[t] = "enqueue" =>
          /\ NoRepeats(local[t].events)
          /\ Entries(local[t].events) = {Ev(local[t].ptr, s) : s \in local[t].streams}
    /\ \A t \in Threads : pc[t] = "complete" => local[t].streams \cap work[local[t].ptr] = {}

\* event_count counts at least the events p waits for, and just these until a
\* device error loses one.  If it counts no more, they cover the work on a freed
\* block.
Counted(p) ==
    /\ Cardinality(Pending(p)) <= block[p].event_count
    /\ ~failed => Cardinality(Pending(p)) = block[p].event_count
    /\ ~block[p].allocated /\ Cardinality(Pending(p)) = block[p].event_count
          => work[p] \subseteq Pending(p)
    /\ block[p].allocated => block[p].event_count = 0
    /\ ~block[p].allocated => block[p].streams = {}

Free(p) == ~block[p].allocated /\ block[p].event_count = 0

\* A block that is in the free list, or carried there by one thread, is free;
\* it and a block that waits for events are listed in blocks_.  An address
\* without memory is nowhere.
Listed(p) ==
    /\ p \in free_list_ => Free(p) /\ p \in blocks_
    /\ \A t \in Threads : Carries(t, p) =>
          Free(p) /\ p \in blocks_ /\ p \notin free_list_ /\ \A u \in Threads : Carries(u, p) => u = t
    /\ Pending(p) # {} => p \in blocks_
    /\ \A t \in Threads : Makes(t, p) =>
          block[p].allocated /\ p \notin blocks_ /\ \A u \in Threads : Makes(u, p) => u = t
    /\ memory[p] \in NoMemory => p \notin blocks_ /\ \A t \in Threads : ~Makes(t, p)

Inv == Types /\ Hands /\ \A p \in Ptrs : Counted(p) /\ Listed(p)

-----------------------------------------------------------------------------
\* The events of p stay where they are, or move between the deque and the threads.
LEMMA PendingKept ==
    ASSUME NEW p,
           \A s \in Streams : (Waits(p, s) \/ \E t \in Threads : Has(t, p, s))'
                                 <=> (Waits(p, s) \/ \E t \in Threads : Has(t, p, s))
    PROVE  Pending(p)' = Pending(p)
    BY DEF Pending

\* An address that a step does not touch
LEMMA Untouched ==
    ASSUME NEW p \in Ptrs, Counted(p), Listed(p), Pending(p)' = Pending(p),
           block'[p] = block[p], work'[p] \subseteq work[p], failed => failed',
           memory'[p] \in NoMemory => memory[p] \in NoMemory,
           p \in blocks_' <=> p \in blocks_, p \in free_list_' <=> p \in free_list_,
           \A u \in Threads : (Carries(u, p)' <=> Carries(u, p)) /\ (Makes(u, p)' <=> Makes(u, p))
    PROVE  Counted(p)' /\ Listed(p)'
<1>1. Counted(p)'
    BY DEF Counted
<1>2. Free(p)' <=> Free(p)
    BY DEF Free
<1>3. Listed(p)'
    BY <1>2 DEF Listed
<1> QED
    BY <1>1, <1>3

\* No event moves.
LEMMA HandsStay ==
    ASSUME Hands, UNCHANGED supa_events_,
           \A u \in Threads : \/ pc[u] \notin EventPhases /\ pc'[u] \notin EventPhases
                              \/ pc'[u] = pc[u] /\ local'[u] = local[u],
           \A u \in Threads : pc[u] = "complete" =>
               local[u].streams \cap work'[local[u].ptr] = {}
    PROVE  Hands' /\ \A p : Pending(p)' = Pending(p)
<1>1. \A t \in Threads : \A p, s : Has(t, p, s)' <=> Has(t, p, s)
    BY DEF Has
<1>2. \A p, s : Waits(p, s)' <=> Waits(p, s)
    BY DEF Waits
<1>3. \A p : Pending(p)' = Pending(p)
    BY <1>1, <1>2, PendingKept
<1>4. Hands'
    <2>1. /\ NoRepeats(supa_events_')
          /\ \A t \in Threads, p \in Ptrs, s \in Streams : Has(t, p, s)' => ~Waits(p, s)'
          /\ \A t, u \in Threads, p \in Ptrs, s \in Streams :
                Has(t, p, s)' /\ Has(u, p, s)' => t = u
        BY <1>1, <1>2 DEF Hands
    <2>2. \A t \in Threads : pc'[t] = "enqueue" =>
              /\ NoRepeats(local'[t].events)
              /\ Entries(local'[t].events) = {Ev(local'[t].ptr, s) : s \in local'[t].streams}
        BY DEF Hands, EventPhases
    <2>3. \A t \in Threads : pc'[t] = "complete" =>
              local'[t].streams \cap work'[local'[t].ptr] = {}
        BY DEF Hands, EventPhases
    <2> QED BY <2>1, <2>2, <2>3 DEF Hands
<1> QED
    BY <1>3, <1>4

LEMMA InvInit == HostAssumption /\ Init => Inv
<1> SUFFICES ASSUME HostAssumption, Init PROVE Inv
    OBVIOUS
<1>1. Types
    BY TypesInit
<1>2. \A p, s : ~Waits(p, s)
    BY DEF Init, Waits, Entries
<1>3. \A t \in Threads : pc[t] = "idle"
    BY DEF Init
<1>4. \A t \in Threads : \A p, s : ~Has(t, p, s) /\ ~Carries(t, p) /\ ~Makes(t, p)
    BY <1>3 DEF Has, Carries, Makes, EventPhases
<1>5. \A p : Pending(p) = {}
    BY <1>2, <1>4 DEF Pending
<1>6. Hands
    BY <1>3, <1>4 DEF Hands, Init, NoRepeats
<1>7. Cardinality({}) = 0
    BY FS_EmptySet
<1>8. \A p \in Ptrs : block[p].allocated = TRUE /\ block[p].event_count = 0
    BY NewBlockType DEF Init, Sizes0
<1>9. ASSUME NEW p \in Ptrs PROVE Counted(p) /\ Listed(p)
    <2>1. Pending(p) = {} /\ block[p].allocated = TRUE /\ block[p].event_count = 0
        BY <1>5, <1>8
    <2>2. Counted(p)
        BY <1>7, <2>1 DEF Counted
    <2>3. Listed(p)
        BY <1>4, <2>1 DEF Init, Listed
    <2> QED BY <2>2, <2>3
<1> QED
    BY <1>1, <1>6, <1>9 DEF Inv

-----------------------------------------------------------------------------
(* The steps.                                                              *)

\* Phases in which a thread has neither a block nor an event in its hands
Quiet == {"idle", "process", "search", "create", "empty_events", "release"}

\* A step between such phases
LEMMA QuietStep ==
    ASSUME Inv, NEW t \in Threads, Others(t), pc[t] \in Quiet, pc'[t] \in Quiet,
           pc' \in [Threads -> Phases], local' \in [Threads -> Local],
           UNCHANGED <<block, blocks_, free_list_, supa_events_, work, failed>>,
           memory' \in [Ptrs -> {"none", "registered", "host_alloc", "lost"}],
           \A p \in Ptrs : memory'[p] \in NoMemory => memory[p] \in NoMemory
    PROVE  Inv'
<1>1. Types /\ Hands
    BY DEF Inv
<1>2. /\ block' \in [Ptrs -> Block] /\ blocks_' \subseteq Ptrs /\ free_list_' \subseteq Ptrs
      /\ supa_events_' \in Seq(Event) /\ work' \in [Ptrs -> SUBSET Streams]
    BY <1>1 DEF Types
<1>3. Types'
    BY <1>1, <1>2, TypesStep DEF Quiet, PtrPhases, EventPhases
<1>4. Hands' /\ \A p : Pending(p)' = Pending(p)
    BY <1>1, HandsStay DEF Quiet, EventPhases, Others, Hands
<1>5. \A p \in Ptrs : \A u \in Threads :
          (Carries(u, p)' <=> Carries(u, p)) /\ (Makes(u, p)' <=> Makes(u, p))
    BY DEF Carries, Makes, Others, Quiet
<1>6. \A p \in Ptrs : Counted(p)' /\ Listed(p)'
    BY <1>4, <1>5, Untouched DEF Inv
<1> QED
    BY <1>3, <1>4, <1>6 DEF Inv

\* pop_event: the oldest event moves into the hands of a thread.
LEMMA PopEvent ==
    ASSUME Inv, NEW t \in Threads, pop_event(t), supa_events_ # <<>>
    PROVE  Inv'
<1> DEFINE e == Last(supa_events_)
<1>1. Types /\ Hands /\ supa_events_ \in Seq(Event) /\ NoRepeats(supa_events_)
    BY DEF Inv, Types, Hands
<1>2. /\ Goto(t, "query") /\ pc[t] = "process"
      /\ local' = [local EXCEPT ![t].ptr = e.ptr, ![t].streams = {e.stream}]
      /\ supa_events_' = Front(supa_events_)
      /\ UNCHANGED <<memory, block, blocks_, free_list_, work, failed>>
    BY DEF pop_event, At, ghost
<1>3. /\ supa_events_' \in Seq(Event) /\ NoRepeats(supa_events_')
      /\ Entries(supa_events_') = Entries(supa_events_) \ {e}
      /\ e \in Entries(supa_events_) /\ e \in Event
    BY <1>1, <1>2, EntriesFront
<1> HIDE DEF e
<1>4. e.ptr \in Ptrs /\ e.stream \in Streams /\ e = Ev(e.ptr, e.stream)
    BY <1>3 DEF Event, Ev
<1>5. /\ pc' \in [Threads -> Phases] /\ local' \in [Threads -> Local] /\ Others(t)
      /\ pc'[t] = "query" /\ local'[t].ptr = e.ptr /\ local'[t].streams = {e.stream}
    <2>1. "query" \in Phases /\ {e.stream} \in SUBSET Streams
        BY <1>4 DEF Phases
    <2> QED BY <1>1, <1>2, <1>4, <2>1, Holds
<1>6. Types'
    <2>1. /\ memory' \in [Ptrs -> {"none", "registered", "host_alloc", "lost"}]
          /\ block' \in [Ptrs -> Block] /\ blocks_' \subseteq Ptrs /\ free_list_' \subseteq Ptrs
          /\ work' \in [Ptrs -> SUBSET Streams]
        BY <1>1, <1>2 DEF Types
    <2> QED BY <1>1, <1>3, <1>4, <1>5, <2>1, TypesStep
<1>7. ASSUME NEW p \in Ptrs, NEW s \in Streams
      PROVE  /\ Waits(p, s)' <=> Waits(p, s) /\ ~(p = e.ptr /\ s = e.stream)
             /\ Has(t, p, s)' <=> p = e.ptr /\ s = e.stream
             /\ ~Has(t, p, s)
             /\ \A u \in Threads : u # t => (Has(u, p, s)' <=> Has(u, p, s))
    <2>1. Ev(p, s) = e <=> p = e.ptr /\ s = e.stream
        BY <1>4 DEF Ev
    <2> QED BY <1>2, <1>3, <1>5, <2>1 DEF Waits, Has, Others, EventPhases
<1>8. Waits(e.ptr, e.stream)
    BY <1>3, <1>4 DEF Waits
<1>9. \A p \in Ptrs : Pending(p)' = Pending(p)
    BY <1>7, <1>8, PendingKept
<1>10. Hands'
    <2>1. \A u \in Threads, p \in Ptrs, s \in Streams : Has(u, p, s)' => ~Waits(p, s)'
        BY <1>1, <1>7 DEF Hands
    <2>2. \A u, v \in Threads, p \in Ptrs, s \in Streams :
              Has(u, p, s)' /\ Has(v, p, s)' => u = v
        BY <1>1, <1>7, <1>8 DEF Hands
    <2>3. \A u \in Threads : pc'[u] = "enqueue" =>
              /\ NoRepeats(local'[u].events)
              /\ Entries(local'[u].events) = {Ev(local'[u].ptr, s) : s \in local'[u].streams}
        BY <1>1, <1>5 DEF Hands, Others
    <2>4. \A u \in Threads : pc'[u] = "complete" =>
              local'[u].streams \cap work'[local'[u].ptr] = {}
        BY <1>1, <1>2, <1>5 DEF Hands, Others
    <2> QED BY <1>3, <2>1, <2>2, <2>3, <2>4 DEF Hands
<1>11. \A p \in Ptrs : Counted(p)' /\ Listed(p)'
    <2>1. \A p \in Ptrs : \A u \in Threads :
              (Carries(u, p)' <=> Carries(u, p)) /\ (Makes(u, p)' <=> Makes(u, p))
        BY <1>2, <1>5 DEF Carries, Makes, Others
    <2> QED BY <1>2, <1>9, <2>1, Untouched DEF Inv
<1> QED
    BY <1>6, <1>10, <1>11 DEF Inv

\* What t does to its own events
LEMMA HandsStep ==
    ASSUME Hands, NEW t \in Threads, Others(t), NoRepeats(supa_events_'),
           \A p \in Ptrs, s \in Streams : Has(t, p, s)' => ~Waits(p, s)',
           \A u \in Threads, p \in Ptrs, s \in Streams :
               u # t /\ Has(u, p, s) => ~Waits(p, s)' /\ ~Has(t, p, s)',
           pc'[t] = "enqueue" =>
               /\ NoRepeats(local'[t].events)
               /\ Entries(local'[t].events) = {Ev(local'[t].ptr, s) : s \in local'[t].streams},
           pc'[t] = "complete" => local'[t].streams \cap work'[local'[t].ptr] = {},
           UNCHANGED work
    PROVE  Hands'
<1>1. \A u \in Threads : \A p, s : u # t => (Has(u, p, s)' <=> Has(u, p, s))
    BY DEF Has, Others
<1>2. \A u \in Threads, p \in Ptrs, s \in Streams : Has(u, p, s)' => ~Waits(p, s)'
    BY <1>1
<1>3. \A u, v \in Threads, p \in Ptrs, s \in Streams : Has(u, p, s)' /\ Has(v, p, s)' => u = v
    BY <1>1 DEF Hands
<1>4. \A u \in Threads : pc'[u] = "enqueue" =>
          /\ NoRepeats(local'[u].events)
          /\ Entries(local'[u].events) = {Ev(local'[u].ptr, s) : s \in local'[u].streams}
    BY DEF Hands, Others
<1>5. \A u \in Threads : pc'[u] = "complete" =>
          local'[u].streams \cap work'[local'[u].ptr] = {}
    BY DEF Hands, Others
<1> QED
    BY <1>2, <1>3, <1>4, <1>5 DEF Hands

\* The event in the hands of a thread that queries it
LEMMA InHands ==
    ASSUME Types, NEW t \in Threads, pc[t] \in {"query", "complete"}
    PROVE  \E p \in Ptrs, s \in Streams :
              /\ local[t].ptr = p /\ local[t].streams = {s}
              /\ \A q, r : Has(t, q, r) <=> q = p /\ r = s
    BY DEF Types, PtrPhases, EventPhases, Has

\* query_event: the event is ready.
LEMMA QueryReady ==
    ASSUME Inv, NEW t \in Threads, query_event(t), Ready(t)
    PROVE  Inv'
<1>1. Types /\ Hands
    BY DEF Inv
<1>2. /\ pc[t] = "query" /\ Goto(t, "complete") /\ UNCHANGED local
      /\ UNCHANGED <<memory, block, blocks_, free_list_, supa_events_, work, failed>>
    BY DEF query_event, At, ghost
<1>3. /\ pc' \in [Threads -> Phases] /\ local' \in [Threads -> Local] /\ Others(t)
      /\ pc'[t] = "complete" /\ local'[t] = local[t]
    BY <1>1, <1>2, Goes DEF Phases
<1>4. Types'
    <2>1. local[t].ptr \in Ptrs /\ \E s \in Streams : local[t].streams = {s}
        BY <1>1, <1>2 DEF Types, PtrPhases, EventPhases
    <2>2. /\ memory' \in [Ptrs -> {"none", "registered", "host_alloc", "lost"}]
          /\ block' \in [Ptrs -> Block] /\ blocks_' \subseteq Ptrs /\ free_list_' \subseteq Ptrs
          /\ work' \in [Ptrs -> SUBSET Streams] /\ supa_events_' \in Seq(Event)
        BY <1>1, <1>2 DEF Types
    <2> QED BY <1>1, <1>3, <2>1, <2>2, TypesStep
<1>5. \A u \in Threads : \A p, s : Has(u, p, s)' <=> Has(u, p, s)
    BY <1>2, <1>3 DEF Has, Others, EventPhases
<1>6. \A p, s : Waits(p, s)' <=> Waits(p, s)
    BY <1>2 DEF Waits
<1>7. Hands'
    BY <1>1, <1>2, <1>3, <1>5, <1>6, HandsStep DEF Hands, Ready
<1>8. \A p : Pending(p)' = Pending(p)
    BY <1>5, <1>6, PendingKept
<1>9. \A p \in Ptrs : \A u \in Threads :
          (Carries(u, p)' <=> Carries(u, p)) /\ (Makes(u, p)' <=> Makes(u, p))
    BY <1>2, <1>3 DEF Carries, Makes, Others
<1>10. \A p \in Ptrs : Counted(p)' /\ Listed(p)'
    BY <1>2, <1>8, <1>9, Untouched DEF Inv
<1> QED
    BY <1>4, <1>7, <1>10 DEF Inv

\* query_event: the event goes back.
LEMMA QueryNotReady ==
    ASSUME Inv, NEW t \in Threads, query_event(t), ~Ready(t)
    PROVE  Inv'
<1>1. Types /\ Hands
    BY DEF Inv
<1>2. /\ pc[t] = "query" /\ Goto(t, AfterEvents(t)) /\ Drop(t)
      /\ supa_events_' = Append(supa_events_,
             [ptr |-> local[t].ptr, stream |-> CHOOSE s \in local[t].streams : TRUE])
      /\ UNCHANGED <<memory, block, blocks_, free_list_, work, failed>>
    BY DEF query_event, At, ghost
<1>3. PICK p \in Ptrs, s \in Streams :
          /\ local[t].ptr = p /\ local[t].streams = {s}
          /\ \A q, r : Has(t, q, r) <=> q = p /\ r = s
    BY <1>1, <1>2, InHands
<1>4. supa_events_' = Append(supa_events_, Ev(p, s)) /\ Ev(p, s) \in Event
    BY <1>2, <1>3 DEF Ev, Event
<1>5. AfterEvents(t) \in {"search", "empty_events"}
    BY DEF AfterEvents
<1>6. /\ pc' \in [Threads -> Phases] /\ local' \in [Threads -> Local] /\ Others(t)
      /\ pc'[t] \in {"search", "empty_events"}
    BY <1>1, <1>2, <1>5, Drops DEF Phases
<1>7. /\ supa_events_ \in Seq(Event) /\ NoRepeats(supa_events_)
      /\ ~Waits(p, s)
    BY <1>1, <1>3 DEF Types, Hands
<1>8. /\ supa_events_' \in Seq(Event) /\ NoRepeats(supa_events_')
      /\ Entries(supa_events_') = Entries(supa_events_) \cup {Ev(p, s)}
    BY <1>4, <1>7, EntriesAppend DEF Waits
<1>9. Types'
    <2>1. /\ memory' \in [Ptrs -> {"none", "registered", "host_alloc", "lost"}]
          /\ block' \in [Ptrs -> Block] /\ blocks_' \subseteq Ptrs /\ free_list_' \subseteq Ptrs
          /\ work' \in [Ptrs -> SUBSET Streams]
        BY <1>1, <1>2 DEF Types
    <2> QED BY <1>1, <1>6, <1>8, <2>1, TypesStep DEF PtrPhases, EventPhases
<1>10. \A q, r : Waits(q, r)' <=> Waits(q, r) \/ (q = p /\ r = s)
    BY <1>8 DEF Waits, Ev
<1>11. /\ \A q, r : ~Has(t, q, r)'
       /\ \A u \in Threads : \A q, r : u # t => (Has(u, q, r)' <=> Has(u, q, r))
    BY <1>6 DEF Has, Others, EventPhases
<1>12. Hands'
    <2>1. \A u \in Threads, q \in Ptrs, r \in Streams :
              u # t /\ Has(u, q, r) => ~Waits(q, r)' /\ ~Has(t, q, r)'
        BY <1>1, <1>3, <1>10, <1>11 DEF Hands
    <2> QED BY <1>1, <1>2, <1>6, <1>8, <1>11, <2>1, HandsStep
<1>13. \A q \in Ptrs : Pending(q)' = Pending(q)
    BY <1>3, <1>10, <1>11, PendingKept
<1>14. \A q \in Ptrs : \A u \in Threads :
          (Carries(u, q)' <=> Carries(u, q)) /\ (Makes(u, q)' <=> Makes(u, q))
    BY <1>2, <1>6 DEF Carries, Makes, Others
<1>15. \A q \in Ptrs : Counted(q)' /\ Listed(q)'
    BY <1>2, <1>13, <1>14, Untouched DEF Inv
<1> QED
    BY <1>9, <1>12, <1>15 DEF Inv

-----------------------------------------------------------------------------
(* Steps that change how many events a block waits for.                    *)

\* What a block waits for is a finite set, and empty when event_count is 0.
LEMMA PendingFinite ==
    ASSUME HostAssumption, NEW p
    PROVE  /\ IsFiniteSet(Pending(p)) /\ Cardinality(Pending(p)) \in Nat
           /\ Counted(p) /\ block[p].event_count = 0 => Pending(p) = {}
<1>1. IsFiniteSet(Pending(p))
    BY FS_Subset DEF HostAssumption, Pending
<1>2. Cardinality(Pending(p)) \in Nat
    BY <1>1, FS_CardinalityType
<1>3. Cardinality(Pending(p)) = 0 => Pending(p) = {}
    BY <1>1, FS_EmptySet
<1> QED
    BY <1>1, <1>2, <1>3 DEF Counted

\* Memory that is allocated waits for no event.
LEMMA AllocatedWaitsForNone ==
    ASSUME HostAssumption, NEW p, Counted(p), block[p].allocated
    PROVE  /\ Pending(p) = {}
           /\ \A s \in Streams : ~Waits(p, s) /\ \A t \in Threads : ~Has(t, p, s)
<1>1. Pending(p) = {}
    BY PendingFinite DEF Counted
<1> QED
    BY <1>1 DEF Pending

\* A thread drops the event it has: the block waits for one less.
LEMMA PendingLess ==
    ASSUME HostAssumption, Hands, NEW t \in Threads, Others(t), UNCHANGED supa_events_,
           NEW p \in Ptrs, NEW s \in Streams,
           \A q, r : Has(t, q, r) <=> q = p /\ r = s, \A q, r : ~Has(t, q, r)'
    PROVE  /\ s \in Pending(p) /\ Pending(p)' = Pending(p) \ {s}
           /\ Cardinality(Pending(p)') = Cardinality(Pending(p)) - 1
           /\ \A q \in Ptrs : q # p => Pending(q)' = Pending(q)
<1>1. \A u \in Threads : \A q, r : u # t => (Has(u, q, r)' <=> Has(u, q, r))
    BY DEF Has, Others
<1>2. \A q, r : Waits(q, r)' <=> Waits(q, r)
    BY DEF Waits
<1>3. s \in Pending(p)
    BY DEF Pending
<1>4. Pending(p)' = Pending(p) \ {s}
    <2>1. ~Waits(p, s) /\ \A u \in Threads : Has(u, p, s) => u = t
        BY DEF Hands
    <2>2. ASSUME NEW r \in Streams
          PROVE  (Waits(p, r) \/ \E u \in Threads : Has(u, p, r))'
                    <=> (Waits(p, r) \/ \E u \in Threads : Has(u, p, r)) /\ r # s
        BY <1>1, <1>2, <2>1
    <2> QED BY <2>2 DEF Pending
<1>5. \A q \in Ptrs : q # p => Pending(q)' = Pending(q)
    BY <1>1, <1>2, PendingKept
<1>6. Cardinality(Pending(p) \ {s}) = Cardinality(Pending(p)) - 1
    BY <1>3, PendingFinite, FS_RemoveElement
<1> QED
    BY <1>3, <1>4, <1>5, <1>6

\* query_event_fails: the event is lost, and event_count exceeds what is pending.
LEMMA QueryFails ==
    ASSUME HostAssumption, Inv, NEW t \in Threads, query_event_fails(t)
    PROVE  Inv'
<1>1. Types /\ Hands
    BY DEF Inv
<1>2. /\ pc[t] = "query" /\ Return(t)
      /\ failed' = TRUE
      /\ UNCHANGED <<memory, block, blocks_, free_list_, supa_events_, work>>
    BY DEF query_event_fails, At
<1>3. PICK p \in Ptrs, s \in Streams :
          /\ local[t].ptr = p /\ local[t].streams = {s}
          /\ \A q, r : Has(t, q, r) <=> q = p /\ r = s
    BY <1>1, <1>2, InHands
<1>4. /\ pc' \in [Threads -> Phases] /\ local' \in [Threads -> Local] /\ Others(t)
      /\ pc'[t] = "idle"
    BY <1>1, <1>2, Returns
<1>5. Types'
    <2>1. /\ memory' \in [Ptrs -> {"none", "registered", "host_alloc", "lost"}]
          /\ block' \in [Ptrs -> Block] /\ blocks_' \subseteq Ptrs /\ free_list_' \subseteq Ptrs
          /\ work' \in [Ptrs -> SUBSET Streams] /\ supa_events_' \in Seq(Event)
        BY <1>1, <1>2 DEF Types
    <2> QED BY <1>1, <1>4, <2>1, TypesStep DEF PtrPhases, EventPhases
<1>6. \A q, r : ~Has(t, q, r)'
    BY <1>4 DEF Has, EventPhases
<1>7. Hands'
    <2>1. \A q, r : Waits(q, r)' <=> Waits(q, r)
        BY <1>2 DEF Waits
    <2> QED BY <1>1, <1>2, <1>4, <1>6, <2>1, HandsStep DEF Hands
<1>8. /\ s \in Pending(p) /\ Pending(p)' = Pending(p) \ {s}
      /\ Cardinality(Pending(p)') = Cardinality(Pending(p)) - 1
      /\ \A q \in Ptrs : q # p => Pending(q)' = Pending(q)
    BY <1>1, <1>2, <1>3, <1>4, <1>6, PendingLess
<1>9. \A q \in Ptrs : \A u \in Threads :
          (Carries(u, q)' <=> Carries(u, q)) /\ (Makes(u, q)' <=> Makes(u, q))
    BY <1>2, <1>4 DEF Carries, Makes, Others
<1>10. \A q \in Ptrs : q # p => Counted(q)' /\ Listed(q)'
    BY <1>2, <1>8, <1>9, Untouched DEF Inv
<1>11. Counted(p)'
    <2>1. Counted(p) /\ Cardinality(Pending(p)) \in Nat /\ block[p].event_count \in Int
        BY <1>1, PendingFinite, BlockType DEF Inv, Types
    <2>2. Cardinality(Pending(p)') < block'[p].event_count
        BY <1>2, <1>8, <2>1 DEF Counted
    <2>3. Cardinality(Pending(p)') \in Int
        BY <1>8, <2>1
    <2> QED BY <1>2, <2>1, <2>2, <2>3 DEF Counted
<1>12. Listed(p)'
    <2>1. Listed(p) /\ (Free(p)' <=> Free(p))
        BY <1>2 DEF Inv, Free
    <2> QED BY <1>2, <1>8, <1>9, <2>1 DEF Listed
<1> QED
    BY <1>5, <1>7, <1>10, <1>11, <1>12 DEF Inv

\* complete_event: a block whose last event is complete has no work.
LEMMA CompleteEvent ==
    ASSUME HostAssumption, Inv, NEW t \in Threads, complete_event(t)
    PROVE  Inv'
<1>1. Types /\ Hands
    BY DEF Inv
<1>2. PICK p \in Ptrs, s \in Streams :
          /\ local[t].ptr = p /\ local[t].streams = {s}
          /\ \A q, r : Has(t, q, r) <=> q = p /\ r = s
    BY <1>1, InHands DEF complete_event, At
<1> DEFINE n == block[p].event_count
<1>3. /\ pc[t] = "complete"
      /\ block' = [block EXCEPT ![p].event_count = n - 1]
      /\ IF n = 1 THEN Goto(t, "insert") /\ UNCHANGED local
                  ELSE Goto(t, "process") /\ Drop(t)
      /\ UNCHANGED <<memory, blocks_, free_list_, supa_events_, work, failed>>
    BY <1>2 DEF complete_event, At, ghost
<1>4. /\ pc' \in [Threads -> Phases] /\ local' \in [Threads -> Local] /\ Others(t)
      /\ pc'[t] = IF n = 1 THEN "insert" ELSE "process"
      /\ n = 1 => local'[t] = local[t]
    <2>1. CASE n = 1
        BY <1>1, <1>3, <2>1, Goes DEF Phases
    <2>2. CASE n # 1
        BY <1>1, <1>3, <2>2, Drops DEF Phases
    <2> QED BY <2>1, <2>2
<1>5. block[p] \in Block /\ n \in Int
    BY <1>1, BlockType DEF Types
<1>6. /\ block' \in [Ptrs -> Block] /\ \A q \in Ptrs : q # p => block'[q] = block[q]
      /\ block'[p].event_count = n - 1 /\ block'[p].allocated = block[p].allocated
      /\ block'[p].streams = block[p].streams
    <2>1. [block[p] EXCEPT !.event_count = n - 1] \in Block
        BY <1>5 DEF Block
    <2>2. /\ [block[p] EXCEPT !.event_count = n - 1].event_count = n - 1
          /\ [block[p] EXCEPT !.event_count = n - 1].allocated = block[p].allocated
          /\ [block[p] EXCEPT !.event_count = n - 1].streams = block[p].streams
        BY <1>5 DEF Block
    <2>3. block'[p] = [block[p] EXCEPT !.event_count = n - 1]
        BY <1>1, <1>3 DEF Types
    <2>4. block' \in [Ptrs -> Block] /\ \A q \in Ptrs : q # p => block'[q] = block[q]
        BY <1>1, <1>3, <2>1 DEF Types
    <2> QED BY <2>2, <2>3, <2>4
<1> HIDE DEF n
<1>7. Types'
    <2>1. /\ memory' \in [Ptrs -> {"none", "registered", "host_alloc", "lost"}]
          /\ blocks_' \subseteq Ptrs /\ free_list_' \subseteq Ptrs
          /\ work' \in [Ptrs -> SUBSET Streams] /\ supa_events_' \in Seq(Event)
        BY <1>1, <1>3 DEF Types
    <2>2. pc'[t] \in PtrPhases => local'[t].ptr \in Ptrs
        BY <1>2, <1>4 DEF PtrPhases, EventPhases
    <2>3. pc'[t] \notin {"query", "complete"}
        BY <1>4
    <2> QED BY <1>1, <1>4, <1>6, <2>1, <2>2, <2>3, TypesStep
<1>8. \A q, r : ~Has(t, q, r)'
    BY <1>4 DEF Has, EventPhases
<1>9. Hands'
    <2>1. \A q, r : Waits(q, r)' <=> Waits(q, r)
        BY <1>3 DEF Waits
    <2> QED BY <1>1, <1>3, <1>4, <1>8, <2>1, HandsStep DEF Hands
<1>10. /\ s \in Pending(p) /\ Pending(p)' = Pending(p) \ {s}
       /\ Cardinality(Pending(p)') = Cardinality(Pending(p)) - 1
       /\ \A q \in Ptrs : q # p => Pending(q)' = Pending(q)
    BY <1>1, <1>2, <1>3, <1>4, <1>8, PendingLess
<1>11. /\ \A q \in Ptrs : \A u \in Threads :
              /\ Carries(u, q)' <=> Carries(u, q) \/ (u = t /\ q = p /\ n = 1)
              /\ Makes(u, q)' <=> Makes(u, q)
       /\ \A q \in Ptrs : ~Carries(t, q)
    BY <1>2, <1>3, <1>4 DEF Carries, Makes, Others
<1>12. \A q \in Ptrs : q # p => Counted(q)' /\ Listed(q)'
    BY <1>3, <1>6, <1>10, <1>11, Untouched DEF Inv
<1>13. Counted(p) /\ Listed(p) /\ Cardinality(Pending(p)) \in Nat
    BY PendingFinite DEF Inv
<1>14. Cardinality(Pending(p)) >= 1
    <2>1. Pending(p) # {}
        BY <1>10
    <2>2. Cardinality(Pending(p)) # 0
        BY <2>1, PendingFinite, FS_EmptySet
    <2> QED BY <1>13, <2>2
<1>15. n >= 1 /\ ~block[p].allocated /\ ~Free(p)
    BY <1>5, <1>13, <1>14 DEF Counted, Free, n
<1>16. s \notin work[p]
    BY <1>1, <1>2, <1>3 DEF Hands
<1>17. Counted(p)'
    <2>1. Cardinality(Pending(p)') <= block'[p].event_count
        BY <1>5, <1>6, <1>10, <1>13 DEF Counted, n
    <2>2. ASSUME Cardinality(Pending(p)') = block'[p].event_count
          PROVE  work'[p] \subseteq Pending(p)'
        <3>1. Cardinality(Pending(p)) = n
            BY <1>5, <1>6, <1>10, <1>13, <2>2
        <3>2. work[p] \subseteq Pending(p)
            BY <1>13, <1>15, <3>1 DEF Counted, n
        <3> QED BY <1>3, <1>10, <1>16, <3>2
    <2>3. block'[p].streams = {} /\ ~block'[p].allocated
        BY <1>6, <1>13, <1>15 DEF Counted
    <2>4. ~failed' => Cardinality(Pending(p)') = block'[p].event_count
        BY <1>3, <1>5, <1>6, <1>10, <1>13 DEF Counted, n
    <2> QED BY <2>1, <2>2, <2>3, <2>4 DEF Counted
<1>18. Listed(p)'
    <2>1. Free(p)' <=> n = 1
        BY <1>5, <1>6, <1>15 DEF Free
    <2>2. /\ p \in blocks_ /\ p \notin free_list_ /\ memory[p] \notin NoMemory
          /\ \A u \in Threads : ~Carries(u, p)
        BY <1>10, <1>13, <1>15 DEF Listed
    <2>3. \A u \in Threads : ~Makes(u, p)
        BY <1>13, <1>15 DEF Listed
    <2> QED BY <1>3, <1>11, <2>1, <2>2, <2>3 DEF Listed
<1> QED
    BY <1>7, <1>9, <1>12, <1>17, <1>18 DEF Inv

-----------------------------------------------------------------------------
(* Steps on the lists.                                                     *)

\* insert_available, free_insert: a block is put in the free list.
LEMMA Inserts ==
    ASSUME Inv, NEW t \in Threads, pc[t] \in {"insert", "free_insert"},
           free_list_' = free_list_ \cup {local[t].ptr},
           Others(t), pc'[t] \in Quiet,
           pc' \in [Threads -> Phases], local' \in [Threads -> Local],
           UNCHANGED <<memory, block, blocks_, supa_events_, work, failed>>
    PROVE  Inv'
<1>1. Types /\ Hands
    BY DEF Inv
<1>2. PICK p \in Ptrs : /\ p = local[t].ptr /\ Carries(t, p)
                        /\ \A q \in Ptrs : Carries(t, q) => q = p
    BY <1>1 DEF Types, PtrPhases, Carries
<1>3. free_list_' = free_list_ \cup {p}
    BY <1>2
<1>4. Types'
    <2>1. /\ memory' \in [Ptrs -> {"none", "registered", "host_alloc", "lost"}]
          /\ block' \in [Ptrs -> Block] /\ blocks_' \subseteq Ptrs /\ free_list_' \subseteq Ptrs
          /\ work' \in [Ptrs -> SUBSET Streams] /\ supa_events_' \in Seq(Event)
        BY <1>1, <1>2, <1>3 DEF Types
    <2> QED BY <1>1, <2>1, TypesStep DEF Quiet, PtrPhases, EventPhases
<1>5. Hands' /\ \A q : Pending(q)' = Pending(q)
    BY <1>1, HandsStay DEF Quiet, EventPhases, Others, Hands
<1>6. \A q \in Ptrs : \A u \in Threads :
          /\ Carries(u, q)' <=> Carries(u, q) /\ u # t
          /\ Makes(u, q)' <=> Makes(u, q)
    BY DEF Carries, Makes, Others, Quiet
<1>7. \A q \in Ptrs : q # p => Counted(q)' /\ Listed(q)'
    BY <1>2, <1>3, <1>5, <1>6, Untouched DEF Inv
<1>8. Counted(p) /\ Listed(p)
    BY <1>2 DEF Inv
<1>9. Counted(p)'
    BY <1>5, <1>8 DEF Counted
<1>10. Free(p)' /\ Free(p) /\ memory[p] \notin NoMemory /\ \A u \in Threads : Carries(u, p) => u = t
    BY <1>2, <1>8 DEF Listed, Free
<1>11. Listed(p)'
    BY <1>2, <1>5, <1>6, <1>8, <1>10 DEF Listed, Free
<1> QED
    BY <1>4, <1>5, <1>7, <1>9, <1>11 DEF Inv

\* take_free_block: a block of the free list becomes allocated.
LEMMA TakeFreeBlock ==
    ASSUME Inv, NEW t \in Threads, take_free_block(t)
    PROVE  Inv'
<1>1. Types /\ Hands
    BY DEF Inv
<1>2. PICK p \in free_list_ :
          /\ block' = [block EXCEPT ![p].allocated = TRUE] /\ free_list_' = free_list_ \ {p}
    BY DEF take_free_block, Fitting
<1>3. /\ pc[t] = "search" /\ Return(t)
      /\ UNCHANGED <<memory, blocks_, supa_events_, work, failed>>
    BY DEF take_free_block, At, ghost
<1>4. p \in Ptrs
    BY <1>1 DEF Types
<1>5. /\ pc' \in [Threads -> Phases] /\ local' \in [Threads -> Local] /\ Others(t)
      /\ pc'[t] = "idle"
    BY <1>1, <1>3, Returns
<1>6. /\ block' \in [Ptrs -> Block] /\ \A q \in Ptrs : q # p => block'[q] = block[q]
      /\ block'[p].allocated = TRUE /\ block'[p].event_count = block[p].event_count
      /\ block'[p].streams = block[p].streams
    <2>1. block[p] \in Block
        BY <1>1, <1>4 DEF Types
    <2>2. [block[p] EXCEPT !.allocated = TRUE] \in Block
        BY <2>1 DEF Block
    <2>3. /\ [block[p] EXCEPT !.allocated = TRUE].allocated = TRUE
          /\ [block[p] EXCEPT !.allocated = TRUE].event_count = block[p].event_count
          /\ [block[p] EXCEPT !.allocated = TRUE].streams = block[p].streams
        BY <2>1 DEF Block
    <2>4. block'[p] = [block[p] EXCEPT !.allocated = TRUE]
        BY <1>1, <1>2, <1>4 DEF Types
    <2>5. block' \in [Ptrs -> Block] /\ \A q \in Ptrs : q # p => block'[q] = block[q]
        BY <1>1, <1>2, <1>4, <2>2 DEF Types
    <2> QED BY <2>3, <2>4, <2>5
<1>7. Types'
    <2>1. /\ memory' \in [Ptrs -> {"none", "registered", "host_alloc", "lost"}]
          /\ blocks_' \subseteq Ptrs /\ free_list_' \subseteq Ptrs
          /\ work' \in [Ptrs -> SUBSET Streams] /\ supa_events_' \in Seq(Event)
        BY <1>1, <1>2, <1>3 DEF Types
    <2> QED BY <1>1, <1>5, <1>6, <2>1, TypesStep DEF PtrPhases, EventPhases
<1>8. Hands' /\ \A q : Pending(q)' = Pending(q)
    BY <1>1, <1>3, <1>5, HandsStay DEF EventPhases, Others, Hands
<1>9. \A q \in Ptrs : \A u \in Threads :
          (Carries(u, q)' <=> Carries(u, q)) /\ (Makes(u, q)' <=> Makes(u, q))
    BY <1>3, <1>5 DEF Carries, Makes, Others
<1>10. \A q \in Ptrs : q # p => Counted(q)' /\ Listed(q)'
    BY <1>2, <1>3, <1>6, <1>8, <1>9, Untouched DEF Inv
<1>11. Counted(p) /\ Listed(p)
    BY <1>4 DEF Inv
<1>12. /\ ~block[p].allocated /\ block[p].event_count = 0 /\ memory[p] \notin NoMemory
       /\ \A u \in Threads : ~Carries(u, p) /\ ~Makes(u, p)
    BY <1>2, <1>11 DEF Listed, Free
<1>13. Counted(p)'
    BY <1>3, <1>6, <1>8, <1>11, <1>12 DEF Counted
<1>14. Listed(p)'
    BY <1>2, <1>3, <1>4, <1>6, <1>8, <1>9, <1>11, <1>12 DEF Listed
<1> QED
    BY <1>7, <1>8, <1>10, <1>13, <1>14 DEF Inv

\* create_block: an address without memory gets a block, not yet published.
LEMMA CreateBlock ==
    ASSUME HostAssumption, Inv, NEW t \in Threads, create_block(t)
    PROVE  Inv'
<1>1. Types /\ Hands
    BY DEF Inv
<1> DEFINE n == PowerOf2Ceil(local[t].size)
           m == IF host_register THEN "registered" ELSE "host_alloc"
<1>2. PICK p \in Ptrs :
          /\ memory[p] = "none" /\ memory' = [memory EXCEPT ![p] = m]
          /\ block' = [block EXCEPT ![p] = NewBlock(n)]
          /\ local' = [local EXCEPT ![t].ptr = p]
    BY DEF create_block
<1>3. /\ pc[t] = "create" /\ Goto(t, "publish")
      /\ UNCHANGED <<blocks_, free_list_, supa_events_, work, failed>>
    BY DEF create_block, At, ghost, lists
<1>4. n \in Sizes0 /\ m \in {"registered", "host_alloc"}
    BY <1>1 DEF Types, Local, Sizes0
<1> HIDE DEF n, m
<1>5. /\ NewBlock(n) \in Block
      /\ NewBlock(n).allocated = TRUE /\ NewBlock(n).event_count = 0
      /\ NewBlock(n).streams = {}
    BY <1>4, NewBlockType
<1>6. /\ block' \in [Ptrs -> Block] /\ \A q \in Ptrs : q # p => block'[q] = block[q]
      /\ block'[p].allocated = TRUE /\ block'[p].event_count = 0
    BY <1>1, <1>2, <1>5 DEF Types
<1>7. /\ memory' \in [Ptrs -> {"none", "registered", "host_alloc", "lost"}]
      /\ memory'[p] \notin NoMemory /\ \A q \in Ptrs : q # p => memory'[q] = memory[q]
    BY <1>1, <1>2, <1>4 DEF Types, NoMemory
<1>8. /\ pc' \in [Threads -> Phases] /\ local' \in [Threads -> Local] /\ Others(t)
      /\ pc'[t] = "publish" /\ local'[t].ptr = p
    BY <1>1, <1>2, <1>3 DEF Types, Goto, Others, Local, Phases
<1>9. Types'
    <2>1. /\ blocks_' \subseteq Ptrs /\ free_list_' \subseteq Ptrs
          /\ work' \in [Ptrs -> SUBSET Streams] /\ supa_events_' \in Seq(Event)
        BY <1>1, <1>3 DEF Types
    <2> QED BY <1>1, <1>6, <1>7, <1>8, <2>1, TypesStep
<1>10. Hands' /\ \A q : Pending(q)' = Pending(q)
    BY <1>1, <1>3, <1>8, HandsStay DEF EventPhases, Others, Hands
<1>11. \A q \in Ptrs : \A u \in Threads :
           /\ Carries(u, q)' <=> Carries(u, q)
           /\ Makes(u, q)' <=> Makes(u, q) \/ (u = t /\ q = p)
    BY <1>3, <1>8 DEF Carries, Makes, Others
<1>12. \A q \in Ptrs : q # p => Counted(q)' /\ Listed(q)'
    BY <1>3, <1>6, <1>7, <1>10, <1>11, Untouched DEF Inv
<1>13. /\ p \notin blocks_ /\ p \notin free_list_ /\ Pending(p) = {}
       /\ \A u \in Threads : ~Carries(u, p) /\ ~Makes(u, p)
    BY <1>2 DEF Inv, Listed, NoMemory
<1>14. Counted(p)'
    <2>1. Cardinality(Pending(p)') = 0
        BY <1>10, <1>13, FS_EmptySet
    <2> QED BY <1>6, <2>1 DEF Counted
<1>15. Listed(p)'
    BY <1>3, <1>6, <1>7, <1>10, <1>11, <1>13 DEF Listed
<1> QED
    BY <1>9, <1>10, <1>12, <1>14, <1>15 DEF Inv

\* publish_block: the block is listed in blocks_.
LEMMA PublishBlock ==
    ASSUME Inv, NEW t \in Threads, publish_block(t)
    PROVE  Inv'
<1>1. Types /\ Hands
    BY DEF Inv
<1>2. PICK p \in Ptrs : /\ p = local[t].ptr /\ Makes(t, p)
                        /\ \A q \in Ptrs : Makes(t, q) => q = p
    BY <1>1 DEF publish_block, At, Types, PtrPhases, Makes
<1>3. /\ pc[t] = "publish" /\ Return(t) /\ blocks_' = blocks_ \cup {p}
      /\ UNCHANGED <<memory, block, free_list_, supa_events_, work, failed>>
    BY <1>2 DEF publish_block, At, ghost
<1>4. /\ pc' \in [Threads -> Phases] /\ local' \in [Threads -> Local] /\ Others(t)
      /\ pc'[t] = "idle"
    BY <1>1, <1>3, Returns
<1>5. Types'
    <2>1. /\ memory' \in [Ptrs -> {"none", "registered", "host_alloc", "lost"}]
          /\ block' \in [Ptrs -> Block] /\ blocks_' \subseteq Ptrs /\ free_list_' \subseteq Ptrs
          /\ work' \in [Ptrs -> SUBSET Streams] /\ supa_events_' \in Seq(Event)
        BY <1>1, <1>2, <1>3 DEF Types
    <2> QED BY <1>1, <1>4, <2>1, TypesStep DEF PtrPhases, EventPhases
<1>6. Hands' /\ \A q : Pending(q)' = Pending(q)
    BY <1>1, <1>3, <1>4, HandsStay DEF EventPhases, Others, Hands
<1>7. \A q \in Ptrs : \A u \in Threads :
          /\ Carries(u, q)' <=> Carries(u, q)
          /\ Makes(u, q)' <=> Makes(u, q) /\ u # t
    BY <1>3, <1>4 DEF Carries, Makes, Others
<1>8. \A q \in Ptrs : q # p => Counted(q)' /\ Listed(q)'
    BY <1>2, <1>3, <1>6, <1>7, Untouched DEF Inv
<1>9. Counted(p) /\ Listed(p)
    BY <1>2 DEF Inv
<1>10. Counted(p)'
    BY <1>3, <1>6, <1>9 DEF Counted
<1>11. memory[p] \notin NoMemory /\ \A u \in Threads : Makes(u, p) => u = t
    BY <1>2, <1>9 DEF Listed
<1>12. Free(p)' <=> Free(p)
    BY <1>3 DEF Free
<1>13. Listed(p)'
    BY <1>3, <1>7, <1>9, <1>11, <1>12 DEF Listed
<1> QED
    BY <1>5, <1>6, <1>8, <1>10, <1>13 DEF Inv

\* record_event: the program names a stream that uses memory it holds.
LEMMA RecordEvent ==
    ASSUME Inv, NEW t \in Threads, NEW p \in Ptrs, NEW s \in Streams, record_event(t, p, s)
    PROVE  Inv'
<1>1. Types /\ Hands
    BY DEF Inv
<1>2. /\ block[p].allocated /\ block' = [block EXCEPT ![p].streams = @ \cup {s}]
      /\ UNCHANGED <<memory, blocks_, free_list_, supa_events_, work, failed, pc, local>>
    BY DEF record_event, Held, ghost, lists
<1>3. /\ block' \in [Ptrs -> Block] /\ \A q \in Ptrs : q # p => block'[q] = block[q]
      /\ block'[p].allocated = block[p].allocated
      /\ block'[p].event_count = block[p].event_count
    <2>1. block[p] \in Block
        BY <1>1 DEF Types
    <2>2. [block[p] EXCEPT !.streams = @ \cup {s}] \in Block
        BY <2>1 DEF Block
    <2>3. /\ [block[p] EXCEPT !.streams = @ \cup {s}].allocated = block[p].allocated
          /\ [block[p] EXCEPT !.streams = @ \cup {s}].event_count = block[p].event_count
        BY <2>1 DEF Block
    <2>4. block'[p] = [block[p] EXCEPT !.streams = @ \cup {s}]
        BY <1>1, <1>2 DEF Types
    <2>5. block' \in [Ptrs -> Block] /\ \A q \in Ptrs : q # p => block'[q] = block[q]
        BY <1>1, <1>2, <2>2 DEF Types
    <2> QED BY <2>3, <2>4, <2>5
<1>4. Types'
    BY <1>1, <1>2, <1>3 DEF Types
<1>5. Hands' /\ \A q : Pending(q)' = Pending(q)
    BY <1>1, <1>2, HandsStay DEF Hands
<1>6. \A q \in Ptrs : \A u \in Threads :
          (Carries(u, q)' <=> Carries(u, q)) /\ (Makes(u, q)' <=> Makes(u, q))
    BY <1>2 DEF Carries, Makes
<1>7. \A q \in Ptrs : q # p => Counted(q)' /\ Listed(q)'
    BY <1>2, <1>3, <1>5, <1>6, Untouched DEF Inv
<1>8. Counted(p) /\ Listed(p) /\ (Free(p)' <=> Free(p))
    BY <1>3 DEF Inv, Free
<1>9. Counted(p)'
    BY <1>2, <1>3, <1>5, <1>8 DEF Counted
<1>10. Listed(p)'
    BY <1>2, <1>3, <1>5, <1>6, <1>8 DEF Listed
<1> QED
    BY <1>4, <1>5, <1>7, <1>9, <1>10 DEF Inv

\* release_blocks: memory of the free list goes back to the system.
LEMMA ReleaseBlocks ==
    ASSUME HostAssumption, Inv, NEW t \in Threads, release_blocks(t)
    PROVE  Inv'
<1>1. Types /\ Hands
    BY DEF Inv
<1> DEFINE bad  == {p \in free_list_ : ~Releasable(p)}
           done == {p \in free_list_ : \A q \in bad : Before(p, q)}
           gone == {p \in free_list_ : \A q \in bad \ {p} : Before(p, q)}
<1>2. /\ pc[t] = "release" /\ Return(t) /\ free_list_' = {}
      /\ memory' = [p \in Ptrs |-> IF p \in done THEN "none" ELSE memory[p]]
      /\ blocks_' = blocks_ \ gone
      /\ UNCHANGED <<block, supa_events_, work, failed>>
    BY DEF release_blocks, At, ghost
<1>3. done \subseteq gone /\ gone \subseteq free_list_
    OBVIOUS
<1> HIDE DEF done, gone
<1>4. /\ pc' \in [Threads -> Phases] /\ local' \in [Threads -> Local] /\ Others(t)
      /\ pc'[t] = "idle"
    BY <1>1, <1>2, Returns
<1>5. Types'
    <2>1. /\ memory' \in [Ptrs -> {"none", "registered", "host_alloc", "lost"}]
          /\ block' \in [Ptrs -> Block] /\ blocks_' \subseteq Ptrs /\ free_list_' \subseteq Ptrs
          /\ work' \in [Ptrs -> SUBSET Streams] /\ supa_events_' \in Seq(Event)
        BY <1>1, <1>2 DEF Types
    <2> QED BY <1>1, <1>4, <2>1, TypesStep DEF PtrPhases, EventPhases
<1>6. Hands' /\ \A q : Pending(q)' = Pending(q)
    BY <1>1, <1>2, <1>4, HandsStay DEF EventPhases, Others, Hands
<1>7. \A q \in Ptrs : \A u \in Threads :
          (Carries(u, q)' <=> Carries(u, q)) /\ (Makes(u, q)' <=> Makes(u, q))
    BY <1>2, <1>4 DEF Carries, Makes, Others
<1>8. ASSUME NEW p \in Ptrs PROVE Counted(p)' /\ Listed(p)'
    <2>1. Counted(p) /\ Listed(p)
        BY DEF Inv
    <2>2. Counted(p)'
        BY <1>2, <1>6, <2>1 DEF Counted
    <2>3. p \in free_list_ =>
              Pending(p) = {} /\ \A u \in Threads : ~Carries(u, p) /\ ~Makes(u, p)
        BY <2>1, PendingFinite DEF Listed, Free
    <2>4. memory'[p] \in NoMemory => p \notin blocks_' /\ (p \in done \/ memory[p] \in NoMemory)
        BY <1>2, <1>3, <2>1 DEF Listed
    <2>5. memory'[p] \in NoMemory => \A u \in Threads : ~Makes(u, p)
        BY <1>3, <2>1, <2>3, <2>4 DEF Listed
    <2>6. Free(p)' <=> Free(p)
        BY <1>2 DEF Free
    <2>7. Listed(p)'
        <3>1. p \notin free_list_ /\ p \in blocks_ => p \in blocks_'
            BY <1>2, <1>3
        <3>2. p \notin free_list_ => (p \in blocks_' <=> p \in blocks_)
            BY <1>2, <3>1
        <3> QED BY <1>2, <1>6, <1>7, <2>1, <2>3, <2>4, <2>5, <2>6, <3>2 DEF Listed
    <2> QED BY <2>2, <2>7
<1> QED
    BY <1>5, <1>6, <1>8 DEF Inv

\* launch: memory the program holds has no event, so no completed one goes stale.
LEMMA Launch ==
    ASSUME HostAssumption, Inv, NEW p \in Ptrs, NEW s \in Streams, launch(p, s)
    PROVE  Inv'
<1>1. Types /\ Hands
    BY DEF Inv
<1>2. /\ block[p].allocated /\ work' = [work EXCEPT ![p] = @ \cup {s}]
      /\ UNCHANGED <<memory, block, blocks_, free_list_, supa_events_, failed, pc, local>>
    BY DEF launch, Held, lists
<1>3. work' \in [Ptrs -> SUBSET Streams] /\ \A q \in Ptrs : q # p => work'[q] = work[q]
    BY <1>1, <1>2 DEF Types
<1>4. Types'
    BY <1>1, <1>2, <1>3 DEF Types
<1>5. Counted(p) /\ Listed(p)
    BY DEF Inv
<1>6. \A r \in Streams : \A u \in Threads : ~Has(u, p, r)
    BY <1>2, <1>5, AllocatedWaitsForNone
<1>7. ASSUME NEW u \in Threads, pc[u] = "complete"
      PROVE  local[u].streams \cap work'[local[u].ptr] = {}
    <2>1. PICK q \in Ptrs, r \in Streams :
              /\ local[u].ptr = q /\ local[u].streams = {r}
              /\ \A x, y : Has(u, x, y) <=> x = q /\ y = r
        BY <1>1, <1>7, InHands
    <2>2. q # p
        BY <1>6, <2>1
    <2>3. work'[q] = work[q]
        BY <1>3, <2>2
    <2> QED BY <1>1, <1>7, <2>1, <2>3 DEF Hands
<1>8. Hands' /\ \A q : Pending(q)' = Pending(q)
    BY <1>1, <1>2, <1>7, HandsStay
<1>9. \A q \in Ptrs : \A u \in Threads :
          (Carries(u, q)' <=> Carries(u, q)) /\ (Makes(u, q)' <=> Makes(u, q))
    BY <1>2 DEF Carries, Makes
<1>10. \A q \in Ptrs : q # p => Counted(q)' /\ Listed(q)'
    BY <1>2, <1>3, <1>8, <1>9, Untouched DEF Inv
<1>11. Counted(p)'
    BY <1>2, <1>5, <1>8 DEF Counted
<1>12. Free(p)' <=> Free(p)
    BY <1>2 DEF Free
<1>13. Listed(p)'
    BY <1>2, <1>5, <1>8, <1>9, <1>12 DEF Listed
<1> QED
    BY <1>4, <1>8, <1>10, <1>11, <1>13 DEF Inv

\* retire: work is done.
LEMMA Retire ==
    ASSUME Inv, NEW p \in Ptrs, NEW s \in Streams, retire(p, s)
    PROVE  Inv'
<1>1. Types /\ Hands
    BY DEF Inv
<1>2. /\ work' = [work EXCEPT ![p] = @ \ {s}]
      /\ UNCHANGED <<memory, block, blocks_, free_list_, supa_events_, failed, pc, local>>
    BY DEF retire, lists
<1>3. work' \in [Ptrs -> SUBSET Streams] /\ \A q \in Ptrs : work'[q] \subseteq work[q]
    BY <1>1, <1>2 DEF Types
<1>4. Types'
    BY <1>1, <1>2, <1>3 DEF Types
<1>5. \A u \in Threads : pc[u] = "complete" => local[u].streams \cap work'[local[u].ptr] = {}
    <2>1. \A u \in Threads : pc[u] = "complete" => local[u].ptr \in Ptrs
        BY <1>1 DEF Types, PtrPhases, EventPhases
    <2> QED BY <1>1, <1>3, <2>1 DEF Hands
<1>6. Hands' /\ \A q : Pending(q)' = Pending(q)
    BY <1>1, <1>2, <1>5, HandsStay
<1>7. \A q \in Ptrs : \A u \in Threads :
          (Carries(u, q)' <=> Carries(u, q)) /\ (Makes(u, q)' <=> Makes(u, q))
    BY <1>2 DEF Carries, Makes
<1>8. \A q \in Ptrs : Counted(q)' /\ Listed(q)'
    BY <1>2, <1>3, <1>6, <1>7, Untouched DEF Inv
<1> QED
    BY <1>4, <1>6, <1>8 DEF Inv

-----------------------------------------------------------------------------
(* The steps of free.                                                      *)

\* free: the streams of the block become what it waits for.
LEMMA FreeStep ==
    ASSUME HostAssumption, Inv, NEW t \in Threads, NEW p \in Ptrs, free(t, p)
    PROVE  Inv'
<1> DEFINE S == block[p].streams
           l == IF S = {} THEN "free_insert" ELSE "record"
           b == [block[p] EXCEPT !.allocated = FALSE, !.streams = {},
                                 !.event_count = @ + Cardinality(S)]
<1>1. Types /\ Hands /\ Counted(p) /\ Listed(p)
    BY DEF Inv
<1>2. /\ pc[t] = "idle" /\ p \in blocks_ /\ block[p].allocated /\ work[p] \subseteq S
      /\ block' = [block EXCEPT ![p] = b]
      /\ local' = [local EXCEPT ![t].ptr = p, ![t].streams = S]
      /\ Goto(t, l)
      /\ UNCHANGED <<memory, blocks_, free_list_, supa_events_, work, failed>>
    BY DEF free, At, Held, ghost, lists
<1>3. block[p] \in Block /\ S \in SUBSET Streams /\ block[p].event_count = 0
    BY <1>1, <1>2, BlockType DEF Types, Counted
<1>4. IsFiniteSet(S) /\ Cardinality(S) \in Nat /\ (Cardinality(S) = 0 <=> S = {})
    BY <1>3, FS_Subset, FS_CardinalityType, FS_EmptySet DEF HostAssumption
<1>5. b \in Block /\ ~b.allocated /\ b.streams = {} /\ b.event_count = Cardinality(S)
    <2> DEFINE c == Cardinality(S)
    <2>1. c \in Int
        BY <1>4
    <2> HIDE DEF c
    <2>2. LET d == [block[p] EXCEPT !.allocated = FALSE, !.streams = {}, !.event_count = @ + c]
          IN  /\ d \in Block /\ ~d.allocated /\ d.streams = {}
              /\ d.event_count = block[p].event_count + c
        BY <1>3, <2>1, FreedBlockType
    <2> QED BY <1>3, <2>1, <2>2 DEF c
<1>7. \A r \in Streams : ~Waits(p, r) /\ \A u \in Threads : ~Has(u, p, r)
    BY <1>1, <1>2, AllocatedWaitsForNone
<1>9. PICK R \in SUBSET Streams, k \in Phases, c \in Block : R = S /\ k = l /\ c = b
    BY <1>3, <1>5 DEF Phases
<1>10. /\ block' = [block EXCEPT ![p] = c] /\ Goto(t, k) /\ work[p] \subseteq R
       /\ local' = [local EXCEPT ![t].ptr = p, ![t].streams = R]
       /\ k = (IF R = {} THEN "free_insert" ELSE "record")
       /\ ~c.allocated /\ c.streams = {} /\ c.event_count = Cardinality(R)
       /\ Cardinality(R) \in Nat /\ (Cardinality(R) = 0 <=> R = {})
    BY <1>2, <1>4, <1>5, <1>9
<1> HIDE DEF S, l, b
<1>11. /\ pc' \in [Threads -> Phases] /\ local' \in [Threads -> Local] /\ Others(t)
       /\ pc'[t] = k /\ k \in {"free_insert", "record"}
       /\ local'[t].ptr = p /\ local'[t].streams = R
    <2>1. p \in Ptrs \cup {0} /\ Types
        BY <1>1
    <2>2. Goto(t, k) /\ local' = [local EXCEPT ![t].ptr = p, ![t].streams = R]
        BY <1>10
    <2>3. pc' \in [Threads -> Phases] /\ local' \in [Threads -> Local] /\ Others(t)
        <3>1. [local[t] EXCEPT !.ptr = p, !.streams = R] \in Local
            BY <2>1 DEF Types, Local
        <3>2. local' = [local EXCEPT ![t] = [local[t] EXCEPT !.ptr = p, !.streams = R]]
            BY <2>2
        <3> QED BY <2>1, <2>2, <3>1, <3>2 DEF Types, Goto, Others
    <2>4. pc'[t] = k /\ local'[t].ptr = p /\ local'[t].streams = R
        BY <2>1, <2>2 DEF Types, Goto, Local
    <2> QED BY <1>10, <2>3, <2>4
<1>12. /\ block' \in [Ptrs -> Block] /\ \A q \in Ptrs : q # p => block'[q] = block[q]
       /\ block'[p] = c
    BY <1>1, <1>10 DEF Types
<1>13. Types'
    <2>1. /\ memory' \in [Ptrs -> {"none", "registered", "host_alloc", "lost"}]
          /\ blocks_' \subseteq Ptrs /\ free_list_' \subseteq Ptrs
          /\ work' \in [Ptrs -> SUBSET Streams] /\ supa_events_' \in Seq(Event)
        BY <1>1, <1>2 DEF Types
    <2> QED BY <1>1, <1>11, <1>12, <2>1, TypesStep
<1>14. /\ \A q, r : Has(t, q, r)' <=> q = p /\ r \in R
       /\ \A q, r : ~Has(t, q, r)
       /\ \A u \in Threads : \A q, r : u # t => (Has(u, q, r)' <=> Has(u, q, r))
       /\ \A q, r : Waits(q, r)' <=> Waits(q, r)
    BY <1>2, <1>10, <1>11 DEF Has, Waits, Others, EventPhases
<1>15. Hands'
    <2>1. /\ \A q \in Ptrs, r \in Streams : Has(t, q, r)' => ~Waits(q, r)'
          /\ \A u \in Threads, q \in Ptrs, r \in Streams :
                u # t /\ Has(u, q, r) => ~Waits(q, r)' /\ ~Has(t, q, r)'
        BY <1>1, <1>7, <1>14 DEF Hands
    <2> QED BY <1>1, <1>2, <1>11, <2>1, HandsStep DEF Hands
<1>16. /\ Pending(p)' = R
       /\ \A q \in Ptrs : q # p => Pending(q)' = Pending(q)
    <2>1. \A r \in Streams : (Waits(p, r) \/ \E u \in Threads : Has(u, p, r))' <=> r \in R
        BY <1>7, <1>14
    <2>2. Pending(p)' = R
        BY <2>1 DEF Pending
    <2> QED BY <1>14, <2>2, PendingKept
<1>17. \A q \in Ptrs : \A u \in Threads :
           /\ Carries(u, q)' <=> Carries(u, q) \/ (u = t /\ q = p /\ R = {})
           /\ Makes(u, q)' <=> Makes(u, q)
    BY <1>2, <1>10, <1>11 DEF Carries, Makes, Others
<1>18. \A q \in Ptrs : q # p => Counted(q)' /\ Listed(q)'
    BY <1>2, <1>12, <1>16, <1>17, Untouched DEF Inv
<1>19. Counted(p)'
    BY <1>2, <1>10, <1>12, <1>16 DEF Counted
<1>20. Listed(p)'
    <2>1. /\ ~Free(p) /\ (Free(p)' <=> R = {})
        BY <1>2, <1>10, <1>12 DEF Free
    <2>2. p \notin free_list_ /\ (\A u \in Threads : ~Carries(u, p) /\ ~Makes(u, p))
          /\ memory[p] \notin NoMemory
        BY <1>1, <1>2, <2>1 DEF Listed
    <2> QED BY <1>2, <1>17, <2>1, <2>2 DEF Listed
<1> QED
    BY <1>13, <1>15, <1>18, <1>19, <1>20 DEF Inv

\* record_streams: the events are recorded, in any order.
LEMMA RecordStreams ==
    ASSUME HostAssumption, Inv, NEW t \in Threads, record_streams(t)
    PROVE  Inv'
<1>1. Types /\ Hands
    BY DEF Inv
<1>2. PICK p \in Ptrs, S \in SUBSET Streams : p = local[t].ptr /\ S = local[t].streams
    BY <1>1 DEF record_streams, At, Types, Local, PtrPhases, EventPhases
<1>3. PICK order \in SetToSeqs(S) :
          local' = [local EXCEPT ![t].events = [i \in DOMAIN order |-> Ev(p, order[i])]]
    BY <1>2 DEF record_streams, Ev
<1>4. /\ pc[t] = "record" /\ Goto(t, "enqueue")
      /\ UNCHANGED <<memory, block, blocks_, free_list_, supa_events_, work, failed>>
    BY DEF record_streams, At, ghost
<1> DEFINE q == [i \in DOMAIN order |-> Ev(p, order[i])]
<1>5. order \in Seq(S) /\ NoRepeats(order) /\ Entries(order) = S
    <2>1. IsFiniteSet(S)
        BY FS_Subset DEF HostAssumption
    <2> QED BY <2>1, OrderOfSet
<1>6. q \in Seq(Event) /\ NoRepeats(q) /\ Entries(q) = {Ev(p, s) : s \in S}
    <2>1. DOMAIN order = 1 .. Len(order) /\ Len(order) \in Nat
          /\ \A i \in DOMAIN order : order[i] \in S
        BY <1>5
    <2>2. \A i \in DOMAIN order : Ev(p, order[i]) \in Event
        BY <2>1 DEF Ev, Event
    <2>3. q \in Seq(Event)
        BY <2>1, <2>2
    <2>4. NoRepeats(q)
        BY <1>5 DEF NoRepeats, Ev
    <2>5. Entries(q) = {Ev(p, order[i]) : i \in DOMAIN order}
        BY DEF Entries
    <2>6. {Ev(p, order[i]) : i \in DOMAIN order} = {Ev(p, s) : s \in S}
        BY <1>5 DEF Entries
    <2> QED BY <2>3, <2>4, <2>5, <2>6
<1> HIDE DEF q
<1>7. /\ pc' \in [Threads -> Phases] /\ local' \in [Threads -> Local] /\ Others(t)
      /\ pc'[t] = "enqueue" /\ local'[t].ptr = p /\ local'[t].streams = S
      /\ local'[t].events = q
    <2>1. local' = [local EXCEPT ![t].events = q]
        BY <1>3 DEF q
    <2> QED BY <1>1, <1>2, <1>4, <1>6, <2>1 DEF Types, Goto, Others, Local, Phases
<1>8. Types'
    <2>1. /\ memory' \in [Ptrs -> {"none", "registered", "host_alloc", "lost"}]
          /\ block' \in [Ptrs -> Block] /\ blocks_' \subseteq Ptrs /\ free_list_' \subseteq Ptrs
          /\ work' \in [Ptrs -> SUBSET Streams] /\ supa_events_' \in Seq(Event)
        BY <1>1, <1>4 DEF Types
    <2> QED BY <1>1, <1>7, <2>1, TypesStep
<1>9. \A u \in Threads : \A r, s : Has(u, r, s)' <=> Has(u, r, s)
    BY <1>2, <1>4, <1>7 DEF Has, Others, EventPhases
<1>10. \A r, s : Waits(r, s)' <=> Waits(r, s)
    BY <1>4 DEF Waits
<1>11. Hands'
    <2>1. pc'[t] = "enqueue" =>
              /\ NoRepeats(local'[t].events)
              /\ Entries(local'[t].events) = {Ev(local'[t].ptr, s) : s \in local'[t].streams}
        BY <1>6, <1>7
    <2> QED BY <1>1, <1>4, <1>7, <1>9, <1>10, <2>1, HandsStep DEF Hands
<1>12. \A r : Pending(r)' = Pending(r)
    BY <1>9, <1>10, PendingKept
<1>13. \A r \in Ptrs : \A u \in Threads :
           (Carries(u, r)' <=> Carries(u, r)) /\ (Makes(u, r)' <=> Makes(u, r))
    BY <1>4, <1>7 DEF Carries, Makes, Others
<1>14. \A r \in Ptrs : Counted(r)' /\ Listed(r)'
    BY <1>4, <1>12, <1>13, Untouched DEF Inv
<1> QED
    BY <1>8, <1>11, <1>14 DEF Inv

\* record_streams_fails: the events are lost, and event_count exceeds what is pending.
LEMMA RecordFails ==
    ASSUME HostAssumption, Inv, NEW t \in Threads, record_streams_fails(t)
    PROVE  Inv'
<1>1. Types /\ Hands
    BY DEF Inv
<1>2. /\ pc[t] = "record" /\ Return(t)
      /\ failed' = TRUE
      /\ UNCHANGED <<memory, block, blocks_, free_list_, supa_events_, work>>
    BY DEF record_streams_fails, At
<1>3. /\ pc' \in [Threads -> Phases] /\ local' \in [Threads -> Local] /\ Others(t)
      /\ pc'[t] = "idle"
    BY <1>1, <1>2, Returns
<1>4. Types'
    <2>1. /\ memory' \in [Ptrs -> {"none", "registered", "host_alloc", "lost"}]
          /\ block' \in [Ptrs -> Block] /\ blocks_' \subseteq Ptrs /\ free_list_' \subseteq Ptrs
          /\ work' \in [Ptrs -> SUBSET Streams] /\ supa_events_' \in Seq(Event)
        BY <1>1, <1>2 DEF Types
    <2> QED BY <1>1, <1>3, <2>1, TypesStep DEF PtrPhases, EventPhases
<1>5. /\ \A q, r : ~Has(t, q, r)' /\ (Waits(q, r)' <=> Waits(q, r))
      /\ \A u \in Threads : \A q, r : u # t => (Has(u, q, r)' <=> Has(u, q, r))
    BY <1>2, <1>3 DEF Has, Waits, Others, EventPhases
<1>6. Hands'
    BY <1>1, <1>2, <1>3, <1>5, HandsStep DEF Hands
<1>7. \A q : Pending(q)' \subseteq Pending(q)
    BY <1>5 DEF Pending
<1>8. \A q \in Ptrs : \A u \in Threads :
          (Carries(u, q)' <=> Carries(u, q)) /\ (Makes(u, q)' <=> Makes(u, q))
    BY <1>2, <1>3 DEF Carries, Makes, Others
<1>9. ASSUME NEW q \in Ptrs PROVE Counted(q)' /\ Listed(q)'
    <2>1. CASE Pending(q)' = Pending(q)
        BY <1>2, <1>8, <2>1, Untouched DEF Inv
    <2>2. CASE Pending(q)' # Pending(q)
        <3>1. /\ Cardinality(Pending(q)') < Cardinality(Pending(q))
              /\ Cardinality(Pending(q)') \in Nat /\ Cardinality(Pending(q)) \in Nat
            BY <1>7, <2>2, PendingFinite, FS_Subset, FS_CardinalityType
        <3>2. block[q].event_count \in Int
            BY <1>1, BlockType DEF Types
        <3>3. Counted(q)'
            BY <1>2, <3>1, <3>2 DEF Inv, Counted
        <3>4. Free(q)' <=> Free(q)
            BY <1>2 DEF Free
        <3>5. Listed(q)'
            BY <1>2, <1>7, <1>8, <3>4 DEF Inv, Listed
        <3> QED BY <3>3, <3>5
    <2> QED BY <2>1, <2>2
<1> QED
    BY <1>4, <1>6, <1>9 DEF Inv

\* enqueue_events: the events go from the hands of the thread into the deque.
LEMMA EnqueueEvents ==
    ASSUME Inv, NEW t \in Threads, enqueue_events(t)
    PROVE  Inv'
<1>1. Types /\ Hands
    BY DEF Inv
<1>2. PICK p \in Ptrs, S \in SUBSET Streams, r \in Seq(Event) :
          p = local[t].ptr /\ S = local[t].streams /\ r = local[t].events
    BY <1>1 DEF enqueue_events, At, Types, Local, PtrPhases, EventPhases
<1>3. /\ pc[t] = "enqueue" /\ Return(t) /\ supa_events_' = Reverse(r) \o supa_events_
      /\ UNCHANGED <<memory, block, blocks_, free_list_, work, failed>>
    BY <1>2 DEF enqueue_events, At, ghost
<1>4. NoRepeats(r) /\ Entries(r) = {Ev(p, s) : s \in S}
    BY <1>1, <1>2, <1>3 DEF Hands
<1>5. \A q, s : Has(t, q, s) <=> q = p /\ s \in S
    BY <1>2, <1>3 DEF Has, EventPhases
<1>6. Entries(supa_events_) \cap Entries(r) = {}
    <2>1. \A s \in S : Ev(p, s) \notin Entries(supa_events_)
        BY <1>1, <1>5 DEF Hands, Waits
    <2> QED BY <1>4, <2>1
<1>7. /\ supa_events_' \in Seq(Event) /\ NoRepeats(supa_events_')
      /\ Entries(supa_events_') = Entries(r) \cup Entries(supa_events_)
    BY <1>1, <1>3, <1>4, <1>6, EntriesAhead DEF Types, Hands
<1>8. /\ pc' \in [Threads -> Phases] /\ local' \in [Threads -> Local] /\ Others(t)
      /\ pc'[t] = "idle"
    BY <1>1, <1>3, Returns
<1>9. Types'
    <2>1. /\ memory' \in [Ptrs -> {"none", "registered", "host_alloc", "lost"}]
          /\ block' \in [Ptrs -> Block] /\ blocks_' \subseteq Ptrs /\ free_list_' \subseteq Ptrs
          /\ work' \in [Ptrs -> SUBSET Streams]
        BY <1>1, <1>3 DEF Types
    <2> QED BY <1>1, <1>7, <1>8, <2>1, TypesStep DEF PtrPhases, EventPhases
<1>10. \A q, s : Waits(q, s)' <=> Waits(q, s) \/ (q = p /\ s \in S)
    <2>1. \A q, s : Ev(q, s) \in {Ev(p, x) : x \in S} <=> q = p /\ s \in S
        BY DEF Ev
    <2> QED BY <1>4, <1>7, <2>1 DEF Waits
<1>11. /\ \A q, s : ~Has(t, q, s)'
       /\ \A u \in Threads : \A q, s : u # t => (Has(u, q, s)' <=> Has(u, q, s))
    BY <1>8 DEF Has, Others, EventPhases
<1>12. Hands'
    <2>1. \A u \in Threads, q \in Ptrs, s \in Streams :
              u # t /\ Has(u, q, s) => ~Waits(q, s)' /\ ~Has(t, q, s)'
        BY <1>1, <1>5, <1>10, <1>11 DEF Hands
    <2> QED BY <1>1, <1>3, <1>7, <1>8, <1>11, <2>1, HandsStep
<1>13. \A q \in Ptrs : Pending(q)' = Pending(q)
    BY <1>5, <1>10, <1>11, PendingKept
<1>14. \A q \in Ptrs : \A u \in Threads :
           (Carries(u, q)' <=> Carries(u, q)) /\ (Makes(u, q)' <=> Makes(u, q))
    BY <1>3, <1>8 DEF Carries, Makes, Others
<1>15. \A q \in Ptrs : Counted(q)' /\ Listed(q)'
    BY <1>3, <1>13, <1>14, Untouched DEF Inv
<1> QED
    BY <1>9, <1>12, <1>15 DEF Inv

-----------------------------------------------------------------------------
(* The steps that leave the blocks and the events alone.                   *)

\* allocate and empty_cache begin.
LEMMA CallStep ==
    ASSUME Inv, NEW t \in Threads, (\E n \in Sizes : allocate(t, n)) \/ empty_cache(t)
    PROVE  Inv'
<1>1. /\ pc[t] = "idle" /\ Goto(t, "process")
      /\ UNCHANGED <<memory, block, blocks_, free_list_, supa_events_, work, failed>>
    BY DEF allocate, empty_cache, At, ghost, lists
<1>2. Types
    BY DEF Inv
<1>3. /\ pc' \in [Threads -> Phases] /\ pc'[t] = "process"
      /\ \A u \in Threads : u # t => pc'[u] = pc[u]
    BY <1>1, <1>2 DEF Types, Goto, Phases
<1>4. local' \in [Threads -> Local] /\ \A u \in Threads : u # t => local'[u] = local[u]
    <2>1. ASSUME NEW n \in Sizes, allocate(t, n)
          PROVE  local' \in [Threads -> Local] /\ \A u \in Threads : u # t => local'[u] = local[u]
        <3>1. local' = [local EXCEPT ![t] = [local[t] EXCEPT !.op = "allocate", !.size = n]]
            BY <2>1 DEF allocate
        <3> QED BY <1>2, <3>1, CalledType DEF Types
    <2>2. CASE empty_cache(t)
        <3>1. local' = [local EXCEPT ![t] = [local[t] EXCEPT !.op = "empty"]]
            BY <2>2 DEF empty_cache
        <3>2. [local[t] EXCEPT !.op = "empty"] \in Local
            BY <1>2 DEF Types, Local
        <3> QED BY <1>2, <3>1, <3>2 DEF Types
    <2> QED BY <2>1, <2>2
<1>5. memory' \in [Ptrs -> {"none", "registered", "host_alloc", "lost"}]
    BY <1>1, <1>2 DEF Types
<1> QED
    BY <1>1, <1>3, <1>4, <1>5, QuietStep DEF Others, Quiet

\* The end of process_events, a search that finds nothing, empty_events
LEMMA GoesOn ==
    ASSUME Inv, NEW t \in Threads,
           (pop_event(t) /\ supa_events_ = <<>>) \/ no_free_block(t) \/ empty_events(t)
    PROVE  Inv'
<1>1. AfterEvents(t) \in {"search", "empty_events"}
    BY DEF AfterEvents
<1>2. PICK l \in {"search", "empty_events", "create", "release"} : Goto(t, l)
    BY <1>1 DEF pop_event, no_free_block, empty_events
<1>3. /\ pc[t] \in Quiet
      /\ UNCHANGED <<memory, block, blocks_, free_list_, supa_events_, work, failed, local>>
    BY DEF pop_event, no_free_block, empty_events, At, ghost, lists, Quiet
<1>4. Types
    BY DEF Inv
<1>5. pc' \in [Threads -> Phases] /\ local' \in [Threads -> Local] /\ Others(t) /\ pc'[t] = l
    BY <1>2, <1>3, <1>4, Goes DEF Phases
<1>6. memory' \in [Ptrs -> {"none", "registered", "host_alloc", "lost"}]
    BY <1>3, <1>4 DEF Types
<1> QED
    BY <1>3, <1>5, <1>6, QuietStep DEF Quiet

\* create_block_fails: memory may be lost.
LEMMA CreateFails ==
    ASSUME Inv, NEW t \in Threads, create_block_fails(t)
    PROVE  Inv'
<1>1. /\ pc[t] = "create" /\ Return(t)
      /\ UNCHANGED <<block, blocks_, free_list_, supa_events_, work, failed>>
    BY DEF create_block_fails, At, ghost, lists
<1>2. Types
    BY DEF Inv
<1>3. /\ memory' \in [Ptrs -> {"none", "registered", "host_alloc", "lost"}]
      /\ \A p \in Ptrs : memory'[p] \in NoMemory => memory[p] \in NoMemory
    BY <1>2 DEF create_block_fails, Types, NoMemory
<1>4. /\ pc' \in [Threads -> Phases] /\ local' \in [Threads -> Local] /\ Others(t)
      /\ pc'[t] = "idle"
    BY <1>1, <1>2, Returns
<1> QED
    BY <1>1, <1>3, <1>4, QuietStep DEF Quiet

\* setAllocatorSettings, or no step at all
LEMMA Stutters ==
    ASSUME Inv, UNCHANGED <<memory, block, blocks_, free_list_, supa_events_, work, failed, pc, local>>
    PROVE  Inv'
<1>1. Types /\ Hands
    BY DEF Inv
<1>2. Types'
    BY <1>1 DEF Types
<1>3. Hands' /\ \A q : Pending(q)' = Pending(q)
    BY <1>1, HandsStay DEF Hands
<1>4. \A q \in Ptrs : \A u \in Threads :
          (Carries(u, q)' <=> Carries(u, q)) /\ (Makes(u, q)' <=> Makes(u, q))
    BY DEF Carries, Makes
<1>5. \A q \in Ptrs : Counted(q)' /\ Listed(q)'
    BY <1>3, <1>4, Untouched DEF Inv
<1> QED
    BY <1>2, <1>3, <1>5 DEF Inv

-----------------------------------------------------------------------------
\* One step per action of Next
LEMMA InvNext == HostAssumption /\ Inv /\ [Next]_vars => Inv'
<1> SUFFICES ASSUME HostAssumption, Inv, [Next]_vars PROVE Inv'
    OBVIOUS
<1>1. ASSUME NEW t \in Threads, Step(t) PROVE Inv'
    <2>1. CASE pop_event(t)
        BY <2>1, PopEvent, GoesOn
    <2>2. CASE query_event(t)
        BY <2>2, QueryReady, QueryNotReady
    <2>3. CASE query_event_fails(t)
        BY <2>3, QueryFails
    <2>4. CASE complete_event(t)
        BY <2>4, CompleteEvent
    <2>5. CASE insert_available(t)
        <3>1. /\ pc[t] = "insert" /\ free_list_' = free_list_ \cup {local[t].ptr}
              /\ Goto(t, "process") /\ Drop(t)
              /\ UNCHANGED <<memory, block, blocks_, supa_events_, work, failed>>
            BY <2>5 DEF insert_available, At, ghost
        <3>2. /\ pc' \in [Threads -> Phases] /\ local' \in [Threads -> Local] /\ Others(t)
              /\ pc'[t] = "process"
            BY <3>1, Drops DEF Inv, Phases
        <3> QED BY <3>1, <3>2, Inserts DEF Quiet
    <2>6. CASE take_free_block(t)
        BY <2>6, TakeFreeBlock
    <2>7. CASE no_free_block(t) \/ empty_events(t)
        BY <2>7, GoesOn
    <2>8. CASE create_block(t)
        BY <2>8, CreateBlock
    <2>9. CASE create_block_fails(t)
        BY <2>9, CreateFails
    <2>10. CASE publish_block(t)
        BY <2>10, PublishBlock
    <2>11. CASE free_insert(t)
        <3>1. /\ pc[t] = "free_insert" /\ free_list_' = free_list_ \cup {local[t].ptr}
              /\ Return(t) /\ UNCHANGED <<memory, block, blocks_, supa_events_, work, failed>>
            BY <2>11 DEF free_insert, At, ghost
        <3>2. /\ pc' \in [Threads -> Phases] /\ local' \in [Threads -> Local] /\ Others(t)
              /\ pc'[t] = "idle"
            BY <3>1, Returns DEF Inv
        <3> QED BY <3>1, <3>2, Inserts DEF Quiet
    <2>12. CASE record_streams(t)
        BY <2>12, RecordStreams
    <2>13. CASE record_streams_fails(t)
        BY <2>13, RecordFails
    <2>14. CASE enqueue_events(t)
        BY <2>14, EnqueueEvents
    <2>15. CASE release_blocks(t)
        BY <2>15, ReleaseBlocks
    <2> QED
        BY <1>1, <2>1, <2>2, <2>3, <2>4, <2>5, <2>6, <2>7, <2>8, <2>9, <2>10, <2>11,
           <2>12, <2>13, <2>14, <2>15 DEF Step
<1>2. ASSUME NEW t \in Threads, Call(t) PROVE Inv'
    BY <1>2, CallStep, FreeStep, RecordEvent DEF Call
<1>3. ASSUME NEW r \in HostRegister, setAllocatorSettings(r) PROVE Inv'
    BY <1>3, Stutters DEF setAllocatorSettings, ghost, lists
<1>4. ASSUME NEW p \in Ptrs, NEW s \in Streams, launch(p, s) \/ retire(p, s) PROVE Inv'
    BY <1>4, Launch, Retire
<1>5. CASE UNCHANGED vars
    BY <1>5, Stutters DEF vars, ghost, lists
<1> QED
    BY <1>1, <1>2, <1>3, <1>4, <1>5 DEF Next

\* A free block waits for no event, so its event_count covers its work.
LEMMA InvQuiescent == HostAssumption /\ Inv => HostMemoryQuiescent
<1> SUFFICES ASSUME HostAssumption, Inv, NEW p \in free_list_
             PROVE  /\ work[p] = {} /\ memory[p] # "none"
                    /\ ~block[p].allocated /\ block[p].event_count = 0
                    /\ block[p].streams = {}
    BY DEF HostMemoryQuiescent
<1>1. p \in Ptrs /\ Counted(p) /\ Listed(p)
    BY DEF Inv, Types
<1>2. /\ ~block[p].allocated /\ block[p].event_count = 0 /\ memory[p] # "none"
      /\ block[p].streams = {}
    BY <1>1 DEF Listed, Free, Counted, NoMemory
<1>3. Pending(p) = {} /\ Cardinality(Pending(p)) = 0
    BY <1>1, <1>2, PendingFinite, FS_EmptySet
<1>4. work[p] = {}
    BY <1>1, <1>2, <1>3 DEF Counted
<1> QED
    BY <1>2, <1>4

\* Memory in the free list of SUPAHostAllocator is used by nobody, whatever the
\* threads do between the mutexes of free, process_events and empty_cache, for
\* every number of threads, streams and addresses, device errors included.
THEOREM HostQuiescenceCorrect == HostAssumption => (Spec => []HostMemoryQuiescent)
<1> SUFFICES ASSUME HostAssumption PROVE Spec => []HostMemoryQuiescent
    OBVIOUS
<1>1. Init => Inv
    BY InvInit
<1>2. Inv /\ [Next]_vars => Inv'
    BY InvNext
<1>3. Inv => HostMemoryQuiescent
    BY InvQuiescent
<1> QED
    BY <1>1, <1>2, <1>3, PTL DEF Spec

-----------------------------------------------------------------------------
(* No freed block is forgotten, as long as the setting that says how memory *)
(* is obtained stays what it is: release_blocks then gives every block of   *)
(* the free list back, and none is left out of every list.                  *)

OneSetting == \E r \in HostRegister : HostRegister = {r}

Found(p) == p \in blocks_ /\ Free(p) => p \in free_list_ \/ \E t \in Threads : Carries(t, p)

Kind == IF host_register THEN "registered" ELSE "host_alloc"

Steady == host_register \in HostRegister /\ \A p \in Ptrs : memory[p] \in NoMemory \cup {Kind}

FInv == Inv /\ Steady /\ \A p \in Ptrs : Found(p)

\* A block stays where it was found, unless it is no longer free or listed.
LEMMA FoundKept ==
    ASSUME NEW p \in Ptrs, Found(p),
           p \in blocks_' /\ Free(p)' => p \in blocks_ /\ Free(p),
           p \in free_list_ => p \in free_list_',
           \A u \in Threads : Carries(u, p) => Carries(u, p)' \/ p \in free_list_'
    PROVE  Found(p)'
    BY DEF Found

\* Steps that leave the blocks and their lists alone
LEMMA FoundStays ==
    ASSUME \A p \in Ptrs : Found(p), UNCHANGED <<block, blocks_, free_list_>>,
           \A u \in Threads : pc[u] \in {"insert", "free_insert"} =>
               pc'[u] = pc[u] /\ local'[u] = local[u]
    PROVE  \A p \in Ptrs : Found(p)'
<1>1. \A p \in Ptrs : \A u \in Threads : Carries(u, p) => Carries(u, p)'
    BY DEF Carries
<1>2. \A p \in Ptrs : Free(p)' <=> Free(p)
    BY DEF Free
<1> QED
    BY <1>1, <1>2, FoundKept

\* Memory is obtained and given back in one way.
LEMMA SteadyNext ==
    ASSUME HostAssumption, OneSetting, Inv, Steady, [Next]_vars
    PROVE  Steady'
<1>1. PICK r : HostRegister = {r} /\ host_register = r
    BY DEF OneSetting, Steady
<1>2. host_register' = r
    <2>1. CASE \E x \in HostRegister : setAllocatorSettings(x)
        BY <1>1, <2>1 DEF setAllocatorSettings
    <2>2. CASE \E t \in Threads : Step(t)
        BY <1>1, <2>2 DEF Step, pop_event, query_event, query_event_fails, complete_event,
            insert_available, take_free_block, no_free_block, create_block,
            create_block_fails, publish_block, free_insert, record_streams, record_streams_fails,
            enqueue_events, empty_events, release_blocks
    <2>3. CASE \E t \in Threads : Call(t)
        BY <1>1, <2>3 DEF Call, allocate, empty_cache, free, record_event
    <2>4. CASE \E p \in Ptrs, s \in Streams : launch(p, s) \/ retire(p, s)
        BY <1>1, <2>4 DEF launch, retire
    <2>5. CASE UNCHANGED vars
        BY <1>1, <2>5 DEF vars
    <2> QED BY <2>1, <2>2, <2>3, <2>4, <2>5 DEF Next
<1>3. Kind' = Kind
    BY <1>1, <1>2 DEF Kind
<1>4. \A p \in Ptrs : memory'[p] \in NoMemory \cup {Kind}
    <2> DEFINE K == Kind
    <2>1. \A p \in Ptrs : memory[p] \in NoMemory \cup {K}
        BY DEF Steady
    <2>2. memory \in [Ptrs -> {"none", "registered", "host_alloc", "lost"}]
        BY DEF Inv, Types
    <2>3. ASSUME NEW t \in Threads, create_block(t) \/ create_block_fails(t)
          PROVE  \A p \in Ptrs : memory'[p] \in NoMemory \cup {K}
        BY <2>1, <2>2, <2>3 DEF create_block, create_block_fails, Kind, NoMemory
    <2> HIDE DEF K
    <2>4. ASSUME NEW t \in Threads, release_blocks(t)
          PROVE  \A p \in Ptrs : memory'[p] \in NoMemory \cup {K}
        BY <2>1, <2>2, <2>4 DEF release_blocks, NoMemory
    <2>5. ASSUME NEW t \in Threads, Step(t)
          PROVE  UNCHANGED memory \/ create_block(t) \/ create_block_fails(t) \/ release_blocks(t)
        BY <2>5 DEF Step, pop_event, query_event, query_event_fails, complete_event,
            insert_available, take_free_block, no_free_block, publish_block, free_insert,
            record_streams, record_streams_fails, enqueue_events, empty_events
    <2>6. ASSUME NEW t \in Threads, Call(t) PROVE UNCHANGED memory
        BY <2>6 DEF Call, allocate, empty_cache, free, record_event
    <2>7. ASSUME NEW x, setAllocatorSettings(x) PROVE UNCHANGED memory
        BY <2>7 DEF setAllocatorSettings
    <2>8. ASSUME NEW p, NEW s, launch(p, s) \/ retire(p, s) PROVE UNCHANGED memory
        BY <2>8 DEF launch, retire
    <2>9. CASE UNCHANGED vars
        BY <2>1, <2>9 DEF vars, K
    <2> QED BY <2>1, <2>3, <2>4, <2>5, <2>6, <2>7, <2>8, <2>9 DEF Next, K
<1> QED
    BY <1>1, <1>2, <1>3, <1>4 DEF Steady

\* What a step of t does to who carries a block
LEMMA CarriesOthers ==
    ASSUME NEW t \in Threads, Others(t)
    PROVE  \A u \in Threads : \A p : u # t => (Carries(u, p)' <=> Carries(u, p))
    BY DEF Others, Carries

\* complete_event: the block of the last event is carried to the free list.
LEMMA FoundComplete ==
    ASSUME FInv, NEW t \in Threads, complete_event(t)
    PROVE  \A p \in Ptrs : Found(p)'
<1>1. Types
    BY DEF FInv, Inv
<1>2. PICK p \in Ptrs : p = local[t].ptr
    BY <1>1 DEF complete_event, At, Types, PtrPhases, EventPhases
<1> DEFINE n == block[p].event_count
<1>3. /\ pc[t] = "complete" /\ n \in Int
      /\ block' = [block EXCEPT ![p].event_count = n - 1]
      /\ IF n = 1 THEN Goto(t, "insert") /\ UNCHANGED local
                  ELSE Goto(t, "process") /\ Drop(t)
      /\ UNCHANGED <<blocks_, free_list_>>
    BY <1>1, <1>2, BlockType DEF complete_event, At, Types
<1>4. block'[p].event_count = n - 1 /\ \A q \in Ptrs : q # p => block'[q] = block[q]
    BY <1>1, <1>3 DEF Types, Block
<1> HIDE DEF n
<1>5. Others(t) /\ (n = 1 => Carries(t, p)') /\ \A q : ~Carries(t, q)
    <2>1. CASE n = 1
        <3>1. Others(t) /\ pc'[t] = "insert" /\ local'[t] = local[t]
            BY <1>1, <1>3, <2>1, Goes DEF Phases
        <3> QED BY <1>2, <1>3, <3>1 DEF Carries
    <2>2. CASE n # 1
        <3>1. Others(t)
            BY <1>1, <1>3, <2>2, Drops DEF Phases
        <3> QED BY <1>3, <2>2, <3>1 DEF Carries
    <2> QED BY <2>1, <2>2
<1>6. \A u \in Threads : \A q : Carries(u, q) => Carries(u, q)'
    BY <1>5, CarriesOthers
<1>7. \A q \in Ptrs : q # p => (Free(q)' <=> Free(q))
    BY <1>4 DEF Free
<1>8. \A q \in Ptrs : q # p => Found(q)'
    BY <1>3, <1>6, <1>7, FoundKept DEF FInv
<1>9. Free(p)' => n = 1
    BY <1>3, <1>4 DEF Free
<1>10. Found(p)'
    BY <1>5, <1>9 DEF Found
<1> QED
    BY <1>8, <1>10

\* A block becomes allocated: taken from the free list, or made.
LEMMA FoundAllocated ==
    ASSUME FInv, NEW t \in Threads, take_free_block(t) \/ create_block(t)
    PROVE  \A p \in Ptrs : Found(p)'
<1>1. Types
    BY DEF FInv, Inv
<1>2. PICK p \in Ptrs : /\ block'[p].allocated = TRUE /\ blocks_' = blocks_
                        /\ \A q \in Ptrs : q # p => block'[q] = block[q]
                        /\ \A q \in Ptrs : q # p => (q \in free_list_ <=> q \in free_list_')
    <2>1. CASE take_free_block(t)
        <3>1. PICK p \in free_list_ :
                  block' = [block EXCEPT ![p].allocated = TRUE] /\ free_list_' = free_list_ \ {p}
            BY <2>1 DEF take_free_block, Fitting
        <3>2. p \in Ptrs /\ block[p] \in Block
            BY <1>1 DEF Types
        <3>3. [block[p] EXCEPT !.allocated = TRUE].allocated = TRUE
            BY <3>2 DEF Block
        <3>4. /\ block'[p] = [block[p] EXCEPT !.allocated = TRUE]
              /\ \A q \in Ptrs : q # p => block'[q] = block[q]
            BY <1>1, <3>1, <3>2 DEF Types
        <3>5. blocks_' = blocks_
            BY <2>1 DEF take_free_block
        <3> QED BY <3>1, <3>2, <3>3, <3>4, <3>5
    <2>2. CASE create_block(t)
        <3> DEFINE n == PowerOf2Ceil(local[t].size)
        <3>1. PICK p \in Ptrs : block' = [block EXCEPT ![p] = NewBlock(n)]
            BY <2>2 DEF create_block
        <3>2. n \in Sizes0
            BY <1>1 DEF Types, Local, Sizes0
        <3> HIDE DEF n
        <3>3. NewBlock(n).allocated = TRUE
            BY <3>2, NewBlockType
        <3>4. block'[p].allocated = TRUE /\ \A q \in Ptrs : q # p => block'[q] = block[q]
            BY <1>1, <3>1, <3>3 DEF Types
        <3>5. UNCHANGED <<blocks_, free_list_>>
            BY <2>2 DEF create_block, lists
        <3> QED BY <3>4, <3>5
    <2> QED BY <2>1, <2>2
<1>3. pc[t] \in {"search", "create"} /\ Others(t)
    <2>1. CASE take_free_block(t)
        BY <1>1, <2>1, Returns DEF take_free_block, At
    <2>2. CASE create_block(t)
        BY <1>1, <2>2 DEF create_block, At, Goto, Types, Others
    <2> QED BY <2>1, <2>2
<1>4. \A u \in Threads : \A q : Carries(u, q) => Carries(u, q)'
    BY <1>3, CarriesOthers DEF Carries
<1>5. \A q \in Ptrs : q # p => (Free(q)' <=> Free(q))
    BY <1>2 DEF Free
<1>6. \A q \in Ptrs : q # p => Found(q)'
    BY <1>2, <1>4, <1>5, FoundKept DEF FInv
<1>7. Found(p)'
    BY <1>2 DEF Found, Free
<1> QED
    BY <1>6, <1>7

\* publish_block: the block it lists is allocated.
LEMMA FoundPublished ==
    ASSUME FInv, NEW t \in Threads, publish_block(t)
    PROVE  \A p \in Ptrs : Found(p)'
<1>1. Types
    BY DEF FInv, Inv
<1>2. PICK p \in Ptrs : p = local[t].ptr /\ Makes(t, p)
    BY <1>1 DEF publish_block, At, Types, PtrPhases, Makes
<1>3. /\ pc[t] = "publish" /\ Return(t) /\ blocks_' = blocks_ \cup {p}
      /\ UNCHANGED <<block, free_list_>>
    BY <1>2 DEF publish_block, At
<1>4. Others(t)
    BY <1>1, <1>3, Returns
<1>5. \A u \in Threads : \A q : Carries(u, q) => Carries(u, q)'
    BY <1>3, <1>4, CarriesOthers DEF Carries
<1>6. \A q \in Ptrs : Free(q)' <=> Free(q)
    BY <1>3 DEF Free
<1>7. ~Free(p)
    BY <1>2 DEF FInv, Inv, Listed, Free
<1> QED
    BY <1>3, <1>5, <1>6, <1>7, FoundKept DEF FInv

\* free: a block without events is carried to the free list.
LEMMA FoundFreed ==
    ASSUME HostAssumption, FInv, NEW t \in Threads, NEW p \in Ptrs, free(t, p)
    PROVE  \A q \in Ptrs : Found(q)'
<1> DEFINE S == block[p].streams
<1>1. Types /\ Counted(p)
    BY DEF FInv, Inv
<1>2. /\ pc[t] = "idle" /\ block[p].allocated
      /\ block' = [block EXCEPT ![p].allocated = FALSE, ![p].streams = {},
                      ![p].event_count = @ + Cardinality(S)]
      /\ local' = [local EXCEPT ![t].ptr = p, ![t].streams = S]
      /\ Goto(t, IF S = {} THEN "free_insert" ELSE "record")
      /\ UNCHANGED <<blocks_, free_list_>>
    BY DEF free, At, Held, lists
<1>3. S \in SUBSET Streams /\ block[p].event_count = 0 /\ block[p] \in Block
    BY <1>1, <1>2, BlockType DEF Types, Counted
<1>4. Cardinality(S) \in Nat /\ (Cardinality(S) = 0 => S = {})
    BY <1>3, FS_Subset, FS_CardinalityType, FS_EmptySet DEF HostAssumption
<1>5. /\ block'[p].event_count = Cardinality(S)
      /\ \A q \in Ptrs : q # p => block'[q] = block[q]
    BY <1>1, <1>2, <1>3, <1>4 DEF Types, Block
<1>6. Others(t) /\ local'[t].ptr = p /\ (S = {} => pc'[t] = "free_insert")
    BY <1>1, <1>2 DEF Types, Local, Goto, Others
<1>7. \A u \in Threads : \A q : Carries(u, q) => Carries(u, q)'
    BY <1>2, <1>6, CarriesOthers DEF Carries
<1>8. \A q \in Ptrs : q # p => (Free(q)' <=> Free(q))
    BY <1>5 DEF Free
<1>9. \A q \in Ptrs : q # p => Found(q)'
    BY <1>2, <1>7, <1>8, FoundKept DEF FInv
<1>10. Free(p)' => S = {}
    BY <1>4, <1>5 DEF Free
<1>11. S = {} => Carries(t, p)'
    BY <1>6 DEF Carries
<1>12. Found(p)'
    BY <1>10, <1>11 DEF Found
<1> QED
    BY <1>9, <1>12

\* record_event: the block is allocated and stays so.
LEMMA FoundRecorded ==
    ASSUME FInv, NEW t \in Threads, NEW p \in Ptrs, NEW s \in Streams, record_event(t, p, s)
    PROVE  \A q \in Ptrs : Found(q)'
<1>1. Types
    BY DEF FInv, Inv
<1>2. /\ block' = [block EXCEPT ![p].streams = @ \cup {s}]
      /\ UNCHANGED <<blocks_, free_list_, pc, local>>
    BY DEF record_event, lists
<1>3. \A q \in Ptrs : /\ block'[q].allocated = block[q].allocated
                      /\ block'[q].event_count = block[q].event_count
    <2>1. block[p] \in Block
        BY <1>1 DEF Types
    <2>2. /\ [block[p] EXCEPT !.streams = @ \cup {s}].allocated = block[p].allocated
          /\ [block[p] EXCEPT !.streams = @ \cup {s}].event_count = block[p].event_count
        BY <2>1 DEF Block
    <2>3. /\ block'[p] = [block[p] EXCEPT !.streams = @ \cup {s}]
          /\ \A q \in Ptrs : q # p => block'[q] = block[q]
        BY <1>1, <1>2 DEF Types
    <2> QED BY <2>2, <2>3
<1>4. \A q \in Ptrs : Free(q)' <=> Free(q)
    BY <1>3 DEF Free
<1>5. \A u \in Threads : \A q : Carries(u, q) => Carries(u, q)'
    BY <1>2 DEF Carries
<1> QED
    BY <1>2, <1>4, <1>5, FoundKept DEF FInv

\* release_blocks: every block of the free list can be given back, so all go.
LEMMA FoundReleased ==
    ASSUME FInv, NEW t \in Threads, release_blocks(t)
    PROVE  \A p \in Ptrs : Found(p)'
<1>1. Types
    BY DEF FInv, Inv
<1>2. \A p \in free_list_ : Releasable(p)
    <2>1. \A p \in free_list_ : p \in Ptrs /\ p \in blocks_ /\ memory[p] \notin NoMemory
        BY <1>1 DEF FInv, Inv, Listed, Types
    <2> QED BY <2>1 DEF FInv, Steady, Kind, Releasable
<1> DEFINE bad  == {p \in free_list_ : ~Releasable(p)}
           gone == {p \in free_list_ : \A q \in bad \ {p} : Before(p, q)}
<1>3. /\ pc[t] = "release" /\ Return(t) /\ blocks_' = blocks_ \ gone /\ UNCHANGED block
    BY DEF release_blocks, At
<1>4. bad = {}
    BY <1>2
<1> HIDE DEF bad
<1>5. gone = free_list_
    BY <1>4
<1> HIDE DEF gone
<1>6. Others(t)
    BY <1>1, <1>3, Returns
<1>7. \A u \in Threads : \A q : Carries(u, q) => Carries(u, q)'
    BY <1>3, <1>6, CarriesOthers DEF Carries
<1>8. \A p \in Ptrs : Free(p)' <=> Free(p)
    BY <1>3 DEF Free
<1> QED
    BY <1>3, <1>5, <1>7, <1>8 DEF FInv, Found

\* insert_available, free_insert: the carried block is now in the free list.
LEMMA FoundInserted ==
    ASSUME FInv, NEW t \in Threads, insert_available(t) \/ free_insert(t)
    PROVE  \A p \in Ptrs : Found(p)'
<1>1. Types
    BY DEF FInv, Inv
<1>2. /\ free_list_' = free_list_ \cup {local[t].ptr} /\ UNCHANGED <<block, blocks_>>
      /\ (Goto(t, "process") /\ Drop(t)) \/ Return(t)
    BY DEF insert_available, free_insert
<1>3. Others(t)
    BY <1>1, <1>2, Drops, Returns DEF Phases
<1>4. \A u \in Threads : \A q : Carries(u, q) => Carries(u, q)' \/ q \in free_list_'
    BY <1>2, <1>3, CarriesOthers DEF Carries
<1>5. \A p \in Ptrs : Free(p)' <=> Free(p)
    BY <1>2 DEF Free
<1> QED
    BY <1>2, <1>4, <1>5, FoundKept DEF FInv

LEMMA FInvInit == HostAssumption /\ Init => FInv
<1> SUFFICES ASSUME HostAssumption, Init PROVE FInv
    OBVIOUS
<1>1. Inv
    BY InvInit
<1>2. Steady
    BY DEF Init, Steady, NoMemory
<1>3. \A p \in Ptrs : Found(p)
    BY DEF Init, Found
<1> QED
    BY <1>1, <1>2, <1>3 DEF FInv

LEMMA FInvNext == HostAssumption /\ OneSetting /\ FInv /\ [Next]_vars => FInv'
<1> SUFFICES ASSUME HostAssumption, OneSetting, FInv, [Next]_vars PROVE FInv'
    OBVIOUS
<1>1. Types /\ \A p \in Ptrs : Found(p)
    BY DEF FInv, Inv
<1>2. Inv' /\ Steady'
    BY InvNext, SteadyNext DEF FInv
<1>3. \A p \in Ptrs : Found(p)'
    <2>1. ASSUME NEW t \in Threads, Step(t) PROVE \A p \in Ptrs : Found(p)'
        <3>1. CASE complete_event(t)
            BY <3>1, FoundComplete
        <3>2. CASE insert_available(t) \/ free_insert(t)
            BY <3>2, FoundInserted
        <3>3. CASE take_free_block(t) \/ create_block(t)
            BY <3>3, FoundAllocated
        <3>4. CASE publish_block(t)
            BY <3>4, FoundPublished
        <3>5. CASE release_blocks(t)
            BY <3>5, FoundReleased
        <3>6. CASE \/ pop_event(t) \/ query_event(t) \/ query_event_fails(t)
                   \/ no_free_block(t) \/ create_block_fails(t) \/ record_streams(t)
                   \/ record_streams_fails(t)
                   \/ enqueue_events(t) \/ empty_events(t)
            <4>1. pc[t] \notin {"insert", "free_insert"} /\ UNCHANGED <<block, blocks_, free_list_>>
                BY <3>6 DEF pop_event, query_event, query_event_fails, no_free_block,
                    create_block_fails, record_streams, record_streams_fails, enqueue_events,
                    empty_events, At, lists
            <4>2. \A u \in Threads : u # t => pc'[u] = pc[u]
                BY <1>1, <3>6 DEF pop_event, query_event, query_event_fails, no_free_block,
                    create_block_fails, record_streams, record_streams_fails, enqueue_events, empty_events,
                    Return, Goto, Types
            <4>3. \A u \in Threads : u # t => local'[u] = local[u]
                BY <1>1, <3>6 DEF pop_event, query_event, query_event_fails, no_free_block,
                    create_block_fails, record_streams, record_streams_fails, enqueue_events, empty_events,
                    Return, Drop, Types
            <4> QED BY <1>1, <4>1, <4>2, <4>3, FoundStays
        <3> QED BY <2>1, <3>1, <3>2, <3>3, <3>4, <3>5, <3>6 DEF Step
    <2>2. ASSUME NEW t \in Threads, Call(t) PROVE \A p \in Ptrs : Found(p)'
        <3>1. CASE \E p \in Ptrs : free(t, p)
            BY <3>1, FoundFreed
        <3>2. CASE \E p \in Ptrs, s \in Streams : record_event(t, p, s)
            BY <3>2, FoundRecorded
        <3>3. CASE (\E n \in Sizes : allocate(t, n)) \/ empty_cache(t)
            <4>1. pc[t] = "idle" /\ UNCHANGED <<block, blocks_, free_list_>>
                BY <3>3 DEF allocate, empty_cache, At, lists
            <4>2. \A u \in Threads : u # t => pc'[u] = pc[u] /\ local'[u] = local[u]
                BY <1>1, <3>3 DEF allocate, empty_cache, Goto, Types
            <4> QED BY <1>1, <4>1, <4>2, FoundStays
        <3> QED BY <2>2, <3>1, <3>2, <3>3 DEF Call
    <2>3. CASE \/ \E r \in HostRegister : setAllocatorSettings(r)
               \/ \E p \in Ptrs, s \in Streams : launch(p, s) \/ retire(p, s)
               \/ UNCHANGED vars
        <3>1. UNCHANGED <<block, blocks_, free_list_, pc, local>>
            BY <2>3 DEF setAllocatorSettings, launch, retire, vars, lists
        <3> QED BY <1>1, <3>1, FoundStays
    <2> QED BY <2>1, <2>2, <2>3 DEF Next
<1> QED
    BY <1>2, <1>3 DEF FInv

\* A block is counted in exactly one place.
LEMMA FInvNotForgotten == HostAssumption /\ FInv => NoBlockForgotten
<1> SUFFICES ASSUME HostAssumption, FInv, NEW p \in blocks_
             PROVE  LET carriers == {t \in Threads : pc[t] \in {"insert", "free_insert"}
                                                     /\ local[t].ptr = p}
                    IN  Cardinality(carriers) + (IF p \in free_list_ THEN 1 ELSE 0)
                           + (IF block[p].event_count > 0 THEN 1 ELSE 0)
                        = IF block[p].allocated THEN 0 ELSE 1
    BY DEF NoBlockForgotten
<1> DEFINE C == {t \in Threads : pc[t] \in {"insert", "free_insert"} /\ local[t].ptr = p}
<1>1. p \in Ptrs /\ Counted(p) /\ Listed(p) /\ Found(p) /\ block[p].event_count \in Int
    BY BlockType DEF FInv, Inv, Types
<1>2. \A t \in Threads : t \in C <=> Carries(t, p)
    BY DEF Carries
<1>3. C \subseteq Threads
    OBVIOUS
<1> HIDE DEF C
<1>4. CASE ~Free(p)
    <2>1. C = {} /\ p \notin free_list_
        BY <1>1, <1>2, <1>3, <1>4 DEF Listed
    <2>2. Cardinality(C) = 0
        BY <2>1, FS_EmptySet
    <2>3. block[p].allocated => block[p].event_count = 0
        BY <1>1 DEF Counted
    <2>4. ~block[p].allocated => block[p].event_count # 0
        BY <1>4 DEF Free
    <2>5. ~block[p].allocated => block[p].event_count > 0
        <3>1. Cardinality(Pending(p)) \in Nat /\ Cardinality(Pending(p)) <= block[p].event_count
            BY <1>1, PendingFinite DEF Counted
        <3> QED BY <1>1, <2>4, <3>1
    <2> QED BY <1>1, <2>1, <2>2, <2>3, <2>5 DEF C
<1>5. CASE Free(p) /\ p \in free_list_
    <2>1. C = {}
        BY <1>1, <1>2, <1>3, <1>5 DEF Listed
    <2>2. Cardinality(C) = 0
        BY <2>1, FS_EmptySet
    <2> QED BY <1>5, <2>2 DEF C, Free
<1>6. CASE Free(p) /\ p \notin free_list_
    <2>1. PICK t \in Threads : Carries(t, p)
        BY <1>1, <1>6 DEF Found
    <2>2. C = {t}
        BY <1>1, <1>2, <1>3, <2>1 DEF Listed
    <2>3. Cardinality(C) = 1
        BY <2>2, FS_Singleton
    <2> QED BY <1>6, <2>3 DEF C, Free
<1> QED
    BY <1>4, <1>5, <1>6

\* No freed block of SUPAHostAllocator is forgotten: it is in the free list, or
\* its events will bring it there, or one thread is about to put it there, for
\* every number of threads, streams and addresses, while
\* pinned_use_supa_host_register keeps its value.
THEOREM HostNotForgottenCorrect ==
    HostAssumption /\ OneSetting => (Spec => []NoBlockForgotten)
<1> SUFFICES ASSUME HostAssumption, OneSetting PROVE Spec => []NoBlockForgotten
    OBVIOUS
<1>1. Init => FInv
    BY FInvInit
<1>2. FInv /\ [Next]_vars => FInv'
    BY FInvNext
<1>3. FInv => NoBlockForgotten
    BY FInvNotForgotten
<1> QED
    BY <1>1, <1>2, <1>3, PTL DEF Spec
-----------------------------------------------------------------------------
(* event_count is exact as long as no device error has lost an event.      *)

\* Sets in a one to one correspondence have as many elements.
LEMMA SameCount ==
    ASSUME NEW S, NEW T, IsFiniteSet(T), NEW f \in [S -> T],
           \A x, y \in S : f[x] = f[y] => x = y, \A y \in T : \E x \in S : f[x] = y
    PROVE  Cardinality(S) = Cardinality(T)
<1>1. f \in Injection(S, T) /\ f \in Surjection(S, T)
    BY DEF Injection, Surjection, IsInjective
<1> QED
    BY <1>1, FS_Injection

\* The events of a block in the deque, with a thread that queries them, and
\* still to be queued by free are of different streams, and are all it waits for.
LEMMA InvCounted == HostAssumption /\ Inv => EventsCounted
<1> SUFFICES ASSUME HostAssumption, Inv, ~failed, NEW p \in blocks_
             PROVE  block[p].event_count = QueuedFor(p) + InHand(p) + Unqueued(p)
    BY DEF EventsCounted
<1>1. p \in Ptrs /\ Types /\ Hands /\ Counted(p)
    BY DEF Inv, Types
<1> DEFINE Q == {i \in DOMAIN supa_events_ : supa_events_[i].ptr = p}
           H == {t \in Threads : pc[t] \in {"query", "complete"} /\ local[t].ptr = p}
           U == {e \in BeingFreed(p) \X Streams : e[2] \in local[e[1]].streams}
           QS == {s \in Streams : Waits(p, s)}
           HS == {s \in Streams : \E t \in H : s \in local[t].streams}
           US == {s \in Streams : \E t \in BeingFreed(p) : s \in local[t].streams}
<1>2. IsFiniteSet(QS) /\ IsFiniteSet(HS) /\ IsFiniteSet(US)
    BY FS_Subset DEF HostAssumption
<1>3. Cardinality(Q) = Cardinality(QS)
    <2> DEFINE f == [i \in Q |-> supa_events_[i].stream]
    <2>1. \A i \in Q : supa_events_[i] \in Event /\ supa_events_[i] = Ev(p, f[i]) /\ f[i] \in Streams
        <3>1. SUFFICES ASSUME NEW i \in Q
                       PROVE  /\ supa_events_[i] \in Event /\ supa_events_[i] = Ev(p, f[i])
                              /\ f[i] \in Streams
            OBVIOUS
        <3>2. i \in DOMAIN supa_events_ /\ supa_events_[i].ptr = p /\ f[i] = supa_events_[i].stream
            OBVIOUS
        <3>3. supa_events_[i] \in Event
            BY <1>1, <3>2 DEF Types
        <3> HIDE DEF f, Q
        <3>4. supa_events_[i] = Ev(p, supa_events_[i].stream) /\ supa_events_[i].stream \in Streams
            BY <3>2, <3>3 DEF Event, Ev
        <3> QED BY <3>2, <3>3, <3>4
    <2>2. f \in [Q -> QS]
        BY <2>1 DEF Waits, Entries
    <2>3. \A i, j \in Q : f[i] = f[j] => i = j
        <3>1. \A i, j \in Q : f[i] = f[j] => supa_events_[i] = supa_events_[j]
            BY <2>1
        <3> QED BY <1>1, <3>1 DEF Hands, NoRepeats
    <2>4. \A s \in QS : \E i \in Q : f[i] = s
        <3>1. SUFFICES ASSUME NEW s \in QS PROVE \E i \in Q : f[i] = s
            OBVIOUS
        <3>2. PICK i \in DOMAIN supa_events_ : supa_events_[i] = Ev(p, s)
            BY DEF Waits, Entries
        <3> QED BY <3>2 DEF Ev
    <2> HIDE DEF f, Q, QS
    <2> QED BY <1>2, <2>2, <2>3, <2>4, SameCount
<1>4. Cardinality(H) = Cardinality(HS)
    <2> DEFINE f == [t \in H |-> CHOOSE s \in Streams : local[t].streams = {s}]
    <2>1. \A t \in H : local[t].streams = {f[t]} /\ f[t] \in Streams
        BY <1>1 DEF Types
    <2>2. f \in [H -> HS]
        BY <2>1
    <2>3. \A t \in H : Has(t, p, f[t])
        BY <2>1 DEF Has, EventPhases
    <2>4. \A t, u \in H : f[t] = f[u] => t = u
        <3>1. SUFFICES ASSUME NEW t \in H, NEW u \in H, f[t] = f[u] PROVE t = u
            OBVIOUS
        <3>2. Has(t, p, f[t]) /\ Has(u, p, f[t]) /\ t \in Threads /\ u \in Threads /\ f[t] \in Streams
            BY <2>1, <2>3, <3>1
        <3> HIDE DEF f, H
        <3> QED BY <1>1, <3>2 DEF Hands
    <2>5. \A s \in HS : \E t \in H : f[t] = s
        BY <2>1
    <2> HIDE DEF f, H, HS
    <2> QED BY <1>2, <2>2, <2>4, <2>5, SameCount
<1>5. Cardinality(U) = Cardinality(US)
    <2> DEFINE f == [e \in U |-> e[2]]
    <2>1. f \in [U -> US]
        OBVIOUS
    <2>2. \A e \in U : e = <<e[1], e[2]>> /\ e[1] \in Threads /\ e[2] \in Streams /\ Has(e[1], p, e[2])
        BY DEF Has, BeingFreed, EventPhases
    <2>3. \A e, g \in U : f[e] = f[g] => e = g
        <3>1. SUFFICES ASSUME NEW e \in U, NEW g \in U, e[2] = g[2] PROVE e = g
            OBVIOUS
        <3>2. e[1] = g[1]
            BY <1>1, <2>2, <3>1 DEF Hands
        <3> QED BY <2>2, <3>1, <3>2
    <2>4. \A s \in US : \E e \in U : f[e] = s
        <3>1. SUFFICES ASSUME NEW s \in US PROVE \E e \in U : f[e] = s
            OBVIOUS
        <3>2. PICK t \in BeingFreed(p) : s \in local[t].streams
            OBVIOUS
        <3>3. <<t, s>> \in U /\ f[<<t, s>>] = s
            BY <3>2
        <3> QED BY <3>3
    <2> HIDE DEF f, U, US
    <2> QED BY <1>2, <2>1, <2>3, <2>4, SameCount
<1>6. Pending(p) = (QS \cup HS) \cup US
    <2>1. \A s \in Streams : (\E t \in Threads : Has(t, p, s)) <=> s \in HS \/ s \in US
        BY DEF Has, EventPhases, BeingFreed
    <2> QED BY <2>1 DEF Pending
<1>7. QS \cap HS = {} /\ (QS \cup HS) \cap US = {}
    <2>1. \A s \in Streams : s \in HS \/ s \in US => ~Waits(p, s)
        <3>1. \A s \in Streams : s \in HS \/ s \in US => \E t \in Threads : Has(t, p, s)
            BY DEF Has, EventPhases, BeingFreed
        <3> QED BY <1>1, <3>1 DEF Hands
    <2>2. ASSUME NEW s \in HS, s \in US PROVE FALSE
        <3>1. PICK t \in H : s \in local[t].streams
            OBVIOUS
        <3>2. PICK u \in BeingFreed(p) : s \in local[u].streams
            BY <2>2
        <3>3. t \in Threads /\ u \in Threads /\ Has(t, p, s) /\ Has(u, p, s) /\ pc[t] # pc[u] /\ s \in Streams
            BY <3>1, <3>2 DEF Has, EventPhases, BeingFreed
        <3> HIDE DEF H, HS, US
        <3> QED BY <1>1, <3>3 DEF Hands
    <2> QED BY <2>1, <2>2
<1>8. Cardinality(Pending(p)) = Cardinality(QS) + Cardinality(HS) + Cardinality(US)
    <2> HIDE DEF QS, HS, US
    <2>1. /\ IsFiniteSet(QS \cup HS)
          /\ Cardinality(QS \cup HS) = Cardinality(QS) + Cardinality(HS) - Cardinality({})
        BY <1>2, <1>7, FS_Union
    <2>2. Cardinality(Pending(p)) = Cardinality(QS \cup HS) + Cardinality(US) - Cardinality({})
        BY <1>2, <1>6, <1>7, <2>1, FS_Union
    <2>3. /\ Cardinality({}) = 0 /\ Cardinality(QS) \in Nat /\ Cardinality(HS) \in Nat
          /\ Cardinality(US) \in Nat
        BY <1>2, FS_EmptySet, FS_CardinalityType
    <2> QED BY <2>1, <2>2, <2>3
<1>9. QueuedFor(p) = Cardinality(Q) /\ InHand(p) = Cardinality(H) /\ Unqueued(p) = Cardinality(U)
    BY DEF QueuedFor, InHand, Unqueued
<1> HIDE DEF Q, H, U, QS, HS, US
<1> QED
    BY <1>1, <1>3, <1>4, <1>5, <1>8, <1>9 DEF Counted

\* event_count of a block is the number of its events, in the deque of
\* SUPAHostAllocator, in the hands of a thread in process_events, or still to
\* be queued by free, for every number of threads, streams and addresses,
\* until a device error loses one.
THEOREM EventsCountedCorrect == HostAssumption => (Spec => []EventsCounted)
<1> SUFFICES ASSUME HostAssumption PROVE Spec => []EventsCounted
    OBVIOUS
<1>1. Init => Inv
    BY InvInit
<1>2. Inv /\ [Next]_vars => Inv'
    BY InvNext
<1>3. Inv => EventsCounted
    BY InvCounted
<1> QED
    BY <1>1, <1>2, <1>3, PTL DEF Spec
=============================================================================
