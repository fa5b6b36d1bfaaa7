----------------------------- MODULE StreamPool -----------------------------
(* The stream pools of the devices (core/supa/SUPAStream.cpp): created on    *)
(* the first request, once per device, and handed out round robin, one pool  *)
(* per priority; a stream is known by a number that packs its pool and its   *)
(* place in it.                                                              *)
EXTENDS Integers, Sequences, FiniteSets, FiniteSetTheorems, TLAPS

CONSTANTS Threads, NumDevices,
          StreamsPerPoolBits,   \* kStreamsPerPoolBits
          StreamTypeBits,       \* kStreamTypeBits
          Priorities,           \* max_stream_priorities
          CounterBits,          \* width of the counters
          MaxDraws              \* streams drawn
PoolAssumption ==
    /\ StreamsPerPoolBits \in Nat /\ StreamTypeBits \in Nat /\ CounterBits \in Nat
    /\ 2 ^ StreamsPerPoolBits \in Nat \ {0} /\ 2 ^ CounterBits \in Nat \ {0}
    /\ 2 ^ CounterBits % 2 ^ StreamsPerPoolBits = 0
    /\ 2 ^ StreamTypeBits \in Nat /\ 2 ^ (StreamTypeBits + 1) = 2 * 2 ^ StreamTypeBits
    /\ Priorities \in 1..2 ^ StreamTypeBits - 2 /\ NumDevices \in Nat \ {0} /\ MaxDraws \in Nat

Devices == 0..NumDevices - 1
kStreamsPerPool == 2 ^ StreamsPerPoolBits

VARIABLES made,       \* device -> the streams created: set of <<priority index, place>>
          once,       \* device -> device_flags: "no", "running" or "done"
          counter,    \* <<priority index, device>> -> priority_counters
          thread,     \* thread -> [pc, device, pri]: its call of getStreamFromPool
          drawn       \* the requests served: [device, pri, id], in order of the counters
vars == <<made, once, counter, thread, drawn>>

Pools == (0..Priorities - 1) \X Devices
Idle == [pc |-> "idle", device |-> 0, pri |-> 0]
Init ==
    /\ made = [d \in Devices |-> {}]
    /\ once = [d \in Devices |-> "no"]
    /\ counter = [p \in Pools |-> 0]
    /\ thread = [t \in Threads |-> Idle]
    /\ drawn = <<>>

-----------------------------------------------------------------------------
(* Note [StreamId assignment].                                               *)

makeStreamId(st, si) == IF st = 0 THEN 0 ELSE si * 2 ^ (StreamTypeBits + 1) + st * 2 + 1
EXT == 2 ^ StreamTypeBits - 1
streamIdType(s) == IF s % 2 = 0 /\ s # 0 THEN EXT ELSE (s \div 2) % 2 ^ StreamTypeBits
streamIdIndex(s) == (s \div 2 ^ (StreamTypeBits + 1)) % kStreamsPerPool

\* std::clamp(-priority, 0, max_stream_priorities - 1)
PriIdx(priority) ==
    IF -priority < 0 THEN 0 ELSE IF -priority > Priorities - 1 THEN Priorities - 1 ELSE -priority

-----------------------------------------------------------------------------
(* getStreamFromPool.                                                        *)

request(t, d, priority) ==
    /\ thread[t].pc = "idle"
    /\ Len(drawn) + Cardinality({u \in Threads : thread[u].pc # "idle"}) < MaxDraws
    /\ thread' = [thread EXCEPT ![t] = [pc |-> "once", device |-> d, pri |-> PriIdx(priority)]]
    /\ UNCHANGED <<made, once, counter, drawn>>

\* call_once: one thread creates the streams, the others wait until it has returned.
onceEnter(t) ==
    LET d == thread[t].device IN
    /\ thread[t].pc = "once" /\ once[d] # "running"
    /\ once' = [once EXCEPT ![d] = IF @ = "no" THEN "running" ELSE @]
    /\ thread' = [thread EXCEPT ![t].pc = IF once[d] = "no" THEN "create" ELSE "draw"]
    /\ UNCHANGED <<made, counter, drawn>>

\* initDeviceStreamState: place by place, each priority.
Missing(d) == ((0..Priorities - 1) \X (0..kStreamsPerPool - 1)) \ made[d]
NextStream(d) ==
    CHOOSE x \in Missing(d) :
        \A y \in Missing(d) : x[2] < y[2] \/ (x[2] = y[2] /\ x[1] <= y[1])
initSingleStream(t) ==
    LET d == thread[t].device IN
    /\ thread[t].pc = "create" /\ Missing(d) # {}
    /\ made' = [made EXCEPT ![d] = @ \cup {NextStream(d)}]
    /\ UNCHANGED <<once, counter, thread, drawn>>

\* A stream that cannot be created: the request throws, and the next one creates
\* every stream anew.
createThrows(t) ==
    LET d == thread[t].device IN
    /\ thread[t].pc = "create" /\ Missing(d) # {}
    /\ once' = [once EXCEPT ![d] = "no"]
    /\ made' = [made EXCEPT ![d] = {}]
    /\ thread' = [thread EXCEPT ![t] = Idle]
    /\ UNCHANGED <<counter, drawn>>

initDone(t) ==
    LET d == thread[t].device IN
    /\ thread[t].pc = "create" /\ Missing(d) = {}
    /\ once' = [once EXCEPT ![d] = "done"]
    /\ thread' = [thread EXCEPT ![t].pc = "draw"]
    /\ UNCHANGED <<made, counter, drawn>>

\* get_idx: the counter is a wrapping unsigned integer.
get_idx(c) == c % kStreamsPerPool
draw(t) ==
    LET p == thread[t].pri
        d == thread[t].device
        c == counter[<<p, d>>]
    IN  /\ thread[t].pc = "draw"
        /\ counter' = [counter EXCEPT ![<<p, d>>] = (c + 1) % 2 ^ CounterBits]
        /\ drawn' = Append(drawn, [device |-> d, pri |-> p, id |-> makeStreamId(p + 1, get_idx(c)),
                                   ready |-> <<p, get_idx(c)>> \in made[d]])
        /\ thread' = [thread EXCEPT ![t] = Idle]
        /\ UNCHANGED <<made, once>>

Next ==
    \E t \in Threads :
        \/ \E d \in Devices, q \in -Priorities..1 : request(t, d, q)
        \/ onceEnter(t) \/ initSingleStream(t) \/ createThrows(t) \/ initDone(t) \/ draw(t)
Spec == Init /\ [][Next]_vars

-----------------------------------------------------------------------------
SamePool(r, p) == r.pri = p[1] /\ r.device = p[2]
PoolOf(r) == <<r.pri, r.device>>
\* The requests from the i-th to the n-th of q that pool p served
Turns(q, p, i, n) == {k \in i..n : SamePool(q[k], p)}

\* As many requests as a pool has streams get different streams: sharing starts only after the
\* whole pool was handed out, also where the counter wraps (round robin, SUPAStream.h:118-121).
RoundRobin ==
    \A i, j \in 1..Len(drawn) :
        /\ i < j /\ PoolOf(drawn[i]) = PoolOf(drawn[j])
        /\ Cardinality(Turns(drawn, PoolOf(drawn[j]), i, j - 1)) < kStreamsPerPool
        => drawn[i].id # drawn[j].id

\* The number of a stream leads back to its pool and to one place in it, is not taken for an
\* external or the default stream, and differs from the numbers of the other pools of the device.
IdsDecode ==
    /\ \A i \in 1..Len(drawn) :
        LET s == drawn[i].id IN
        streamIdType(s) = drawn[i].pri + 1 /\ makeStreamId(streamIdType(s), streamIdIndex(s)) = s
    /\ \A i, j \in 1..Len(drawn) : drawn[i].pri # drawn[j].pri => drawn[i].id # drawn[j].id

\* A stream is created before it is handed out, also to a thread that came while another was
\* creating the pool or after an attempt failed.
HandedOutReady == \A i \in 1..Len(drawn) : drawn[i].ready
-----------------------------------------------------------------------------
(* No thread is handed a stream that is not there, for every number of       *)
(* threads, devices, priorities and streams of a pool.                       *)

Places == 0..kStreamsPerPool - 1
Requests == [pc : {"idle", "once", "create", "draw"}, device : Devices, pri : 0..Priorities - 1]
Ids == {makeStreamId(p + 1, i) : p \in 0..Priorities - 1, i \in Places}
Draws == [device : Devices, pri : 0..Priorities - 1, id : Ids, ready : BOOLEAN]
PoolTypes ==
    /\ made = [d \in Devices |-> made[d]]
    /\ once \in [Devices -> {"no", "running", "done"}]
    /\ counter \in [Pools -> Nat]
    /\ thread \in [Threads -> Requests]
    /\ drawn \in Seq(Draws)

\* The streams of a device are created by one thread at a time, and a thread draws only
\* once all of them are there.
CreatedOnce ==
    /\ \A d \in Devices : once[d] = "done" => Missing(d) = {}
    /\ \A t \in Threads : thread[t].pc = "create" => once[thread[t].device] = "running"
    /\ \A t \in Threads : thread[t].pc = "draw" => once[thread[t].device] = "done"
    /\ \A t, u \in Threads :
          thread[t].pc = "create" /\ thread[u].pc = "create" /\ t # u
             => thread[t].device # thread[u].device

\* A counter says how many requests its pool has served, up to whole rounds of the pool, and
\* every stream was drawn at the place that its turn gives it.
TurnsTaken ==
    /\ \A p \in Pools :
          /\ counter[p] < 2 ^ CounterBits
          /\ counter[p] % kStreamsPerPool =
                Cardinality(Turns(drawn, p, 1, Len(drawn))) % kStreamsPerPool
    /\ \A i \in 1..Len(drawn) :
          drawn[i].id = makeStreamId(drawn[i].pri + 1,
              Cardinality(Turns(drawn, PoolOf(drawn[i]), 1, i - 1)) % kStreamsPerPool)

PoolInv == PoolTypes /\ CreatedOnce /\ HandedOutReady /\ TurnsTaken

\* What the proof uses of the constants.
LEMMA PoolConstants ==
    ASSUME PoolAssumption
    PROVE  /\ Priorities \in Nat \ {0} /\ kStreamsPerPool \in Nat \ {0}
           /\ 2 ^ CounterBits \in Nat \ {0} /\ 0 \in Devices /\ 0 \in 0..Priorities - 1
  BY DEF PoolAssumption, kStreamsPerPool, Devices

\* m * q + r has the remainder r and the quotient q.
LEMMA DivMod ==
    ASSUME NEW m \in Nat \ {0}, NEW q \in Int, NEW r \in 0..m-1,
           NEW a, a = m * q + r
    PROVE a % m = r /\ a \div m = q
OBVIOUS

\* Every number is m * q + r.
LEMMA Remainder ==
    ASSUME NEW m \in Nat \ {0}, NEW a \in Nat
    PROVE \E q \in Nat, r \in 0..m-1 : a = m * q + r /\ a % m = r
<1>1. a \div m \in Nat /\ a % m \in 0..m-1 /\ a = (m * (a \div m)) + (a % m)
  OBVIOUS
<1> QED BY <1>1

\* The next turn after two equal places is equal again.
LEMMA ModSucc ==
    ASSUME NEW m \in Nat \ {0}, NEW a \in Nat, NEW b \in Nat, a % m = b % m
    PROVE (a + 1) % m = (b + 1) % m
<1>1. PICK q \in Nat, r \in 0..m-1 : a = m * q + r /\ a % m = r
  BY Remainder
<1>2. PICK p \in Nat, s \in 0..m-1 : b = m * p + s /\ b % m = s
  BY Remainder
<1>3. s = r
  BY <1>1, <1>2
<1>4. CASE r + 1 < m
  <2>1. a + 1 = m * q + (r + 1) /\ b + 1 = m * p + (r + 1) /\ r + 1 \in 0..m-1
    BY <1>1, <1>2, <1>3, <1>4
  <2> DEFINE A == a + 1
             B == b + 1
             R == r + 1
  <2>2. A \in Int /\ B \in Int /\ R \in 0..m-1 /\ A = m * q + R /\ B = m * p + R
    BY <2>1
  <2> HIDE DEF A, B, R
  <2>3. A % m = R
    BY <2>2, DivMod
  <2>4. B % m = R
    BY <2>2, DivMod
  <2> QED BY <2>3, <2>4 DEF A, B
<1>5. CASE r + 1 = m
  <2>1. a + 1 = m * (q + 1) + 0 /\ b + 1 = m * (p + 1) + 0 /\ 0 \in 0..m-1 /\ q + 1 \in Int
        /\ p + 1 \in Int
    BY <1>1, <1>2, <1>3, <1>5
  <2> DEFINE A == a + 1
             B == b + 1
             Q == q + 1
             P == p + 1
  <2>2. A \in Int /\ B \in Int /\ Q \in Int /\ P \in Int /\ A = m * Q + 0 /\ B = m * P + 0
    BY <2>1
  <2> HIDE DEF A, B, Q, P
  <2>3. A % m = 0
    BY <2>2
  <2>4. B % m = 0
    BY <2>2
  <2> QED BY <2>3, <2>4 DEF A, B
<1> QED BY <1>4, <1>5

\* Fewer than m turns apart, two places differ.
LEMMA ModDiffer ==
    ASSUME NEW m \in Nat \ {0}, NEW a \in Nat, NEW d \in 1..m-1
    PROVE (a + d) % m # a % m
<1>1. PICK q \in Nat, r \in 0..m-1 : a = m * q + r /\ a % m = r
  BY Remainder
<1>2. CASE r + d < m
  <2>1. a + d = m * q + (r + d) /\ r + d \in 0..m-1
    BY <1>1, <1>2
  <2> QED BY <1>1, <2>1, DivMod
<1>3. CASE r + d >= m
  <2>1. a + d = m * (q + 1) + (r + d - m) /\ r + d - m \in 0..m-1 /\ q + 1 \in Int
    BY <1>1, <1>3
  <2>2. (a + d) % m = r + d - m
    <3> DEFINE A == a + d
               Q == q + 1
               R == r + d - m
    <3>1. A \in Int /\ Q \in Int /\ R \in 0..m-1 /\ A = m * Q + R
      BY <2>1
    <3> HIDE DEF A, Q, R
    <3>2. A % m = R
      BY <3>1, DivMod
    <3> QED BY <3>2 DEF A, R
  <2> QED BY <1>1, <2>2
<1> QED BY <1>2, <1>3

\* The number of a stream leads back to its pool and place.
LEMMA IdFact ==
    ASSUME PoolAssumption, NEW p \in 0..Priorities - 1, NEW x \in Places
    PROVE  /\ streamIdType(makeStreamId(p + 1, x)) = p + 1
           /\ streamIdIndex(makeStreamId(p + 1, x)) = x
<1> DEFINE P == 2 ^ StreamTypeBits
           B == 2 ^ (StreamTypeBits + 1)
           K == kStreamsPerPool
           s == makeStreamId(p + 1, x)
<1>1. P \in Nat \ {0} /\ B = 2 * P /\ K \in Nat \ {0} /\ p + 1 \in 1..P - 2 /\ x \in 0..K-1
  BY PoolConstants DEF PoolAssumption, Places
<1>2. s = x * B + (p + 1) * 2 + 1
  BY <1>1 DEF makeStreamId
<1>3. streamIdType(s) = IF s % 2 = 0 /\ s # 0 THEN EXT ELSE (s \div 2) % P
  BY DEF streamIdType
<1>4. streamIdIndex(s) = (s \div B) % K
  BY DEF streamIdIndex
<1> HIDE DEF P, B, K, s
<1>5. s = 2 * (x * P + (p + 1)) + 1 /\ x * P + (p + 1) \in Int
  BY <1>1, <1>2
<1>6. s % 2 = 1 /\ s \div 2 = x * P + (p + 1)
  BY <1>5, DivMod
<1>7. (P * x + (p + 1)) % P = p + 1
  <2> DEFINE A == P * x + (p + 1)
             R == p + 1
  <2>1. A \in Int /\ R \in 0..P-1 /\ A = P * x + R /\ x \in Int
    BY <1>1
  <2> HIDE DEF A, R
  <2>2. A % P = R
    BY <1>1, <2>1, DivMod
  <2> QED BY <2>2 DEF A, R
<1>8. P * x = x * P
  BY <1>1
<1>9. s = B * x + ((p + 1) * 2 + 1) /\ (p + 1) * 2 + 1 \in 0..B-1 /\ B \in Nat \ {0}
  BY <1>1, <1>2
<1>10. s \div B = x
  <2> DEFINE R == (p + 1) * 2 + 1
  <2>1. B \in Nat \ {0} /\ s \in Int /\ R \in 0..B-1 /\ s = B * x + R /\ x \in Int
    BY <1>1, <1>9
  <2> HIDE DEF R
  <2> QED BY <2>1, DivMod
<1>11. x % K = x
  BY <1>1
<1>12. streamIdType(s) = p + 1
  BY <1>3, <1>6, <1>7, <1>8
<1>13. streamIdIndex(s) = x
  BY <1>4, <1>10, <1>11
<1> QED BY <1>12, <1>13 DEF s

\* The turns of a pool can be counted.
LEMMA TurnsFinite ==
    ASSUME NEW q, NEW p, NEW i \in Int, NEW n \in Int
    PROVE  IsFiniteSet(Turns(q, p, i, n)) /\ Cardinality(Turns(q, p, i, n)) \in Nat
<1>1. Turns(q, p, i, n) \in SUBSET (i..n) /\ IsFiniteSet(i..n)
  BY FS_Interval DEF Turns
<1>2. IsFiniteSet(Turns(q, p, i, n))
  BY <1>1, FS_Subset
<1> QED BY <1>2, FS_CardinalityType

\* The turns up to j are those before i and those from i on.
LEMMA TurnsSplit ==
    ASSUME NEW q, NEW p, NEW i \in Nat \ {0}, NEW j \in Nat, i < j
    PROVE  Cardinality(Turns(q, p, 1, j - 1)) = Cardinality(Turns(q, p, 1, i - 1))
               + Cardinality(Turns(q, p, i, j - 1))
<1> DEFINE A == Turns(q, p, 1, i - 1)
           B == Turns(q, p, i, j - 1)
<1>1. Turns(q, p, 1, j - 1) = A \cup B /\ A \cap B = {}
  BY DEF Turns
<1>2. IsFiniteSet(A) /\ Cardinality(A) \in Nat /\ IsFiniteSet(B) /\ Cardinality(B) \in Nat
  BY TurnsFinite
<1> HIDE DEF A, B
<1>3. Cardinality(A \cup B) = Cardinality(A) + Cardinality(B) - Cardinality(A \cap B)
  BY <1>2, FS_Union
<1> QED BY <1>1, <1>2, <1>3, FS_EmptySet DEF A, B

\* A new request is one more turn of its own pool and of no other.
LEMMA TurnsAppend ==
    ASSUME NEW S, NEW q \in Seq(S), NEW r, NEW p
    PROVE  /\ \A n \in 0..Len(q) : Turns(Append(q, r), p, 1, n) = Turns(q, p, 1, n)
           /\ Cardinality(Turns(Append(q, r), p, 1, Len(q) + 1)) =
                 Cardinality(Turns(q, p, 1, Len(q))) + (IF SamePool(r, p) THEN 1 ELSE 0)
<1> DEFINE a == Append(q, r)
           L == Len(q)
<1>1. L \in Nat /\ a[L + 1] = r /\ \A k \in 1..L : a[k] = q[k]
  OBVIOUS
<1> HIDE DEF a, L
<1>2. \A n \in 0..L : Turns(a, p, 1, n) = Turns(q, p, 1, n)
  BY <1>1 DEF Turns
<1>3. Cardinality(Turns(a, p, 1, L + 1)) = Cardinality(Turns(q, p, 1, L)) + (IF SamePool(r,
      p) THEN 1 ELSE 0)
  <2> DEFINE T == Turns(q, p, 1, L)
  <2>1. IsFiniteSet(T) /\ Cardinality(T) \in Nat 
    BY <1>1, TurnsFinite
  <2>0. L + 1 \notin T
    BY <1>1 DEF Turns
  <2>2. CASE SamePool(r, p)
    <3>1. Turns(a, p, 1, L + 1) = T \cup {L + 1}
      BY <1>1, <2>2 DEF Turns
    <3> HIDE DEF T
    <3> QED BY <2>0, <2>1, <2>2, <3>1, FS_AddElement DEF T
  <2>3. CASE ~SamePool(r, p)
    <3>1. Turns(a, p, 1, L + 1) = T
      BY <1>1, <2>3 DEF Turns
    <3> QED BY <2>1, <2>3, <3>1
  <2> QED BY <2>2, <2>3
<1> QED BY <1>2, <1>3 DEF a, L

\* Two streams of a pool with one number are one.
LEMMA MakeIdInjective ==
    ASSUME PoolAssumption, NEW p \in 0..Priorities - 1, NEW x \in Places, NEW y \in Places,
           makeStreamId(p + 1, x) = makeStreamId(p + 1, y)
    PROVE  x = y
  BY IdFact

\* Places by turns are round robin.
LEMMA RoundRobinFact ==
    ASSUME PoolAssumption, PoolTypes, TurnsTaken
    PROVE  RoundRobin
<1> SUFFICES ASSUME NEW i \in 1..Len(drawn), NEW j \in 1..Len(drawn), i < j,
                    PoolOf(drawn[i]) = PoolOf(drawn[j]),
                    Cardinality(Turns(drawn, PoolOf(drawn[j]), i, j - 1)) < kStreamsPerPool,
                    drawn[i].id = drawn[j].id
             PROVE  FALSE
  BY DEF RoundRobin
<1> DEFINE p == PoolOf(drawn[j])
           B == Turns(drawn, p, i, j - 1)
           a == Cardinality(Turns(drawn, p, 1, i - 1))
           b == Cardinality(Turns(drawn, p, 1, j - 1))
           K == kStreamsPerPool
<1>1. K \in Nat \ {0} /\ i \in Nat \ {0} /\ j \in Nat
  BY PoolConstants
<1>2. drawn[i] \in Draws /\ drawn[j] \in Draws
  BY DEF PoolTypes
<1>3. drawn[i].pri = drawn[j].pri /\ drawn[i].device = drawn[j].device
      /\ drawn[j].pri \in 0..Priorities - 1
  BY <1>2 DEF PoolOf, Draws
<1>4. a \in Nat /\ Cardinality(B) \in Nat /\ b = a + Cardinality(B) /\ IsFiniteSet(B)
  BY <1>1, TurnsSplit, TurnsFinite
<1>5. i \in B
  BY <1>1, <1>3 DEF SamePool, PoolOf, Turns
<1>6. Cardinality(B) # 0
  BY <1>4, <1>5, FS_EmptySet
<1>7. Cardinality(B) \in 1..K - 1
  BY <1>1, <1>4, <1>6
<1> HIDE DEF B, K
<1>8. (a + Cardinality(B)) % K # a % K
  BY <1>1, <1>4, <1>7, ModDiffer
<1>9. /\ drawn[i].id = makeStreamId(drawn[j].pri + 1, a % K)
      /\ drawn[j].id = makeStreamId(drawn[j].pri + 1, b % K)
  BY <1>3 DEF TurnsTaken, K
<1>10. a % K \in Places /\ b % K \in Places
  BY <1>1, <1>4 DEF Places, K
<1> HIDE DEF a, b, p
<1> QED BY <1>3, <1>4, <1>8, <1>9, <1>10, MakeIdInjective

\* Numbers made of places in the pools can be decoded.
LEMMA IdsDecodeFact ==
    ASSUME PoolAssumption, PoolTypes, TurnsTaken
    PROVE  IdsDecode
<1>1. ASSUME NEW i \in 1..Len(drawn)
      PROVE  /\ streamIdType(drawn[i].id) = drawn[i].pri + 1 /\ drawn[i].pri \in Nat
             /\ makeStreamId(streamIdType(drawn[i].id), streamIdIndex(drawn[i].id)) = drawn[i].id
  <2> DEFINE c == Cardinality(Turns(drawn, PoolOf(drawn[i]), 1, i - 1))
             x == c % kStreamsPerPool
             p == drawn[i].pri
  <2>1. c \in Nat /\ kStreamsPerPool \in Nat \ {0}
    BY TurnsFinite, PoolConstants
  <2>2. x \in Places
    BY <2>1 DEF Places
  <2>3. drawn[i].id = makeStreamId(p + 1, x)
    BY DEF TurnsTaken
  <2>4. p \in 0..Priorities - 1
    <3>1. drawn[i] \in Draws
      BY DEF PoolTypes
    <3> QED BY <3>1 DEF Draws
  <2> HIDE DEF x, p
  <2> QED BY <2>2, <2>3, <2>4, IdFact DEF p
<1>2. ASSUME NEW i \in 1..Len(drawn), NEW j \in 1..Len(drawn), drawn[i].pri # drawn[j].pri
      PROVE  drawn[i].id # drawn[j].id
  BY <1>1, <1>2
<1> QED BY <1>1, <1>2 DEF IdsDecode

\* A step that serves no request leaves the turns as they are.
LEMMA TurnsKept ==
    ASSUME TurnsTaken, UNCHANGED <<counter, drawn>>
    PROVE  TurnsTaken'
  BY DEF TurnsTaken

\* A request takes the next turn of its pool, also where the counter wraps.
LEMMA TurnsDraw ==
    ASSUME PoolAssumption, PoolTypes, TurnsTaken, NEW p \in 0..Priorities - 1, NEW d \in Devices,
           NEW r, r.device = d, r.pri = p, r.id = makeStreamId(p + 1, get_idx(counter[<<p, d>>])),
           drawn' = Append(drawn, r),
           counter' = [counter EXCEPT ![<<p, d>>] = (counter[<<p, d>>] + 1) % 2 ^ CounterBits]
    PROVE  TurnsTaken'
<1> DEFINE K == kStreamsPerPool
           M == 2 ^ CounterBits
           L == Len(drawn)
           c == counter[<<p, d>>]
<1>1. K \in Nat \ {0} /\ M \in Nat \ {0} /\ M % K = 0 /\ L \in Nat
  BY PoolConstants DEF PoolAssumption, kStreamsPerPool, PoolTypes
<1>2. <<p, d>> \in Pools /\ \A x \in Pools : counter[x] \in Nat /\ counter[x] < M
  BY DEF Pools, PoolTypes, TurnsTaken
<1>3. \A x \in Pools : x # <<p, d>> => counter'[x] = counter[x]
  BY <1>2 DEF PoolTypes
<1>4. counter'[<<p, d>>] = (c + 1) % M
  BY <1>2 DEF PoolTypes
<1>5. \A x \in Pools : SamePool(r, x) <=> x = <<p, d>>
  BY DEF SamePool, Pools
<1>6. /\ \A x : \A n \in 0..L : Turns(drawn', x, 1, n) = Turns(drawn, x, 1, n)
      /\ \A x : Cardinality(Turns(drawn', x, 1, L + 1)) =
                   Cardinality(Turns(drawn, x, 1, L)) + (IF SamePool(r, x) THEN 1 ELSE 0)
  BY TurnsAppend DEF PoolTypes
<1>7. Len(drawn') = L + 1 /\ drawn'[L + 1] = r /\ \A i \in 1..L : drawn'[i] = drawn[i]
  BY DEF PoolTypes
<1>8. \A x \in Pools : Cardinality(Turns(drawn, x, 1, L)) \in Nat
  BY <1>1, TurnsFinite
<1>9. (c + 1) % M < M /\ ((c + 1) % M) % K = (c + 1) % K
  <2>0. c \in Nat /\ c < M
    BY <1>2
  <2>1. CASE c + 1 < M
    <3> DEFINE a == c + 1
    <3>1. a \in Nat /\ a < M
      BY <2>0, <2>1
    <3> HIDE DEF a, M
    <3>2. a % M = a
      BY <1>1, <3>1
    <3> QED BY <3>1, <3>2 DEF a
  <2>2. CASE c + 1 = M
    <3>1. (c + 1) % M = 0
      BY <1>1, <2>2
    <3>2. 0 % K = 0
      BY <1>1
    <3> QED BY <1>1, <2>2, <3>1, <3>2
  <2> HIDE DEF M
  <2> QED BY <1>1, <2>0, <2>1, <2>2
<1>10. ASSUME NEW x \in Pools
       PROVE  /\ counter'[x] < M
              /\ counter'[x] % K = Cardinality(Turns(drawn', x, 1, L + 1)) % K
  <2>1. CASE x # <<p, d>>
    <3>1. Cardinality(Turns(drawn', x, 1, L + 1)) = Cardinality(Turns(drawn, x, 1, L))
      BY <1>5, <1>6, <1>8, <2>1
    <3> QED BY <1>2, <1>3, <2>1, <3>1 DEF TurnsTaken
  <2>2. CASE x = <<p, d>>
    <3>1. Cardinality(Turns(drawn', x, 1, L + 1)) = Cardinality(Turns(drawn, x, 1, L)) + 1
      BY <1>5, <1>6, <2>2
    <3>2. c % K = Cardinality(Turns(drawn, x, 1, L)) % K
      BY <2>2 DEF TurnsTaken
    <3>3. (c + 1) % K = (Cardinality(Turns(drawn, x, 1, L)) + 1) % K
      BY <1>1, <1>2, <1>8, <3>2, ModSucc
    <3> QED BY <1>4, <1>9, <2>2, <3>1, <3>3
  <2> QED BY <2>1, <2>2
<1>11. ASSUME NEW i \in 1..L + 1
       PROVE  drawn'[i].id = makeStreamId(drawn'[i].pri + 1,
                  Cardinality(Turns(drawn', PoolOf(drawn'[i]), 1, i - 1)) % K)
  <2>1. CASE i \in 1..L
    <3>1. Turns(drawn', PoolOf(drawn[i]), 1, i - 1) = Turns(drawn, PoolOf(drawn[i]), 1, i - 1)
      BY <1>1, <1>6, <2>1
    <3> QED BY <1>7, <2>1, <3>1 DEF TurnsTaken
  <2>2. CASE i = L + 1
    <3>1. PoolOf(r) = <<p, d>> /\ i - 1 = L
      BY <1>1, <2>2 DEF PoolOf
    <3>2. Turns(drawn', <<p, d>>, 1, L) = Turns(drawn, <<p, d>>, 1, L)
      BY <1>1, <1>6
    <3>3. c % K = Cardinality(Turns(drawn, <<p, d>>, 1, L)) % K
      BY <1>2 DEF TurnsTaken
    <3> QED BY <1>7, <2>2, <3>1, <3>2, <3>3 DEF get_idx
  <2> QED BY <1>1, <2>1, <2>2
<1> QED BY <1>7, <1>10, <1>11 DEF TurnsTaken

\* The invariant holds before the first stream is asked for.
LEMMA PoolInvInit == PoolAssumption /\ Init => PoolInv
<1> SUFFICES ASSUME PoolAssumption, Init PROVE PoolInv
    OBVIOUS
<1>1. PoolTypes
    BY PoolConstants DEF Init, PoolTypes, Requests, Idle
<1>2. CreatedOnce
    BY DEF Init, CreatedOnce, Idle
<1>3. HandedOutReady
    BY DEF Init, HandedOutReady
<1>4. TurnsTaken
  <2>1. drawn = <<>> /\ Len(drawn) = 0 /\ \A p \in Pools : counter[p] = 0
    BY DEF Init
  <2>2. \A p : Turns(drawn, p, 1, 0) = {}
    BY DEF Turns
  <2>3. kStreamsPerPool \in Nat \ {0} /\ 0 % kStreamsPerPool = 0 /\ 0 < 2 ^ CounterBits
    BY PoolConstants
  <2>4. Cardinality({}) = 0
    BY FS_EmptySet
  <2>5. 1..Len(drawn) = {}
    BY <2>1
  <2>6. ASSUME NEW p \in Pools
        PROVE  /\ counter[p] < 2 ^ CounterBits
               /\ counter[p] % kStreamsPerPool =
                     Cardinality(Turns(drawn, p, 1, Len(drawn))) % kStreamsPerPool
    <3>1. counter[p] = 0 /\ Cardinality(Turns(drawn, p, 1, Len(drawn))) = 0
      BY <2>1, <2>2, <2>4
    <3> QED BY <2>3, <3>1
  <2> QED BY <2>5, <2>6 DEF TurnsTaken
<1> QED BY <1>1, <1>2, <1>3, <1>4 DEF PoolInv

\* Every step of every thread keeps the invariant.
LEMMA PoolInvNext ==
    ASSUME PoolAssumption, PoolInv, [Next]_vars
    PROVE  PoolInv'
<1> USE PoolConstants, PoolAssumption DEF PoolInv
<1>1. CASE UNCHANGED vars
    BY <1>1, TurnsKept DEF vars, PoolTypes, CreatedOnce, Missing, HandedOutReady
<1>2. ASSUME NEW t \in Threads, NEW d \in Devices, NEW q \in -Priorities..1, request(t, d, q)
      PROVE  PoolInv'
  <2>1. PriIdx(q) \in 0..Priorities - 1
    BY DEF PriIdx
  <2>2. PoolTypes'
    BY <1>2, <2>1 DEF PoolTypes, request, Requests
  <2>3. CreatedOnce'
    BY <1>2, <2>1 DEF CreatedOnce, request, Missing, PoolTypes
  <2> QED BY <1>2, <2>2, <2>3, TurnsKept DEF request, HandedOutReady
<1>3. ASSUME NEW t \in Threads, onceEnter(t) PROVE PoolInv'
  <2>1. thread[t] \in Requests /\ thread[t].device \in Devices
    BY DEF PoolTypes, Requests
  <2>2. PoolTypes'
    BY <1>3, <2>1 DEF PoolTypes, onceEnter, Requests
  <2>3. CreatedOnce'
    BY <1>3, <2>1 DEF CreatedOnce, onceEnter, Missing, PoolTypes, Requests
  <2> QED BY <1>3, <2>2, <2>3, TurnsKept DEF onceEnter, HandedOutReady
<1>4. ASSUME NEW t \in Threads, createThrows(t) PROVE PoolInv'
  <2>1. thread[t] \in Requests /\ thread[t].device \in Devices
    BY DEF PoolTypes, Requests
  <2>2. PoolTypes'
    BY <1>4, <2>1 DEF PoolTypes, createThrows, Requests, Idle
  <2>3. CreatedOnce'
    BY <1>4, <2>1 DEF CreatedOnce, createThrows, Missing, PoolTypes, Requests, Idle
  <2> QED BY <1>4, <2>2, <2>3, TurnsKept DEF createThrows, HandedOutReady
<1>5. ASSUME NEW t \in Threads, initDone(t) PROVE PoolInv'
  <2>1. thread[t] \in Requests /\ thread[t].device \in Devices
    BY DEF PoolTypes, Requests
  <2>2. PoolTypes'
    BY <1>5, <2>1 DEF PoolTypes, initDone, Requests
  <2>3. CreatedOnce'
    BY <1>5, <2>1 DEF CreatedOnce, initDone, Missing, PoolTypes, Requests
  <2> QED BY <1>5, <2>2, <2>3, TurnsKept DEF initDone, HandedOutReady
<1>6. ASSUME NEW t \in Threads, initSingleStream(t) PROVE PoolInv'
  <2>1. thread[t] \in Requests /\ thread[t].device \in Devices
    BY DEF PoolTypes, Requests
  <2>2. once[thread[t].device] = "running"
    BY <1>6 DEF CreatedOnce, initSingleStream
  <2>3. \A d \in Devices : once[d] = "done" => made'[d] = made[d]
    BY <1>6, <2>1, <2>2 DEF PoolTypes, initSingleStream
  <2>4. CreatedOnce'
    BY <1>6, <2>3 DEF CreatedOnce, initSingleStream, Missing
  <2>6. PoolTypes'
    BY <1>6, <2>1 DEF PoolTypes, initSingleStream
  <2> QED BY <1>6, <2>4, <2>6, TurnsKept DEF initSingleStream, HandedOutReady
<1>7. ASSUME NEW t \in Threads, draw(t) PROVE PoolInv'
  <2> DEFINE p == thread[t].pri
             d == thread[t].device
             n == get_idx(counter[<<p, d>>])
             r == [device |-> d, pri |-> p, id |-> makeStreamId(p + 1, n),
                   ready |-> <<p, n>> \in made[d]]
  <2>1. thread[t] \in Requests /\ d \in Devices /\ p \in 0..Priorities - 1 /\ <<p, d>> \in Pools
    BY DEF PoolTypes, Requests, Pools
  <2>2. counter[<<p, d>>] \in Nat /\ n \in Places
    BY <2>1 DEF PoolTypes, get_idx, Places
  <2>3. once[d] = "done" /\ Missing(d) = {}
    BY <1>7, <2>1 DEF CreatedOnce, draw
  <2>4. <<p, n>> \in made[d]
    BY <2>1, <2>2, <2>3 DEF Missing, Places
  <2>5. r \in Draws /\ r.ready = TRUE
    <3>1. makeStreamId(p + 1, n) \in Ids
      BY <2>1, <2>2 DEF Ids
    <3>2. (<<p, n>> \in made[d]) = TRUE
      BY <2>4
    <3> QED BY <2>1, <3>1, <3>2 DEF Draws
  <2>6. drawn' = Append(drawn, r) /\ UNCHANGED <<made, once>>
        /\ thread' = [thread EXCEPT ![t] = Idle]
        /\ counter' = [counter EXCEPT ![<<p, d>>] = (counter[<<p, d>>] + 1) % 2 ^ CounterBits]
    BY <1>7 DEF draw
  <2>a. r.device = d /\ r.pri = p /\ r.id = makeStreamId(p + 1, get_idx(counter[<<p, d>>]))
    OBVIOUS
  <2> HIDE DEF r
  <2>b. TurnsTaken'
    BY <2>1, <2>6, <2>a, TurnsDraw
  <2>7. HandedOutReady' /\ drawn' \in Seq(Draws)
    BY <2>5, <2>6 DEF PoolTypes, HandedOutReady
  <2>8. PoolTypes'
    <3>1. (counter[<<p, d>>] + 1) % 2 ^ CounterBits \in Nat
      BY <2>2
    <3> QED BY <2>6, <2>7, <3>1 DEF PoolTypes, Requests, Idle
  <2>9. CreatedOnce'
    BY <2>6, <2>8 DEF CreatedOnce, PoolTypes, Idle, Missing
  <2> QED BY <2>7, <2>8, <2>9, <2>b
<1> QED
  BY <1>1, <1>2, <1>3, <1>4, <1>5, <1>6, <1>7 DEF Next

\* A stream that is handed out was created before, whichever threads asked at the same time
\* and however often its creation failed (getStreamFromPool, initDeviceStreamState).
THEOREM HandedOutReadyCorrect == PoolAssumption => (Spec => []HandedOutReady)
<1> SUFFICES ASSUME PoolAssumption PROVE Spec => []HandedOutReady
    OBVIOUS
<1>1. Init => PoolInv
    BY PoolInvInit
<1>2. PoolInv /\ [Next]_vars => PoolInv'
    BY PoolInvNext
<1>3. PoolInv => HandedOutReady
    BY DEF PoolInv
<1> QED BY <1>1, <1>2, <1>3, PTL DEF Spec

\* Every pool hands out its streams in turn, also where its counter wraps, and the number of a
\* stream leads back to the pool and the place it came from (get_idx, makeStreamId,
\* streamIdType, streamIdIndex).
THEOREM TurnsCorrect == PoolAssumption => (Spec => [](RoundRobin /\ IdsDecode))
<1> SUFFICES ASSUME PoolAssumption PROVE Spec => [](RoundRobin /\ IdsDecode)
    OBVIOUS
<1>1. Init => PoolInv
    BY PoolInvInit
<1>2. PoolInv /\ [Next]_vars => PoolInv'
    BY PoolInvNext
<1>3. PoolInv => RoundRobin /\ IdsDecode
    BY RoundRobinFact, IdsDecodeFact DEF PoolInv
<1> QED BY <1>1, <1>2, <1>3, PTL DEF Spec
=============================================================================
