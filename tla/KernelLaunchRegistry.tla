------------------------- MODULE KernelLaunchRegistry -------------------------
(***************************************************************************)
(* SUPAKernelLaunchRegistry (SUPADeviceAssertionHost): host threads enter  *)
(* every kernel launch into a ring and give the kernel its number; a       *)
(* device-side assertion that fails writes that number into a buffer of    *)
(* managed memory; a host thread that checks an error finds the failure    *)
(* and looks up in the ring which launch it was.                           *)
(*                                                                         *)
(* A launch is known by the value generation_number has when it is         *)
(* inserted.  Kernels carry that value as a ghost, next to the caller      *)
(* number the code gives them, so that a report can be compared with what  *)
(* really failed.                                                          *)
(***************************************************************************)
EXTENDS Integers, Sequences, FiniteSets, TLAPS

CONSTANTS Threads, Devices,
          enabled_at_runtime, gather_launch_stacktrace,   \* from the environment
          max_kernel_launches,  \* slots of the ring
          AssertionCount,       \* C10_SUPA_DSA_ASSERTION_COUNT
          CallerMod,            \* caller is unsigned with 32 bits
          MaxLaunches,          \* bound on generation_number
          MaxFailures,          \* bound on the failures of a device
          MaxMallocs,           \* bound on the buffers that are allocated
          None

RingDividesCaller == CallerMod % max_kernel_launches = 0

VARIABLES
    generation_number,
    kernel_launches,   \* slot -> generation of the launch it describes
    uvm_assertions,    \* device -> the buffer's number, or None
    buffers,           \* buffer -> [count, entries]
    gpu_alloc_mutex,   \* its owner
    pc,                \* per thread
    dev,               \* per thread: its current device
    ptr,               \* per thread: the buffer it got for its kernel
    kernels,           \* kernels that run
    seen,              \* per thread: the counts of the buffers when its pause began
    report             \* what the last check printed, None before one failed
vars == <<generation_number, kernel_launches, uvm_assertions, buffers, gpu_alloc_mutex, pc, dev,
          ptr, kernels, seen, report>>

Empty == [caller |-> 0, truth |-> None]
DeviceAssertionsData == [count |-> 0, entries |-> [i \in 1..AssertionCount |-> Empty]]

\* The constructor; the entries of the ring say generation 0.
Init ==
    /\ generation_number = 0
    /\ kernel_launches = [i \in 0..(max_kernel_launches - 1) |-> 0]
    /\ uvm_assertions = [d \in Devices |-> None]
    /\ buffers = <<>>
    /\ gpu_alloc_mutex = None
    /\ pc = [t \in Threads |-> "idle"] /\ dev \in [Threads -> Devices]
    /\ ptr = [t \in Threads |-> None]
    /\ kernels = {} /\ report = None
    /\ seen = [t \in Threads |-> <<>>]

Goto(t, l) == pc' = [pc EXCEPT ![t] = l]

-----------------------------------------------------------------------------
(* get_uvm_assertions_ptr_for_current_device                               *)

\* The quick path reads the pointer without a lock.
GetPtr(t) ==
    /\ pc[t] = "idle" /\ generation_number < MaxLaunches
    /\ IF ~enabled_at_runtime \/ uvm_assertions[dev[t]] # None
       THEN ptr' = [ptr EXCEPT ![t] = uvm_assertions[dev[t]]] /\ Goto(t, "insert")
       ELSE Goto(t, "lock") /\ UNCHANGED ptr
    /\ UNCHANGED <<generation_number, kernel_launches, uvm_assertions, buffers,
                   gpu_alloc_mutex, dev, kernels, seen, report>>

Recheck(t) == uvm_assertions[dev[t]] # None

Lock(t) ==
    /\ pc[t] = "lock" /\ gpu_alloc_mutex = None
    /\ IF Recheck(t)
       THEN /\ ptr' = [ptr EXCEPT ![t] = uvm_assertions[dev[t]]]
            /\ Goto(t, "insert") /\ UNCHANGED gpu_alloc_mutex
       ELSE gpu_alloc_mutex' = t /\ Goto(t, "alloc") /\ UNCHANGED ptr
    /\ UNCHANGED <<generation_number, kernel_launches, uvm_assertions, buffers,
                   dev, kernels, seen, report>>

\* supaMallocManaged, supaMemAdvise and the initialisation from the CPU.
Alloc(t) ==
    /\ pc[t] = "alloc" /\ Len(buffers) < MaxMallocs
    /\ buffers' = Append(buffers, DeviceAssertionsData)
    /\ ptr' = [ptr EXCEPT ![t] = Len(buffers) + 1]
    /\ Goto(t, "reset")
    /\ UNCHANGED <<generation_number, kernel_launches, uvm_assertions,
                   gpu_alloc_mutex, dev, kernels, seen, report>>

\* One of the calls fails: the error leaves the function and the lock.
AllocFails(t) ==
    /\ pc[t] = "alloc"
    /\ gpu_alloc_mutex' = None /\ Goto(t, "idle")
    /\ UNCHANGED <<generation_number, kernel_launches, uvm_assertions, buffers,
                   dev, ptr, kernels, seen, report>>

Reset(t) ==
    /\ pc[t] = "reset"
    /\ uvm_assertions' = [uvm_assertions EXCEPT ![dev[t]] = ptr[t]]
    /\ gpu_alloc_mutex' = None /\ Goto(t, "insert")
    /\ UNCHANGED <<generation_number, kernel_launches, buffers, dev, ptr,
                   kernels, seen, report>>

-----------------------------------------------------------------------------
(* insert, under read_write_mutex, and the launch                          *)

Caller(g) == g % CallerMod

Launch(t, caller) ==
    kernels' = kernels \cup {[device |-> dev[t], buf |-> ptr[t], caller |-> caller,
                              truth |-> generation_number, slot |-> 0]}

insert(t) ==
    /\ pc[t] = "insert"
    /\ IF enabled_at_runtime
       THEN /\ generation_number' = generation_number + 1
            /\ kernel_launches' = [kernel_launches EXCEPT
                   ![generation_number % max_kernel_launches] = generation_number]
            /\ Launch(t, Caller(generation_number))
       ELSE UNCHANGED <<generation_number, kernel_launches, kernels>>
    /\ ptr' = [ptr EXCEPT ![t] = None] /\ Goto(t, "idle")
    /\ UNCHANGED <<uvm_assertions, buffers, gpu_alloc_mutex, dev, seen, report>>

\* dsa_get_device_id fails after the number was taken: there is no launch.
insert_fails(t) ==
    /\ pc[t] = "insert" /\ enabled_at_runtime
    /\ generation_number' = generation_number + 1
    /\ ptr' = [ptr EXCEPT ![t] = None] /\ Goto(t, "idle")
    /\ UNCHANGED <<kernel_launches, uvm_assertions, buffers, gpu_alloc_mutex,
                   dev, kernels, seen, report>>

SetDevice(t) == \E d \in Devices \ {dev[t]} :
    /\ pc[t] = "idle" /\ dev' = [dev EXCEPT ![t] = d]
    /\ UNCHANGED <<generation_number, kernel_launches, uvm_assertions, buffers,
                   gpu_alloc_mutex, pc, ptr, kernels, seen, report>>

-----------------------------------------------------------------------------
(* The device.  A thread of a kernel whose assertion fails takes the next  *)
(* entry by raising the count, and then writes it if there is room: the    *)
(* host sees the count before it sees the entry.                           *)

Entry(k) == [caller |-> k.caller, truth |-> k.truth]
Raise(k) == buffers[k.buf].count + 1

KernelFails(k) ==
    /\ k.slot = 0 /\ buffers[k.buf].count < MaxFailures
    /\ buffers' = [buffers EXCEPT ![k.buf].count = Raise(k)]
    /\ kernels' = IF Raise(k) <= AssertionCount
                  THEN (kernels \ {k}) \cup {[k EXCEPT !.slot = Raise(k)]} ELSE kernels
    /\ UNCHANGED <<generation_number, kernel_launches, uvm_assertions,
                   gpu_alloc_mutex, pc, dev, ptr, seen, report>>

KernelWrites(k) ==
    /\ k.slot # 0
    /\ buffers' = [buffers EXCEPT ![k.buf].entries[k.slot] = Entry(k)]
    /\ kernels' = (kernels \ {k}) \cup {[k EXCEPT !.slot = 0]}
    /\ UNCHANGED <<generation_number, kernel_launches, uvm_assertions,
                   gpu_alloc_mutex, pc, dev, ptr, seen, report>>

KernelEnds(k) ==
    /\ k.slot = 0 /\ kernels' = kernels \ {k}
    /\ UNCHANGED <<generation_number, kernel_launches, uvm_assertions, buffers,
                   gpu_alloc_mutex, pc, dev, ptr, seen, report>>

-----------------------------------------------------------------------------
(* c10_supa_check_implementation and c10_retrieve_device_side_assertion_info *)

has_failed == \E d \in Devices :
    uvm_assertions[d] # None /\ buffers[uvm_assertions[d]].count > 0

\* A check finds a failure and begins to wait for the writes of the device.
c10_supa_check_implementation(t) ==
    /\ pc[t] = "idle" /\ has_failed
    /\ seen' = [seen EXCEPT ![t] = [b \in 1..Len(buffers) |-> buffers[b].count]]
    /\ Goto(t, "pause")
    /\ UNCHANGED <<generation_number, kernel_launches, uvm_assertions, buffers,
                   gpu_alloc_mutex, dev, ptr, kernels, report>>

\* Entry i of buffer b was counted when the pause of t began.
Counted(t, b, i) == b \in 1..Len(seen[t]) /\ i <= seen[t][b]

\* "A short pause gives it time to finish": the second is taken to be enough for
\* the entries that were counted when it began, and for no others.
PauseOver(t) == \A k \in kernels : k.slot # 0 => ~Counted(t, k.buf, k.slot)

Min2(a, b) == IF a < b THEN a ELSE b
failures_found(b) == Min2(buffers[b].count, AssertionCount)

Available_Always(e) == TRUE
Available(e) == kernel_launches[e.caller % max_kernel_launches] = e.caller

\* "Launch stacktracing disabled." or the trace that insert has stored, which
\* is empty when none was gathered.
Backtrace == IF gather_launch_stacktrace THEN "disabled" ELSE "empty"

Described(e, counted) ==
    [truth |-> e.truth, counted |-> counted,
     launch |-> IF Available(e) THEN kernel_launches[e.caller % max_kernel_launches] ELSE None,
     trace |-> IF Available(e) THEN Backtrace ELSE None]

\* snapshot and the text made of it, once the second is over.
c10_retrieve_device_side_assertion_info(t) ==
    /\ pc[t] = "pause" /\ PauseOver(t)
    /\ report' = UNION {{Described(buffers[uvm_assertions[d]].entries[i],
                                   Counted(t, uvm_assertions[d], i)) :
                            i \in 1..failures_found(uvm_assertions[d])} :
                        d \in {x \in Devices : uvm_assertions[x] # None}}
    /\ Goto(t, "idle") /\ seen' = [seen EXCEPT ![t] = <<>>]
    /\ UNCHANGED <<generation_number, kernel_launches, uvm_assertions, buffers,
                   gpu_alloc_mutex, dev, ptr, kernels>>

Next == \/ \E t \in Threads :
             \/ GetPtr(t) \/ Lock(t) \/ Alloc(t) \/ AllocFails(t) \/ Reset(t)
             \/ insert(t) \/ insert_fails(t) \/ SetDevice(t)
             \/ c10_supa_check_implementation(t)
             \/ c10_retrieve_device_side_assertion_info(t)
        \/ \E k \in kernels : KernelFails(k) \/ KernelWrites(k) \/ KernelEnds(k)

Spec == Init /\ [][Next]_vars

-----------------------------------------------------------------------------
Failures == IF report = None THEN {} ELSE report

\* An entry that was counted when the pause began is reported with what the
\* device wrote, and a launch that the report names for a written entry is the
\* one whose kernel failed, however far the ring has moved on since.  The
\* exception are entries that the device took during the pause and had not
\* written at its end: the report reads them as they were initialised.
LaunchesNamedRight ==
    \A f \in Failures :
        /\ f.counted => f.truth # None
        /\ f.truth # None /\ f.launch # None => f.launch = f.truth

\* The ring's numbers "ensure that [the] circular queue doesn't provide false
\* information": contradicted by that exception, as an entry that is not yet
\* written has caller 0 and names what slot 0 holds.
NoFalseLaunch == \A f \in Failures : f.launch # None => f.launch = f.truth

\* "[T]he device memory is allocated only once": the buffer a kernel writes to
\* is the one the host reads, so no failure is lost and none writes to memory
\* that was freed.
KernelsReportToHost == \A k \in kernels : k.buf = uvm_assertions[k.device]

\* A launch that is still in the ring when its failure is reported is named;
\* checked in the state after the report, where the ring may have moved on.
StillInRing(g) == kernel_launches[g % max_kernel_launches] = g
RecentLaunchesNamedStep ==
    \A t \in Threads : c10_retrieve_device_side_assertion_info(t) =>
        \A f \in Failures' : f.truth # None /\ StillInRing(f.truth) => f.launch = f.truth
RecentLaunchesNamed == [][RecentLaunchesNamedStep]_vars

\* With launch stack traces gathered the report shows them.
TraceShownWhenGathered ==
    gather_launch_stacktrace => \A f \in Failures : f.trace # "disabled"

-----------------------------------------------------------------------------
(* What the reports say, for every number of threads, devices, launches and  *)
(* slots of the ring.                                                        *)

\* The ring has slots and its size divides the range of caller (2^32 and a
\* power of two), and no pointer or thread is taken for "none".
LaunchAssumption ==
    /\ max_kernel_launches \in Nat \ {0} /\ AssertionCount \in Nat /\ CallerMod \in Nat \ {0}
    /\ RingDividesCaller
    /\ None \notin Nat /\ None \notin Threads
    /\ enabled_at_runtime \in BOOLEAN

\* The remainder is the r of m * q + r.
LEMMA ModUnique ==
    ASSUME NEW m \in Nat \ {0}, NEW q \in Int, NEW r \in 0..m-1 PROVE (m * q + r) % m = r
OBVIOUS

\* A caller number leads to the slot of the launch it was made of, and is never
\* larger than the launch, also where the number has wrapped.
LEMMA CallerSlot ==
    ASSUME LaunchAssumption, NEW g \in Nat
    PROVE  Caller(g) \in Nat /\ Caller(g) <= g
           /\ Caller(g) % max_kernel_launches = g % max_kernel_launches
<1> DEFINE m == max_kernel_launches
           q == CallerMod \div m
           a == g \div CallerMod
           r == g % CallerMod
           b == r \div m
           c == r % m
<1>1. m \in Nat \ {0} /\ CallerMod \in Nat \ {0} /\ CallerMod % m = 0
  BY DEF LaunchAssumption, RingDividesCaller
<1>2. q \in Int /\ CallerMod = m * q
  BY <1>1
<1>3. a \in Nat /\ r \in 0..CallerMod-1 /\ g = CallerMod * a + r
  BY <1>1
<1>4. b \in Int /\ c \in 0..m-1 /\ r = m * b + c
  BY <1>1, <1>3
<1> HIDE DEF q, a, r, b, c
<1>5. g = m * (q * a + b) + c
  BY <1>1, <1>2, <1>3, <1>4
<1>6. g % m = c
  <2> DEFINE k == q * a + b
  <2>1. k \in Int
    BY <1>2, <1>3, <1>4
  <2>2. g = m * k + c
    BY <1>5
  <2> HIDE DEF k
  <2> QED BY <1>1, <1>4, <2>1, <2>2, ModUnique
<1>7. r % m = c
  BY <1>1, <1>3, <1>4, ModUnique
<1>8. r <= g
  BY <1>1, <1>3
<1> QED BY <1>3, <1>6, <1>7, <1>8 DEF Caller, r

Entries == [caller : Nat, truth : Nat \cup {None}]
DeviceAssertions == [count : Nat, entries : [1..AssertionCount -> Entries]]
Kernels == [device : Devices, buf : Nat, caller : Nat, truth : Nat, slot : Nat]
Pointers == 1..Len(buffers)

LaunchTypes ==
    /\ generation_number \in Nat
    /\ kernel_launches \in [0..max_kernel_launches - 1 -> Nat]
    /\ buffers \in Seq(DeviceAssertions)
    /\ uvm_assertions \in [Devices -> Pointers \cup {None}]
    /\ pc \in [Threads -> {"idle", "lock", "alloc", "reset", "insert", "pause"}]
    /\ dev \in [Threads -> Devices]
    /\ ptr \in [Threads -> Pointers \cup {None}]
    /\ kernels \in SUBSET Kernels

\* A thread that allocates holds gpu_alloc_mutex, and its device has no buffer yet.
AllocLocked ==
    \A t \in Threads : pc[t] \in {"alloc", "reset"} =>
        /\ gpu_alloc_mutex = t /\ uvm_assertions[dev[t]] = None
        /\ pc[t] = "reset" => ptr[t] # None

\* The buffer a thread got for its kernel is still the one of its device.
PtrCurrent ==
    \A t \in Threads : pc[t] = "insert" /\ enabled_at_runtime =>
        ptr[t] # None /\ ptr[t] = uvm_assertions[dev[t]]

\* Launch g was entered among the first n, and its slot holds it or a later one.
Inserted(g, n, ring) == g < n /\ g <= ring[g % max_kernel_launches]
\* A kernel or an entry carries the number that its launch was given.
Genuine(e, n, ring) ==
    e.truth \in Nat /\ e.caller = Caller(e.truth) /\ Inserted(e.truth, n, ring)
\* Entry i of buffer b, when the count of b is c: it is that of a launch if it was
\* taken and written, and as it was initialised before; then, if it was taken, a
\* kernel is about to write it.
EntryRight(e, b, i, c) ==
    \/ i <= c /\ Genuine(e, generation_number, kernel_launches)
    \/ e.truth = None /\ (i <= c => \E k \in kernels : k.buf = b /\ k.slot = i)
KernelRight(k) ==
    /\ Genuine(k, generation_number, kernel_launches)
    /\ k.slot <= AssertionCount /\ k.slot <= buffers[k.buf].count

EntriesGenuine ==
    /\ \A k \in kernels : KernelRight(k)
    /\ \A b \in Pointers, i \in 1..AssertionCount :
          EntryRight(buffers[b].entries[i], b, i, buffers[b].count)
LaunchInv ==
    /\ LaunchTypes /\ AllocLocked /\ PtrCurrent /\ KernelsReportToHost
    /\ EntriesGenuine
    /\ LaunchesNamedRight

\* The invariant holds before the first launch.
LEMMA LaunchInvInit == LaunchAssumption /\ Init => LaunchInv
<1> SUFFICES ASSUME LaunchAssumption, Init PROVE LaunchInv
    OBVIOUS
<1>1. LaunchTypes
    BY DEF LaunchAssumption, Init, LaunchTypes, Pointers
<1>2. AllocLocked /\ PtrCurrent /\ KernelsReportToHost
    BY DEF Init, AllocLocked, PtrCurrent, KernelsReportToHost
<1>3. EntriesGenuine /\ LaunchesNamedRight
    BY DEF Init, EntriesGenuine, Pointers, LaunchesNamedRight, Failures
<1> QED BY <1>1, <1>2, <1>3 DEF LaunchInv

\* A buffer has a count.
LEMMA CountTyped ==
    ASSUME LaunchInv, NEW b \in Pointers
    PROVE  buffers[b] \in DeviceAssertions /\ buffers[b].count \in Nat
<1>1. buffers[b] \in DeviceAssertions
  BY DEF LaunchInv, LaunchTypes, Pointers
<1> QED BY <1>1 DEF DeviceAssertions

\* A step that makes no report keeps the last one right.
LEMMA ReportKept ==
    ASSUME LaunchInv, report' = report
    PROVE  LaunchesNamedRight'
  BY DEF LaunchInv, LaunchesNamedRight, Failures

\* The buffers stay, what was a launch is one, kernels that are about to write
\* stay, and new ones have no entry yet: the entries are right.
LEMMA EntriesStay ==
    ASSUME LaunchInv, buffers' = buffers,
           \A e : Genuine(e, generation_number, kernel_launches)
                      => Genuine(e, generation_number', kernel_launches'),
           \A k \in kernels : k.slot # 0 => k \in kernels',
           \A k \in kernels' : k \in kernels \/ KernelRight(k)'
    PROVE  EntriesGenuine'
<1>1. ASSUME NEW k \in kernels' PROVE KernelRight(k)'
  BY DEF LaunchInv, EntriesGenuine, KernelRight
<1>2. ASSUME NEW b \in Pointers', NEW i \in 1..AssertionCount
      PROVE  EntryRight(buffers[b].entries[i], b, i, buffers[b].count)'
  <2>1. EntryRight(buffers[b].entries[i], b, i, buffers[b].count)
    BY DEF LaunchInv, EntriesGenuine, Pointers
  <2>2. i # 0
    OBVIOUS
  <2> QED BY <2>1, <2>2 DEF EntryRight
<1> QED BY <1>1, <1>2 DEF EntriesGenuine

\* A step that enters no launch and lets no assertion fail keeps the entries.
LEMMA EntriesKept ==
    ASSUME LaunchInv, UNCHANGED <<generation_number, kernel_launches, buffers>>,
           kernels' \subseteq kernels, \A k \in kernels : k.slot # 0 => k \in kernels'
    PROVE  EntriesGenuine'
  BY EntriesStay

\* A thread looks for the buffer of its device without the lock.
LEMMA GetPtrInv ==
    ASSUME LaunchAssumption, LaunchInv, NEW t \in Threads, GetPtr(t)
    PROVE  LaunchInv'
<1>1. LaunchTypes'
    BY DEF GetPtr, Goto, LaunchInv, LaunchTypes, Pointers
<1>2. AllocLocked'
    BY DEF GetPtr, Goto, LaunchInv, LaunchTypes, AllocLocked
<1>3. PtrCurrent'
    BY DEF GetPtr, Goto, LaunchInv, LaunchTypes, PtrCurrent
<1>4. KernelsReportToHost'
    BY DEF GetPtr, LaunchInv, KernelsReportToHost
<1>5. EntriesGenuine'
    BY EntriesKept DEF GetPtr
<1> QED BY <1>1, <1>2, <1>3, <1>4, <1>5, ReportKept DEF GetPtr, LaunchInv

\* A thread that found none looks again under the lock.
LEMMA LockInv ==
    ASSUME LaunchAssumption, LaunchInv, NEW t \in Threads, Lock(t)
    PROVE  LaunchInv'
<1>1. LaunchTypes'
    BY DEF Lock, Recheck, Goto, LaunchInv, LaunchTypes, Pointers
<1>2. AllocLocked'
    BY DEF Lock, Recheck, Goto, LaunchInv, LaunchTypes, AllocLocked, LaunchAssumption
<1>3. PtrCurrent'
    BY DEF Lock, Recheck, Goto, LaunchInv, LaunchTypes, PtrCurrent
<1>4. KernelsReportToHost'
    BY DEF Lock, LaunchInv, KernelsReportToHost
<1>5. EntriesGenuine'
    BY EntriesKept DEF Lock
<1> QED BY <1>1, <1>2, <1>3, <1>4, <1>5, ReportKept DEF Lock, LaunchInv

\* A new buffer is known to its thread only.
LEMMA AllocInv ==
    ASSUME LaunchAssumption, LaunchInv, NEW t \in Threads, Alloc(t)
    PROVE  LaunchInv'
<1> DEFINE n == Len(buffers) + 1
<1>0. /\ n \in Nat /\ None # n /\ buffers' = Append(buffers, DeviceAssertionsData)
      /\ Len(buffers') = n
      /\ DeviceAssertionsData \in DeviceAssertions /\ buffers' \in Seq(DeviceAssertions)
      /\ \A b \in 1..Len(buffers) : buffers'[b] = buffers[b]
      /\ buffers'[n] = DeviceAssertionsData /\ Pointers' = 1..n
    BY DEF LaunchAssumption, LaunchInv, LaunchTypes, DeviceAssertionsData, DeviceAssertions,
       Entries, Empty, Alloc, Pointers
<1>1. LaunchTypes'
    BY <1>0 DEF Alloc, Goto, LaunchInv, LaunchTypes, Pointers
<1>2. AllocLocked'
    BY <1>0 DEF Alloc, Goto, LaunchInv, LaunchTypes, AllocLocked
<1>3. PtrCurrent'
    BY DEF Alloc, Goto, LaunchInv, LaunchTypes, PtrCurrent
<1>4. KernelsReportToHost'
    BY DEF Alloc, LaunchInv, KernelsReportToHost
<1>5. EntriesGenuine'
    <2>0. UNCHANGED <<generation_number, kernel_launches, kernels>>
        BY DEF Alloc
    <2>1. ASSUME NEW k \in kernels' PROVE KernelRight(k)'
      <3>1. k.buf \in 1..Len(buffers)
        BY <2>0 DEF LaunchInv, LaunchTypes, KernelsReportToHost, Kernels, LaunchAssumption, Pointers
      <3> QED BY <1>0, <2>0, <3>1 DEF LaunchInv, EntriesGenuine, KernelRight
    <2>2. ASSUME NEW b \in Pointers', NEW i \in 1..AssertionCount
          PROVE  EntryRight(buffers[b].entries[i], b, i, buffers[b].count)'
      <3>1. CASE b = n
        BY <1>0, <3>1 DEF EntryRight, DeviceAssertionsData, Empty, LaunchAssumption
      <3>2. CASE b \in 1..Len(buffers)
        BY <1>0, <2>0, <3>2 DEF EntryRight, LaunchInv, EntriesGenuine, Pointers
      <3> QED BY <1>0, <3>1, <3>2
    <2> QED BY <2>1, <2>2 DEF EntriesGenuine
<1> QED BY <1>1, <1>2, <1>3, <1>4, <1>5, ReportKept DEF Alloc, LaunchInv

\* An allocation that fails leaves no trace.
LEMMA AllocFailsInv ==
    ASSUME LaunchAssumption, LaunchInv, NEW t \in Threads, AllocFails(t)
    PROVE  LaunchInv'
<1>1. LaunchTypes'
    BY DEF AllocFails, Goto, LaunchInv, LaunchTypes, Pointers
<1>2. AllocLocked'
    BY DEF AllocFails, Goto, LaunchInv, LaunchTypes, AllocLocked
<1>3. PtrCurrent'
    BY DEF AllocFails, Goto, LaunchInv, LaunchTypes, PtrCurrent
<1>4. KernelsReportToHost'
    BY DEF AllocFails, LaunchInv, KernelsReportToHost
<1>5. EntriesGenuine'
    BY EntriesKept DEF AllocFails
<1> QED BY <1>1, <1>2, <1>3, <1>4, <1>5, ReportKept DEF AllocFails, LaunchInv

\* The new buffer becomes the one of the device, which had none: no kernel runs
\* there yet that reports elsewhere.
LEMMA ResetInv ==
    ASSUME LaunchAssumption, LaunchInv, NEW t \in Threads, Reset(t)
    PROVE  LaunchInv'
<1>1. LaunchTypes'
    BY DEF Reset, Goto, LaunchInv, LaunchTypes, Pointers
<1>2. AllocLocked'
    BY DEF Reset, Goto, LaunchInv, LaunchTypes, AllocLocked
<1>3. PtrCurrent'
    BY DEF Reset, Goto, LaunchInv, LaunchTypes, PtrCurrent, AllocLocked
<1>4. KernelsReportToHost'
    BY DEF Reset, LaunchInv, KernelsReportToHost, AllocLocked, LaunchTypes, Kernels,
       LaunchAssumption
<1>5. EntriesGenuine'
    BY EntriesKept DEF Reset
<1> QED BY <1>1, <1>2, <1>3, <1>4, <1>5, ReportKept DEF Reset, LaunchInv

\* A later launch may take the slot of an earlier one, but only with a larger
\* number, so what is known of an entry stays true.
LEMMA GenuineKept ==
    ASSUME LaunchAssumption, NEW n \in Nat, NEW ring \in [0..max_kernel_launches - 1 -> Nat],
           NEW e, Genuine(e, n, ring)
    PROVE  /\ Genuine(e, n + 1, ring)
           /\ Genuine(e, n + 1, [ring EXCEPT ![n % max_kernel_launches] = n])
<1>1. e.truth \in Nat /\ e.truth % max_kernel_launches \in 0..max_kernel_launches - 1
    BY DEF LaunchAssumption, Genuine
<1> QED BY <1>1 DEF Genuine, Inserted

\* A launch is entered and its kernel runs with the buffer of the device.
LEMMA insertInv ==
    ASSUME LaunchAssumption, LaunchInv, NEW t \in Threads, insert(t)
    PROVE  LaunchInv'
<1> DEFINE g == generation_number
           s == g % max_kernel_launches
           kn == [device |-> dev[t], buf |-> ptr[t], caller |-> Caller(g), truth |-> g, slot |-> 0]
<1>0. g \in Nat /\ s \in 0..max_kernel_launches - 1 /\ Caller(g) \in Nat
  <2>1. g \in Nat
    BY DEF LaunchInv, LaunchTypes
  <2>2. s \in 0..max_kernel_launches - 1
    BY <2>1 DEF LaunchAssumption
  <2> QED BY <2>1, <2>2, CallerSlot
<1>1. CASE ~enabled_at_runtime
  <2>0. UNCHANGED <<generation_number, kernel_launches, kernels>>
      BY <1>1 DEF insert
  <2>1. LaunchTypes'
      BY <2>0 DEF insert, Goto, LaunchInv, LaunchTypes, Pointers
  <2>2. AllocLocked'
      BY DEF insert, Goto, LaunchInv, LaunchTypes, AllocLocked
  <2>3. PtrCurrent'
      BY <1>1 DEF PtrCurrent
  <2>4. KernelsReportToHost'
      BY <2>0 DEF insert, LaunchInv, KernelsReportToHost
  <2>5. EntriesGenuine'
      BY <2>0, EntriesKept DEF insert
  <2> QED BY <2>1, <2>2, <2>3, <2>4, <2>5, ReportKept DEF insert, LaunchInv
<1>2. CASE enabled_at_runtime
  <2>0. /\ generation_number' = g + 1 /\ kernel_launches' = [kernel_launches EXCEPT ![s] = g]
        /\ kernels' = kernels \cup {kn}
      BY <1>2 DEF insert, Launch
  <2>a. ptr[t] \in Nat /\ ptr[t] = uvm_assertions[dev[t]] /\ dev[t] \in Devices
      BY <1>2 DEF insert, LaunchInv, PtrCurrent, LaunchTypes, Pointers
  <2>b. kn \in Kernels
      BY <1>0, <2>a DEF Kernels
  <2>c. kn.device = dev[t] /\ kn.buf = ptr[t] /\ kn.caller = Caller(g) /\ kn.truth = g
        /\ kn.slot = 0
      OBVIOUS
  <2> HIDE DEF kn
  <2>1. LaunchTypes'
    <3>1. kernel_launches' \in [0..max_kernel_launches - 1 -> Nat] /\ generation_number' \in Nat
        BY <1>0, <2>0 DEF LaunchInv, LaunchTypes
    <3>2. kernels' \in SUBSET Kernels
        BY <2>0, <2>b DEF LaunchInv, LaunchTypes
    <3> QED BY <3>1, <3>2 DEF insert, Goto, LaunchInv, LaunchTypes, Pointers
  <2>2. AllocLocked'
      BY DEF insert, Goto, LaunchInv, LaunchTypes, AllocLocked
  <2>3. PtrCurrent'
      BY DEF insert, Goto, LaunchInv, LaunchTypes, PtrCurrent
  <2>4. KernelsReportToHost'
      BY <2>0, <2>a, <2>c DEF insert, LaunchInv, KernelsReportToHost
  <2>5. EntriesGenuine'
    <3>1. ASSUME NEW e, Genuine(e, generation_number, kernel_launches)
          PROVE  Genuine(e, generation_number', kernel_launches')
        BY <1>0, <2>0, <3>1, GenuineKept DEF LaunchInv, LaunchTypes
    <3>2. Genuine(kn, generation_number', kernel_launches')
      <4>1. kernel_launches'[g % max_kernel_launches] = g
        BY <1>0, <2>0 DEF LaunchInv, LaunchTypes
      <4> QED BY <1>0, <2>0, <2>c, <4>1 DEF Genuine, Inserted
    <3>3. buffers' = buffers
        BY DEF insert
    <3>4. kn.buf \in Pointers
        BY <1>2, <2>c DEF insert, LaunchInv, PtrCurrent, LaunchTypes
    <3>5. buffers[kn.buf].count \in Nat
        BY <3>4, CountTyped
    <3>6. \A k : k = kn => KernelRight(k)'
        BY <2>c, <3>2, <3>3, <3>5 DEF KernelRight, LaunchAssumption
    <3> QED BY <2>0, <3>1, <3>3, <3>6, EntriesStay
  <2> QED BY <2>1, <2>2, <2>3, <2>4, <2>5, ReportKept DEF insert, LaunchInv
<1> QED BY <1>1, <1>2

\* A number that no launch uses does no harm.
LEMMA insert_failsInv ==
    ASSUME LaunchAssumption, LaunchInv, NEW t \in Threads, insert_fails(t)
    PROVE  LaunchInv'
<1>1. LaunchTypes'
    BY DEF insert_fails, Goto, LaunchInv, LaunchTypes, Pointers
<1>2. AllocLocked'
    BY DEF insert_fails, Goto, LaunchInv, LaunchTypes, AllocLocked
<1>3. PtrCurrent'
    BY DEF insert_fails, Goto, LaunchInv, LaunchTypes, PtrCurrent
<1>4. KernelsReportToHost'
    BY DEF insert_fails, LaunchInv, KernelsReportToHost
<1>5. EntriesGenuine'
  <2>1. ASSUME NEW e, Genuine(e, generation_number, kernel_launches)
        PROVE  Genuine(e, generation_number', kernel_launches')
      BY <2>1, GenuineKept DEF LaunchInv, LaunchTypes, insert_fails
  <2> QED BY <2>1, EntriesStay DEF insert_fails
<1> QED BY <1>1, <1>2, <1>3, <1>4, <1>5, ReportKept DEF insert_fails, LaunchInv

\* A thread changes its device only between launches.
LEMMA SetDeviceInv ==
    ASSUME LaunchAssumption, LaunchInv, NEW t \in Threads, SetDevice(t)
    PROVE  LaunchInv'
<1>1. LaunchTypes'
    BY DEF SetDevice, LaunchInv, LaunchTypes, Pointers
<1>2. AllocLocked'
    BY DEF SetDevice, LaunchInv, LaunchTypes, AllocLocked
<1>3. PtrCurrent'
    BY DEF SetDevice, LaunchInv, LaunchTypes, PtrCurrent
<1>4. KernelsReportToHost'
    BY DEF SetDevice, LaunchInv, KernelsReportToHost
<1>5. EntriesGenuine'
    BY EntriesKept DEF SetDevice
<1> QED BY <1>1, <1>2, <1>3, <1>4, <1>5, ReportKept DEF SetDevice, LaunchInv

\* A check that finds a failure only waits.
LEMMA CheckInv ==
    ASSUME LaunchAssumption, LaunchInv, NEW t \in Threads, c10_supa_check_implementation(t)
    PROVE  LaunchInv'
<1> USE DEF c10_supa_check_implementation
<1>1. LaunchTypes'
    BY DEF Goto, LaunchInv, LaunchTypes, Pointers
<1>2. AllocLocked'
    BY DEF Goto, LaunchInv, LaunchTypes, AllocLocked
<1>3. PtrCurrent'
    BY DEF Goto, LaunchInv, LaunchTypes, PtrCurrent
<1>4. KernelsReportToHost'
    BY DEF LaunchInv, KernelsReportToHost
<1>5. EntriesGenuine'
    BY EntriesKept
<1> QED BY <1>1, <1>2, <1>3, <1>4, <1>5, ReportKept DEF LaunchInv

\* A kernel ends.
LEMMA KernelEndsInv ==
    ASSUME LaunchAssumption, LaunchInv, NEW k \in kernels, KernelEnds(k)
    PROVE  LaunchInv'
<1> USE DEF KernelEnds
<1>1. LaunchTypes'
    BY DEF LaunchInv, LaunchTypes, Pointers
<1>2. AllocLocked' /\ PtrCurrent' /\ KernelsReportToHost'
    BY DEF LaunchInv, AllocLocked, PtrCurrent, KernelsReportToHost
<1>5. EntriesGenuine'
    BY EntriesKept
<1> QED BY <1>1, <1>2, <1>5, ReportKept DEF LaunchInv

\* Buffers are only written inside.
LEMMA KernelWritesInv ==
    ASSUME LaunchAssumption, LaunchInv, NEW k \in kernels, KernelWrites(k)
    PROVE  LaunchInv'
<1> DEFINE B == buffers[k.buf]
           n == [B EXCEPT !.entries[k.slot] = Entry(k)]
           u == [k EXCEPT !.slot = 0]
<1>0. k \in Kernels
    BY DEF LaunchInv, LaunchTypes
<1>1. u \in Kernels /\ u.device = k.device /\ u.buf = k.buf /\ u.caller = k.caller
      /\ u.truth = k.truth
    BY <1>0 DEF Kernels
<1>2. Entry(k) \in Entries
    BY <1>0 DEF Entry, Entries, Kernels
<1>3. k.buf \in Pointers /\ B \in DeviceAssertions
    BY <1>0 DEF LaunchInv, LaunchTypes, KernelsReportToHost, Kernels, LaunchAssumption, Pointers
<1>4. n \in DeviceAssertions
    BY <1>2, <1>3 DEF DeviceAssertions
<1>5. buffers' = [buffers EXCEPT ![k.buf] = n]
    BY DEF KernelWrites
<1>6. kernels' = (kernels \ {k}) \cup {u}
    BY DEF KernelWrites
<1> HIDE DEF u, n
<1>7. buffers' \in Seq(DeviceAssertions) /\ Len(buffers') = Len(buffers) /\ Pointers' = Pointers
    BY <1>3, <1>4, <1>5 DEF LaunchInv, LaunchTypes, Pointers
<1>8. LaunchTypes'
    BY <1>1, <1>6, <1>7 DEF LaunchInv, LaunchTypes, KernelWrites
<1>9. AllocLocked' /\ PtrCurrent'
    BY DEF LaunchInv, AllocLocked, PtrCurrent, KernelWrites
<1>10. KernelsReportToHost'
    BY <1>1, <1>6 DEF LaunchInv, KernelsReportToHost, KernelWrites
<1>11. EntriesGenuine'
  <2>0. UNCHANGED <<generation_number, kernel_launches>> /\ k.slot # 0
    BY DEF KernelWrites
  <2>1. KernelRight(k) /\ k.slot \in 1..AssertionCount /\ k.slot <= B.count
    BY <1>0, <2>0 DEF LaunchInv, EntriesGenuine, KernelRight, LaunchAssumption, Kernels
  <2>2. \A b \in Pointers : buffers'[b].count = buffers[b].count
    <3>1. n.count = B.count
      BY <1>3 DEF n, DeviceAssertions
    <3> QED BY <1>3, <1>5, <3>1 DEF LaunchInv, LaunchTypes, Pointers
  <2>3. \A b \in Pointers, i \in 1..AssertionCount :
           buffers'[b].entries[i] = IF b = k.buf /\ i = k.slot THEN Entry(k)
                                    ELSE buffers[b].entries[i]
    <3>1. \A i \in 1..AssertionCount :
             n.entries[i] = IF i = k.slot THEN Entry(k) ELSE B.entries[i]
      BY <1>3 DEF n, DeviceAssertions
    <3> QED BY <1>3, <1>5, <3>1 DEF LaunchInv, LaunchTypes, Pointers
  <2>4. ASSUME NEW j \in kernels' PROVE KernelRight(j)'
    <3>1. j \in kernels => j.buf \in Pointers
      BY DEF LaunchInv, LaunchTypes, KernelsReportToHost, Kernels, LaunchAssumption, Pointers
    <3>2. CASE j \in kernels
      BY <2>0, <2>2, <3>1, <3>2 DEF LaunchInv, EntriesGenuine, KernelRight
    <3>3. CASE j = u
      <4>1. u.slot = 0 /\ B.count \in Nat
        BY <1>0, <1>3 DEF u, Kernels, DeviceAssertions
      <4>2. Genuine(u, generation_number, kernel_launches)
        BY <1>1, <2>1 DEF KernelRight, Genuine
      <4> QED BY <1>1, <1>3, <2>0, <2>2, <3>3, <4>1, <4>2 DEF KernelRight, LaunchAssumption
    <3> QED BY <1>6, <3>2, <3>3
  <2>5. ASSUME NEW b \in Pointers', NEW i \in 1..AssertionCount
        PROVE  EntryRight(buffers[b].entries[i], b, i, buffers[b].count)'
    <3>1. EntryRight(buffers[b].entries[i], b, i, buffers[b].count)
      BY <1>7 DEF LaunchInv, EntriesGenuine
    <3>2. CASE b = k.buf /\ i = k.slot
      <4>1. Genuine(Entry(k), generation_number, kernel_launches)
        BY <2>1 DEF KernelRight, Genuine, Entry
      <4> QED BY <1>7, <2>0, <2>1, <2>2, <2>3, <3>2, <4>1 DEF EntryRight
    <3>3. CASE ~(b = k.buf /\ i = k.slot)
      <4>1. \A j \in kernels : j.buf = b /\ j.slot = i => j \in kernels'
        BY <1>6, <3>3
      <4>2. buffers'[b].entries[i] = buffers[b].entries[i]
            /\ buffers'[b].count = buffers[b].count
        BY <1>7, <2>2, <2>3, <3>3
      <4> QED BY <2>0, <3>1, <4>1, <4>2 DEF EntryRight
    <3> QED BY <3>2, <3>3
  <2> QED BY <2>4, <2>5 DEF EntriesGenuine
<1> QED BY <1>8, <1>9, <1>10, <1>11, ReportKept DEF LaunchInv, KernelWrites

\* An assertion fails: one more entry, of that kernel, or none when they are used up.
LEMMA KernelFailsInv ==
    ASSUME LaunchAssumption, LaunchInv, NEW k \in kernels, KernelFails(k)
    PROVE  LaunchInv'
<1> DEFINE B == buffers[k.buf]
           c == B.count + 1
           n == [B EXCEPT !.count = c]
           u == [k EXCEPT !.slot = c]
<1>0. k \in Kernels
    BY DEF LaunchInv, LaunchTypes
<1>1. k.buf \in Pointers /\ B \in DeviceAssertions /\ c \in Nat \ {0} /\ B.count \in Nat
  <2>1. k.buf \in Pointers
    BY <1>0 DEF LaunchInv, LaunchTypes, KernelsReportToHost, Kernels, LaunchAssumption, Pointers
  <2>2. B \in DeviceAssertions
    BY <2>1 DEF LaunchInv, LaunchTypes, Pointers
  <2>3. c \in Nat \ {0} /\ B.count \in Nat
    BY <2>2 DEF DeviceAssertions
  <2> QED BY <2>1, <2>2, <2>3
<1>2. u \in Kernels /\ u.device = k.device /\ u.buf = k.buf /\ u.caller = k.caller
      /\ u.truth = k.truth /\ u.slot = c
    BY <1>0, <1>1 DEF Kernels
<1>3. n \in DeviceAssertions /\ n.count = c /\ n.entries = B.entries
    BY <1>1 DEF DeviceAssertions
<1>4. /\ buffers' = [buffers EXCEPT ![k.buf] = n]
      /\ UNCHANGED <<generation_number, kernel_launches>> /\ k.slot = 0
    BY DEF KernelFails, Raise
<1>5. kernels' = IF c <= AssertionCount THEN (kernels \ {k}) \cup {u} ELSE kernels
    BY DEF KernelFails, Raise
<1> HIDE DEF u, n
<1>6. buffers' \in Seq(DeviceAssertions) /\ Len(buffers') = Len(buffers) /\ Pointers' = Pointers
    BY <1>1, <1>3, <1>4 DEF LaunchInv, LaunchTypes, Pointers
<1>7. LaunchTypes'
  <2>1. kernels' \in SUBSET Kernels
    BY <1>2, <1>5 DEF LaunchInv, LaunchTypes
  <2> QED BY <1>6, <2>1 DEF LaunchInv, LaunchTypes, KernelFails
<1>8. AllocLocked' /\ PtrCurrent'
    BY DEF LaunchInv, AllocLocked, PtrCurrent, KernelFails
<1>9. KernelsReportToHost'
    BY <1>2, <1>5 DEF LaunchInv, KernelsReportToHost, KernelFails
<1>10. \A b \in Pointers : /\ buffers'[b].entries = buffers[b].entries
                           /\ buffers'[b].count = IF b = k.buf THEN c ELSE buffers[b].count
    BY <1>1, <1>3, <1>4 DEF LaunchInv, LaunchTypes, Pointers
<1>11. \A b \in Pointers : buffers[b].count \in Nat
    BY CountTyped
<1>12. EntriesGenuine'
  <2>1. ASSUME NEW j \in kernels' PROVE KernelRight(j)'
    <3>1. CASE j \in kernels
      <4>1. j.buf \in Pointers /\ KernelRight(j) /\ j.slot \in Nat
        BY <3>1 DEF LaunchInv, LaunchTypes, KernelsReportToHost, Kernels, LaunchAssumption,
           Pointers, EntriesGenuine
      <4>2. j.slot <= buffers'[j.buf].count
        BY <1>1, <1>10, <1>11, <4>1 DEF KernelRight
      <4> QED BY <1>4, <4>1, <4>2 DEF KernelRight
    <3>2. CASE j = u /\ c <= AssertionCount
      <4>1. Genuine(u, generation_number, kernel_launches)
        BY <1>2 DEF LaunchInv, EntriesGenuine, KernelRight, Genuine
      <4>2. buffers'[u.buf].count = c
        BY <1>1, <1>2, <1>10
      <4> QED BY <1>1, <1>2, <1>4, <3>2, <4>1, <4>2 DEF KernelRight
    <3> QED BY <1>5, <3>1, <3>2
  <2>2. ASSUME NEW b \in Pointers', NEW i \in 1..AssertionCount
        PROVE  EntryRight(buffers[b].entries[i], b, i, buffers[b].count)'
    <3>1. EntryRight(buffers[b].entries[i], b, i, buffers[b].count) /\ b \in Pointers
      BY <1>6 DEF LaunchInv, EntriesGenuine
    <3>2. \A j \in kernels : j.slot = i => j \in kernels'
      BY <1>4, <1>5
    <3>3. buffers'[b].entries[i] = buffers[b].entries[i]
      BY <1>10, <3>1
    <3>4. CASE b = k.buf /\ i = c
      <4>1. u \in kernels' /\ ~(i <= buffers[b].count) /\ buffers'[b].count = c
        BY <1>1, <1>5, <1>10, <3>1, <3>4
      <4>2. buffers[b].entries[i].truth = None
        BY <3>1, <4>1 DEF EntryRight
      <4> QED BY <1>2, <3>3, <3>4, <4>1, <4>2 DEF EntryRight
    <3>5. CASE ~(b = k.buf /\ i = c)
      <4>1. (i <= buffers'[b].count) <=> (i <= buffers[b].count)
        BY <1>1, <1>10, <1>11, <3>1, <3>5
      <4> QED BY <1>4, <3>1, <3>2, <3>3, <4>1 DEF EntryRight
    <3> QED BY <3>4, <3>5
  <2> QED BY <2>1, <2>2 DEF EntriesGenuine
<1> QED BY <1>7, <1>8, <1>9, <1>12, ReportKept DEF LaunchInv, KernelFails

\* The report: an entry is described by the launch in its slot only when the
\* numbers are equal, and then it is that launch.
LEMMA RetrieveInv ==
    ASSUME LaunchAssumption, LaunchInv, NEW t \in Threads,
           c10_retrieve_device_side_assertion_info(t)
    PROVE  LaunchInv'
<1> USE DEF c10_retrieve_device_side_assertion_info
<1>1. LaunchTypes'
    BY DEF Goto, LaunchInv, LaunchTypes, Pointers
<1>2. AllocLocked'
    BY DEF Goto, LaunchInv, LaunchTypes, AllocLocked
<1>3. PtrCurrent'
    BY DEF Goto, LaunchInv, LaunchTypes, PtrCurrent
<1>4. KernelsReportToHost'
    BY DEF LaunchInv, KernelsReportToHost
<1>5. EntriesGenuine'
    BY EntriesKept
<1>6. LaunchesNamedRight'
  <2>1. ASSUME NEW e, NEW cnt, Genuine(e, generation_number, kernel_launches)
        PROVE  /\ Described(e, cnt).truth # None
               /\ Described(e, cnt).launch # None => Described(e, cnt).launch = Described(e, cnt).truth
    <3>1. e.truth \in Nat /\ e.caller = Caller(e.truth)
          /\ e.truth <= kernel_launches[e.truth % max_kernel_launches]
      BY <2>1 DEF Genuine, Inserted
    <3>2. e.caller % max_kernel_launches = e.truth % max_kernel_launches
          /\ e.caller <= e.truth /\ e.caller \in Nat
      BY <3>1, CallerSlot
    <3>3. e.truth # None
      BY <3>1 DEF LaunchAssumption
    <3> QED BY <3>1, <3>2, <3>3 DEF Described, Available
  <2> DEFINE R == UNION {{Described(buffers[uvm_assertions[d]].entries[i],
                                    Counted(t, uvm_assertions[d], i)) :
                            i \in 1..failures_found(uvm_assertions[d])} :
                        d \in {x \in Devices : uvm_assertions[x] # None}}
  <2>2. report' = R
    OBVIOUS
  <2>3. ASSUME NEW r \in R
        PROVE  (r.counted => r.truth # None) /\ (r.truth # None /\ r.launch # None => r.launch = r.truth)
    <3>0. PICK d \in Devices :
             /\ uvm_assertions[d] # None
             /\ \E i \in 1..failures_found(uvm_assertions[d]) :
                   r = Described(buffers[uvm_assertions[d]].entries[i],
                                 Counted(t, uvm_assertions[d], i))
      OBVIOUS
    <3>1. PICK i \in 1..failures_found(uvm_assertions[d]) :
             r = Described(buffers[uvm_assertions[d]].entries[i],
                           Counted(t, uvm_assertions[d], i))
      BY <3>0
    <3> DEFINE b == uvm_assertions[d]
               e == buffers[b].entries[i]
    <3>2. b \in Pointers /\ buffers[b].count \in Nat
      <4>1. b \in Pointers
        BY <3>0 DEF LaunchInv, LaunchTypes
      <4> QED BY <4>1, CountTyped
    <3>3. i \in 1..AssertionCount /\ i <= buffers[b].count
      BY <3>2 DEF failures_found, Min2, LaunchAssumption
    <3>4. EntryRight(e, b, i, buffers[b].count)
      BY <3>2, <3>3 DEF LaunchInv, EntriesGenuine
    <3>5. r = Described(e, Counted(t, b, i))
      BY <3>1
    <3> HIDE DEF b, e
    <3>6. CASE Genuine(e, generation_number, kernel_launches)
      BY <2>1, <3>5, <3>6
    <3>7. CASE e.truth = None /\ \E k \in kernels : k.buf = b /\ k.slot = i
      <4>1. ~Counted(t, b, i)
        BY <3>3, <3>7 DEF PauseOver
      <4> QED BY <3>5, <3>7, <4>1 DEF Described
    <3> QED BY <3>3, <3>4, <3>6, <3>7 DEF EntryRight
  <2>4. \A r \in Failures' : r \in R
    BY <2>2 DEF Failures
  <2> HIDE DEF R
  <2> QED BY <2>3, <2>4 DEF LaunchesNamedRight
<1> QED BY <1>1, <1>2, <1>3, <1>4, <1>5, <1>6 DEF LaunchInv

\* Every step keeps the invariant.
LEMMA LaunchInvNext ==
    ASSUME LaunchAssumption, LaunchInv, [Next]_vars
    PROVE  LaunchInv'
<1>1. CASE UNCHANGED vars
  <2>1. LaunchTypes' /\ AllocLocked' /\ PtrCurrent' /\ KernelsReportToHost'
    BY <1>1 DEF vars, LaunchInv, LaunchTypes, AllocLocked, PtrCurrent, KernelsReportToHost, Pointers
  <2> QED BY <1>1, <2>1, EntriesKept, ReportKept DEF vars, LaunchInv
<1>2. ASSUME NEW t \in Threads,
             \/ GetPtr(t) \/ Lock(t) \/ Alloc(t) \/ AllocFails(t) \/ Reset(t)
             \/ insert(t) \/ insert_fails(t) \/ SetDevice(t)
             \/ c10_supa_check_implementation(t)
             \/ c10_retrieve_device_side_assertion_info(t)
      PROVE  LaunchInv'
    BY <1>2, GetPtrInv, LockInv, AllocInv, AllocFailsInv, ResetInv, insertInv, insert_failsInv,
       SetDeviceInv, CheckInv, RetrieveInv
<1>3. ASSUME NEW k \in kernels, KernelFails(k) \/ KernelWrites(k) \/ KernelEnds(k)
      PROVE  LaunchInv'
    BY <1>3, KernelFailsInv, KernelWritesInv, KernelEndsInv
<1> QED BY <1>1, <1>2, <1>3 DEF Next

\* A report is right about every failure it counted when its pause began, and
\* the launch it names for any written entry is the one whose assertion failed,
\* however often ring and numbers have wrapped; the buffer that a kernel writes
\* to is the one the host reads (insert, get_uvm_assertions_ptr_for_current_device,
\* c10_retrieve_device_side_assertion_info).
THEOREM LaunchesReportedCorrect ==
    LaunchAssumption => (Spec => [](KernelsReportToHost /\ LaunchesNamedRight))
<1> SUFFICES ASSUME LaunchAssumption
             PROVE  Spec => [](KernelsReportToHost /\ LaunchesNamedRight)
    OBVIOUS
<1>1. Init => LaunchInv
    BY LaunchInvInit
<1>2. LaunchInv /\ [Next]_vars => LaunchInv'
    BY LaunchInvNext
<1>3. LaunchInv => KernelsReportToHost /\ LaunchesNamedRight
    BY DEF LaunchInv
<1> QED BY <1>1, <1>2, <1>3, PTL DEF Spec
=============================================================================
