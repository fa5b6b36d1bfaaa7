------------------------------- MODULE SupaIPC -------------------------------
(* Memory shared with other processes.  The producer puts a storage behind a *)
(* SupaIPCSentData, whose counter lies in a file of shared memory and is     *)
(* lowered by the process that received it; data dropped too early waits in  *)
(* the limbo.  Sharing runs under the Python lock, but only its first part   *)
(* holds ref_counters_mutex_; dropping storages and collecting, which every  *)
(* allocation may do, run in any thread.                                      *)
EXTENDS Integers, SequencesExt

CONSTANTS
    Threads, Consumers, Blocks,
    FileSize,     \* SUPA_IPC_REF_COUNTER_FILE_SIZE
    MaxEvents,    \* SUPA_IPC_MAXIMUM_EVENTS_TO_USE
    MaxSent,      \* bound: how often storages are shared
    MayDie,       \* whether a consumer may die and the producer may exit
    MayFail       \* whether calls of the driver may fail

IPCAssumption ==
    /\ {FileSize, MaxSent} \subseteq Nat \ {0} /\ MaxEvents \in Nat
    /\ {MayDie, MayFail} \subseteq BOOLEAN

NoFile == 0

VARIABLES
    storage,    \* of a block: "free", "held" by Python, or "dropped"
    stale,      \* SentData whose memory was freed
    chain,      \* the SentData around a block's memory, innermost first
    sent,       \* every SentData made: file, block, event
    counter,    \* the shared counters
    files,      \* next_offset_ and used_slots_ of every file made
    ref_counters_files_, next_available_ref_counters_file_,
    limbo, sync_events_used_,
    leaked,     \* history: events counted for a SentData that was never made
    alive, crashed,
    pc, local,  \* of a producer thread: the blocks it resets, the slots it read
    queue,      \* messages not received: consumer and SentData
    open,       \* storages of consumers, by the SentData they will release
    closing     \* storages of consumers whose deleter runs

refs == <<files, ref_counters_files_, next_available_ref_counters_file_>>
memory == <<storage, stale, chain>>
events == <<sync_events_used_, leaked>>
threads == <<pc, local>>
remote == <<queue, open, closing>>
vars == <<memory, sent, counter, refs, limbo, events, alive, crashed, threads, remote>>

Init ==
    /\ storage = [b \in Blocks |-> "free"] /\ stale = {}
    /\ chain = [b \in Blocks |-> <<>>]
    /\ sent = <<>> /\ counter = <<>> /\ files = <<>>
    /\ ref_counters_files_ = {} /\ next_available_ref_counters_file_ = NoFile
    /\ limbo = {} /\ sync_events_used_ = 0 /\ leaked = 0
    /\ alive = TRUE /\ crashed = FALSE
    /\ pc = [t \in Threads |-> "idle"]
    /\ local = [t \in Threads |-> [blocks |-> {}, to |-> 0, slots |-> 0]]
    /\ queue = {} /\ open = {} /\ closing = {}

At(t, l) == alive /\ ~crashed /\ pc[t] = l
Goto(t, l) == pc' = [pc EXCEPT ![t] = l]
have_offsets(f) == files[f].next_offset < FileSize
Mapped(f) == f \in ref_counters_files_ \/ f = next_available_ref_counters_file_
LiveSent == UNION {Range(chain[b]) : b \in Blocks}

\* external: Python allocates a tensor
malloc(b) ==
    /\ alive /\ ~crashed /\ storage[b] = "free"
    /\ storage' = [storage EXCEPT ![b] = "held"]
    /\ UNCHANGED <<stale, chain, sent, counter, refs, limbo, events, alive, crashed, threads,
                   remote>>

-----------------------------------------------------------------------------
\* shareSupa, GetNewRefCountedSentData: the part under the mutex
shareSupa(t, b, c) ==
    /\ At(t, "idle") /\ storage[b] = "held" /\ Len(sent) < MaxSent
    /\ \A u \in Threads : pc[u] \notin {"share", "rotate", "rotated"}
    /\ Goto(t, "share") /\ local' = [local EXCEPT ![t].blocks = {b}, ![t].to = c]
    /\ IF next_available_ref_counters_file_ = NoFile
       THEN /\ files' = Append(files, [next_offset |-> 0, used_slots |-> 0])
            /\ next_available_ref_counters_file_' = Len(files) + 1
            /\ ref_counters_files_' = ref_counters_files_ \union {Len(files) + 1}
       ELSE UNCHANGED refs
    /\ UNCHANGED <<memory, sent, counter, limbo, events, alive, crashed, remote>>

\* A null next_available_ref_counters_file_ is dereferenced, or a counter is
\* read after its file was unmapped.
BadAccess(t) ==
    /\ alive /\ ~crashed /\ crashed' = TRUE
    /\ \/ /\ pc[t] \in {"share", "rotate", "rotated"}
          /\ next_available_ref_counters_file_ = NoFile
       \/ /\ pc[t] = "collecting"
          /\ \E b \in limbo : ~Mapped(sent[Last(chain[b])].file)
    /\ UNCHANGED <<memory, sent, counter, refs, limbo, events, alive, threads, remote>>

UseEvent == sync_events_used_ < MaxEvents

\* set_counter and the constructor of SupaIPCSentData.  The producer drops no
\* reference to a storage it is sharing.
NewSentData(t) ==
    /\ At(t, "share") /\ next_available_ref_counters_file_ # NoFile /\ Goto(t, "rotate")
    /\ LET b == CHOOSE x \in local[t].blocks : TRUE
           event == UseEvent
       IN /\ sent' = Append(sent, [file |-> next_available_ref_counters_file_, block |-> b,
                                   event |-> event])
          /\ counter' = Append(counter, 1)
          /\ chain' = [chain EXCEPT ![b] = Append(@, Len(sent) + 1)]
          /\ sync_events_used_' = sync_events_used_ + (IF event THEN 1 ELSE 0)
    /\ UNCHANGED <<storage, stale, local, refs, limbo, alive, crashed, remote, leaked>>

\* supaEventCreateWithFlags or supaEventRecord fails in the constructor: the
\* event stays counted, as no destructor runs, and the slot is used again.
NewSentDataFails(t) ==
    /\ MayFail /\ UseEvent
    /\ At(t, "share") /\ next_available_ref_counters_file_ # NoFile /\ Goto(t, "idle")
    /\ sync_events_used_' = sync_events_used_ + 1 /\ leaked' = leaked + 1
    /\ UNCHANGED <<memory, sent, counter, refs, limbo, alive, crashed, local, remote>>

\* rotate_offset, without the mutex: next_offset_++ and the read of used_slots_
rotate_offset(t) ==
    /\ At(t, "rotate") /\ next_available_ref_counters_file_ # NoFile /\ Goto(t, "rotated")
    /\ files' = [files EXCEPT ![next_available_ref_counters_file_].next_offset = @ + 1]
    /\ local' = [local EXCEPT ![t].slots = files[next_available_ref_counters_file_].used_slots]
    /\ UNCHANGED <<memory, sent, counter, ref_counters_files_, next_available_ref_counters_file_,
                   limbo, events, alive, crashed, remote>>

\* The write of used_slots_.  A return_offset of another thread since the read
\* is a race: either update, or none, may be lost.  Then the file is given up
\* when it is full, and the message goes out.
ShareDone(t) ==
    LET f == next_available_ref_counters_file_
        now == files[f].used_slots
    IN
    /\ At(t, "rotated") /\ f # NoFile /\ Goto(t, "idle")
    /\ \E slots \in {now + 1} \union (IF now = local[t].slots THEN {}
                                     ELSE {now, local[t].slots + 1}) :
          files' = [files EXCEPT ![f].used_slots = slots]
    /\ next_available_ref_counters_file_' = IF have_offsets(f) THEN f ELSE NoFile
    /\ queue' = queue \union {<<local[t].to, Len(sent)>>}
    /\ UNCHANGED <<memory, sent, counter, ref_counters_files_, local, limbo, events,
                   alive, crashed, open, closing>>

-----------------------------------------------------------------------------

\* A file leaves the map when its last slot is returned and it has no offset
\* left; used_slots_ is unsigned but only compared with zero.
ReturnRefCounter(gone) ==
    LET left(f) == files[f].used_slots - Cardinality({s \in gone : sent[s].file = f})
        returned == {sent[s].file : s \in gone} \intersect ref_counters_files_
    IN /\ files' = [f \in DOMAIN files |->
                      IF f \in returned THEN [files[f] EXCEPT !.used_slots = left(f)] ELSE files[f]]
       /\ ref_counters_files_' =
             ref_counters_files_ \ {f \in returned : left(f) = 0 /\ ~have_offsets(f)}

\* What the deleters of SentData ss leave: they nest, and the first with a
\* counter above zero keeps what it wraps.
Kept(ss) == SubSeq(ss, 1, Max({0} \union {i \in DOMAIN ss : counter[ss[i]] > 0}))

\* Deletes the DataPtrs of the blocks in bs down to left[b]: the destructor
\* ~SupaIPCSentData destroys the event and the memory it wraps.
DeleteData(bs, left) ==
    LET gone == UNION {Range(chain[b]) \ Range(left[b]) : b \in bs}
        free == {b \in bs : left[b] = <<>>}
    IN /\ ReturnRefCounter(gone)
       /\ chain' = [b \in Blocks |-> IF b \in bs THEN left[b] ELSE chain[b]]
       /\ storage' = [b \in Blocks |-> CASE b \in free -> "free" [] b \in bs \ free -> "dropped"
                                         [] OTHER -> storage[b]]
       /\ stale' = stale \union {s \in DOMAIN sent : sent[s].block \in free}
       /\ sync_events_used_' = sync_events_used_ - Cardinality({s \in gone : sent[s].event})
       /\ UNCHANGED next_available_ref_counters_file_

\* Mutant: whatever the counter says
collect_All == limbo

\* Blocks collect takes from the limbo
collect == {b \in limbo : counter[Last(chain[b])] = 0}

\* Python drops a storage: SupaIPCSentDataDelete, which collects at its end.
SupaIPCSentDataDelete(t, b) ==
    /\ At(t, "idle") /\ storage[b] = "held"
    /\ \A u \in Threads : pc[u] \in {"share", "rotate", "rotated"} => b \notin local[u].blocks
    /\ DeleteData({b}, [x \in {b} |-> Kept(chain[b])]) /\ Goto(t, "deleting")
    /\ limbo' = (limbo \ collect) \union (IF Kept(chain[b]) = <<>> THEN {} ELSE {b})
    /\ local' = [local EXCEPT ![t].blocks = collect]
    /\ UNCHANGED <<sent, counter, alive, crashed, remote, leaked>>

\* SupaIPCCollect, the free memory callback: collect empties the limbo of what
\* is released ...
SupaIPCCollect(t) ==
    /\ At(t, "idle") /\ Goto(t, "collecting")
    /\ limbo' = limbo \ collect
    /\ local' = [local EXCEPT ![t].blocks = collect]
    /\ UNCHANGED <<memory, sent, counter, refs, events, alive, crashed, remote>>

\* ... and resets it after the critical section; what is nested in it may have
\* to wait in the limbo again.
BackToLimbo_Forgotten(left) == {}

BackToLimbo(left) == {b \in DOMAIN left : left[b] # <<>>}

ResetBlocks(t) ==
    /\ \/ At(t, "deleting") /\ Goto(t, "idle")
       \/ At(t, "collecting") /\ Goto(t, "cleaning")
    /\ LET left == [b \in local[t].blocks |-> Kept(Front(chain[b]))]
       IN DeleteData(local[t].blocks, left) /\ limbo' = limbo \union BackToLimbo(left)
    /\ local' = [local EXCEPT ![t].blocks = {}]
    /\ UNCHANGED <<sent, counter, alive, crashed, remote, leaked>>

\* Then an unused current file is dropped if the limbo is empty.
safe_clean_current_file(t) ==
    LET f == next_available_ref_counters_file_
        unused == limbo = {} /\ f # NoFile /\ files[f].used_slots = 0
    IN
    /\ At(t, "cleaning") /\ Goto(t, "idle")
    /\ ref_counters_files_' = IF unused THEN ref_counters_files_ \ {f} ELSE ref_counters_files_
    /\ next_available_ref_counters_file_' = IF unused THEN NoFile ELSE f
    /\ UNCHANGED <<memory, sent, counter, files, limbo, events, alive, crashed, local, remote>>

\* The producer ends: ~SupaIPCGlobalEntities; its files disappear.
ProducerExit ==
    /\ MayDie /\ alive /\ alive' = FALSE
    /\ UNCHANGED <<memory, sent, counter, refs, limbo, events, crashed, threads, remote>>

-----------------------------------------------------------------------------
\* The file is opened by name; when that fails nothing is lowered.
LowerCounter(s) ==
    counter' = IF alive /\ ~crashed /\ Mapped(sent[s].file)
               THEN [counter EXCEPT ![s] = @ - 1] ELSE counter

\* rebuild_supa_tensor: a storage the process still has is used again, and the
\* counter of the message is released at once.
releaseIPCCounter(c, s) ==
    /\ <<c, s>> \in queue /\ queue' = queue \ {<<c, s>>}
    /\ \E o \in open : o[1] = c /\ sent[o[2]].block = sent[s].block
    /\ LowerCounter(s)
    /\ UNCHANGED <<memory, sent, refs, limbo, events, alive, crashed, threads, open, closing>>

newSharedSupa(c, s) ==
    /\ <<c, s>> \in queue /\ queue' = queue \ {<<c, s>>}
    /\ ~\E o \in open : o[1] = c /\ sent[o[2]].block = sent[s].block
    /\ open' = IF alive /\ ~crashed THEN open \union {<<c, s>>} ELSE open
    /\ UNCHANGED <<memory, sent, counter, refs, limbo, events, alive, crashed, threads, closing>>

\* The deleter of a received storage: it gives up the memory and waits for the
\* stream ...
ReceivedDelete(c, s) ==
    /\ <<c, s>> \in open /\ open' = open \ {<<c, s>>} /\ closing' = closing \union {<<c, s>>}
    /\ UNCHANGED <<memory, sent, counter, refs, limbo, events, alive, crashed, threads, queue>>

\* ... and then lowers the counter.
ReceivedRelease(c, s) ==
    /\ <<c, s>> \in closing /\ closing' = closing \ {<<c, s>>}
    /\ LowerCounter(s)
    /\ UNCHANGED <<memory, sent, refs, limbo, events, alive, crashed, threads, queue, open>>

\* A consumer dies with all it has; its messages are never received.
ConsumerDies(c) ==
    /\ MayDie
    /\ queue' = {m \in queue : m[1] # c}
    /\ open' = {m \in open : m[1] # c} /\ closing' = {m \in closing : m[1] # c}
    /\ UNCHANGED <<memory, sent, counter, refs, limbo, events, alive, crashed, threads>>

Producer(t) ==
    \/ \E b \in Blocks : SupaIPCSentDataDelete(t, b) \/ \E c \in Consumers : shareSupa(t, b, c)
    \/ NewSentData(t) \/ NewSentDataFails(t) \/ rotate_offset(t) \/ ShareDone(t) \/ BadAccess(t)
    \/ SupaIPCCollect(t) \/ ResetBlocks(t) \/ safe_clean_current_file(t)

Consumer(c) ==
    \E s \in DOMAIN sent : \/ releaseIPCCounter(c, s) \/ newSharedSupa(c, s)
                           \/ ReceivedDelete(c, s) \/ ReceivedRelease(c, s)

Next ==
    \/ \E b \in Blocks : malloc(b)
    \/ \E t \in Threads : Producer(t)
    \/ ProducerExit
    \/ \E c \in Consumers : Consumer(c) \/ ConsumerDies(c)

\* A process runs on, consumers drop what they receive, and the producer goes
\* on allocating, which collects.
Fairness ==
    /\ \A t \in Threads :
          WF_vars(SupaIPCCollect(t) \/ ResetBlocks(t) \/ safe_clean_current_file(t)
                  \/ NewSentData(t) \/ NewSentDataFails(t) \/ rotate_offset(t) \/ ShareDone(t))
    /\ \A c \in Consumers : WF_vars(Consumer(c))

Spec == Init /\ [][Next]_vars /\ Fairness
Symmetry == Permutations(Threads) \union Permutations(Consumers) \union Permutations(Blocks)

-----------------------------------------------------------------------------
\* The memory a consumer has, or is about to receive, is still the memory that
\* was shared with it: not freed, and not freed and allocated again (collect,
\* SupaIPCSentDataDelete, and the storage cache of the consumer).
SharedMemoryKept ==
    alive /\ ~crashed =>
       \A m \in open \union queue : m[2] \notin stale

\* Every SentData that exists has its counter in a file that is mapped, and a
\* thread that shares has a file (counter_ptr_, "Reference counter shared
\* memory block").
CounterMapped ==
    /\ ~crashed
    /\ \A s \in LiveSent : Mapped(sent[s].file)

\* The events in use are those of the existing SentData, and those of a
\* constructor that failed, and stay below the limit of the driver.
EventsBounded ==
    /\ sync_events_used_ = Cardinality({s \in LiveSent : sent[s].event}) + leaked
    /\ sync_events_used_ <= MaxEvents

\* Memory that was dropped comes back once the consumers have released it,
\* whatever order the releases and the collections come in.
Dropped(b) == storage[b] = "dropped"
Free(b) == storage[b] = "free"
DroppedMemoryFreed == \A b \in Blocks : Dropped(b) ~> Free(b)

=============================================================================
