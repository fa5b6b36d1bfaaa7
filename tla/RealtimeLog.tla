---------------------------- MODULE RealtimeLog ----------------------------
(* The realtime logger (utils/logger/RealtimeLogger.cpp) over the ring in    *)
(* shared memory (RingBuffer.h): messages are queued under a spin lock, one  *)
(* thread cuts each into slots of k_msg_size bytes, and the destructor or a  *)
(* signal handler, which takes no lock, writes the ring to a file, where the *)
(* slots are put together again.                                             *)
EXTENDS Naturals, Sequences, FiniteSets, SequencesExt

CONSTANTS MaxLogs,      \* messages logged
          MaxSlots,     \* slots that the longest message takes
          N,            \* buffer_length_
          DigitCuts,    \* a message may have a digit where it is cut
          Signals,      \* a signal may end the process
          Paced         \* messages are logged only while the ring has room for them
RealtimeAssumption == N > MaxSlots /\ MaxSlots \in Nat /\ MaxLogs \in Nat

VARIABLES msgs,      \* log_msgs_: the messages <<id, slots>> that wait
          work,      \* what is left of the message the thread is writing: <<>> or its slots
          sizes,     \* id -> number of slots, of every message logged
          head, tail, buffer,
          dump,      \* the reader: [pc, i, tail, cur, file]; cur and file hold slots
          stop, ended
vars == <<msgs, work, sizes, head, tail, buffer, dump, stop, ended>>

After(i) == (i + 1) % N
NoSlot == [id |-> 0, k |-> 0]
Init ==
    /\ msgs = <<>> /\ work = <<>> /\ sizes = <<>>
    /\ head = 0 /\ tail = 0 /\ buffer = [i \in 0..N - 1 |-> NoSlot]
    /\ dump = [pc |-> "none", i |-> 0, tail |-> 0, cur |-> <<>>, file |-> <<>>]
    /\ stop = FALSE /\ ended = FALSE

Used == (tail + N - head) % N
Pending == FoldLeft(LAMBDA n, m : n + m.slots, 0, msgs) + Len(work)

\* RealtimeLogger::log. The thread holds the lock while it writes a message.
log(slots) ==
    /\ ~stop /\ ~ended /\ Len(sizes) < MaxLogs
    /\ work = <<>>
    /\ Paced => Used + Pending + slots < N
    /\ sizes' = Append(sizes, slots)
    /\ msgs' = Append(msgs, [id |-> Len(sizes) + 1, slots |-> slots])
    /\ UNCHANGED <<work, head, tail, buffer, dump, stop, ended>>

\* _log_impl cuts the first message: slot 1 starts with the index. (The thread erases the
\* message after the last slot, under the same lock.)
Cut(m) == [k \in 1..m.slots |-> [id |-> m.id, k |-> k]]
Take ==
    /\ ~stop /\ ~ended /\ work = <<>> /\ msgs # <<>>
    /\ work' = Cut(Head(msgs))
    /\ msgs' = Tail(msgs)
    /\ UNCHANGED <<sizes, head, tail, buffer, dump, stop, ended>>

\* push of one slot: a full ring gives up its oldest slot first.
Force ==
    /\ ~ended /\ work # <<>> /\ After(tail) = head
    /\ head' = After(head)
    /\ UNCHANGED <<msgs, work, sizes, tail, buffer, dump, stop, ended>>

\* The slot is written before the tail makes it visible.
Write ==
    /\ ~ended /\ work # <<>> /\ After(tail) # head /\ buffer[tail] # Head(work)
    /\ buffer' = [buffer EXCEPT ![tail] = Head(work)]
    /\ UNCHANGED <<msgs, work, sizes, head, tail, dump, stop, ended>>
Publish ==
    /\ ~ended /\ work # <<>> /\ After(tail) # head /\ buffer[tail] = Head(work)
    /\ tail' = After(tail) /\ work' = Tail(work)
    /\ UNCHANGED <<msgs, sizes, head, buffer, dump, stop, ended>>

\* ~RealtimeLogger: the thread is joined, whatever still waits.
Destroy ==
    /\ ~stop /\ ~ended /\ dump.pc = "none"
    /\ stop' = TRUE
    /\ UNCHANGED <<msgs, work, sizes, head, tail, buffer, dump, ended>>

\* flushLogsToDisk, of the destructor or of the handler of a signal that arrives at any time.
dumpBegin ==
    /\ dump.pc = "none" /\ ~ended
    /\ Signals \/ stop
    /\ stop => work = <<>>
    /\ dump' = [dump EXCEPT !.pc = "head", !.i = head]
    /\ UNCHANGED <<msgs, work, sizes, head, tail, buffer, stop, ended>>
dumpTail ==
    /\ dump.pc = "head"
    /\ dump' = [dump EXCEPT !.pc = "slots", !.tail = tail]
    /\ UNCHANGED <<msgs, work, sizes, head, tail, buffer, stop, ended>>

\* The callback: a slot that starts with a digit begins a new log.
StartsWithDigit(s) == s.k = 1 \/ (DigitCuts /\ s.k = 2)
Flushed(file, cur) == IF cur = <<>> THEN file ELSE Append(file, cur)
dumpSlot ==
    LET s == buffer[dump.i] IN
    /\ dump.pc = "slots" /\ dump.i # dump.tail
    /\ dump' = [dump EXCEPT !.i = After(@),
                            !.file = IF StartsWithDigit(s) THEN Flushed(@, dump.cur) ELSE @,
                            !.cur = IF StartsWithDigit(s) THEN <<s>> ELSE Append(@, s)]
    /\ UNCHANGED <<msgs, work, sizes, head, tail, buffer, stop, ended>>

\* The file is closed; the destructor unmaps, the handler raises the signal again.
dumpEnd ==
    /\ dump.pc = "slots" /\ dump.i = dump.tail
    /\ dump' = [dump EXCEPT !.pc = "done", !.file = Flushed(@, dump.cur), !.cur = <<>>]
    /\ ended' = TRUE
    /\ UNCHANGED <<msgs, work, sizes, head, tail, buffer, stop>>

Thread == Take \/ Force \/ Write \/ Publish
Next ==
    \/ \E n \in 1..MaxSlots : log(n)
    \/ Thread \/ Destroy \/ dumpBegin \/ dumpTail \/ dumpSlot \/ dumpEnd
Spec == Init /\ [][Next]_vars

-----------------------------------------------------------------------------
Whole(entry) == Len(entry) = sizes[entry[1].id]
OneMessage(entry) == \A k \in 1..Len(entry) : entry[k] = [id |-> entry[1].id, k |-> entry[1].k + k - 1]

\* Each log of the file is one message, with its slots in order, and the logs are in the order in
\* which the messages were logged ("check if it is new log (start with index)",
\* RealtimeLogger.cpp:137). Only the first may have lost its beginning to the ring.
FileHasLogs == dump.pc = "done" =>
    /\ \A e \in 1..Len(dump.file) : OneMessage(dump.file[e]) /\ (e > 1 => dump.file[e][1].k = 1)
    /\ \A e, f \in 1..Len(dump.file) : e < f => dump.file[e][1].id < dump.file[f][1].id

\* The messages of the file are those that were written, up to the last: none in the middle is
\* missing, and each but the last is whole.
FileContiguous == dump.pc = "done" =>
    \A e \in 1..Len(dump.file) - 1 :
        dump.file[e + 1][1].id = dump.file[e][1].id + 1 /\ (Paced => Whole(dump.file[e]))

\* What holds of both, wherever messages have digits: the slots of the file are those of the
\* messages in order, none in the middle is missing, and a log begins with its message or with a
\* digit.
FileHasSlots == dump.pc = "done" =>
    LET slots == FlattenSeq(dump.file)
        Follows(s, t) == \/ t = [s EXCEPT !.k = @ + 1]
                         \/ /\ t = [id |-> s.id + 1, k |-> 1]
                            /\ Paced => s.k = sizes[s.id]
    IN /\ \A i \in 1..Len(slots) - 1 : Follows(slots[i], slots[i + 1])
       /\ \A e \in 2..Len(dump.file) : StartsWithDigit(dump.file[e][1])

\* The destructor saves what was logged ("save logs to disk", RealtimeLogger.cpp:76).
ExitSaves == stop /\ dump.pc = "done" =>
    \A m \in 1..Len(sizes) : \E e \in 1..Len(dump.file) : dump.file[e][1].id = m
=============================================================================
