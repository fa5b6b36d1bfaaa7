------------------------------ MODULE LogRing ------------------------------
(* The asynchronous logger: BaseRingBuffer::push and pop                     *)
(* (utils/logger/RingBuffer.h), one atomic operation per step, under         *)
(* AsyncLogger (utils/logger/DefaultLogger.cpp): any thread logs, one thread *)
(* pops until the destructor sets stop_.                                     *)
EXTENDS Naturals, Sequences, FiniteSets, SequencesExt

CONSTANTS Producers,    \* threads that log
          N,            \* buffer_length_
          MaxLogs,      \* messages per thread
          Paced         \* the threads log only while the ring has room: what a long queue is for
RingAssumption == N \in Nat \ {0} /\ MaxLogs \in Nat /\ Paced \in BOOLEAN

VARIABLES head, tail, buffer,
          push,       \* thread -> [pc, tail, next, head]: the locals of push
          pop,        \* [pc, head, tail, item]: the locals of pop and of the log thread
          logged,     \* the messages whose push returned, in that order
          written,    \* what reached real_logger_
          stop,       \* stop_
          overlapped  \* history: the messages pushed since two pushes first met
vars == <<head, tail, buffer, push, pop, logged, written, stop, overlapped>>

Idle == [pc |-> "idle", tail |-> 0, next |-> 0, head |-> 0, n |-> 0]
None == <<>>
After(i) == (i + 1) % N
Init ==
    /\ head = 0 /\ tail = 0
    /\ buffer = [i \in 0..N - 1 |-> None]
    /\ push = [p \in Producers |-> Idle]
    /\ pop = [pc |-> "idle", head |-> 0, tail |-> 0, item |-> None]
    /\ logged = <<>> /\ written = <<>> /\ stop = FALSE /\ overlapped = {}

-----------------------------------------------------------------------------
(* The threads that log.                                                     *)

Waiting == {(head + k) % N : k \in 0..((tail + N - head) % N) - 1}     \* the slots of the queue

Pushing == {q \in Producers : push[q].pc # "idle"}

\* AsyncLogger::log enters push: the tail is loaded.
LoadTail(p) ==
    /\ push[p].pc = "idle" /\ push[p].n < MaxLogs
    /\ Paced => Cardinality(Waiting) + Cardinality(Pushing) < N - 1
    /\ push' = [push EXCEPT ![p] = [@ EXCEPT !.pc = "head", !.tail = tail,
                                            !.next = After(tail), !.n = @ + 1]]
    /\ overlapped' = IF Pushing = {} /\ overlapped = {} THEN {}
                     ELSE overlapped \cup {<<q, push'[q].n>> : q \in Pushing \cup {p}}
    /\ UNCHANGED <<head, tail, buffer, pop, logged, written, stop>>

LoadHead(p) ==
    /\ push[p].pc = "head"
    /\ push' = [push EXCEPT ![p].head = head,
                            ![p].pc = IF push[p].next = head THEN "force" ELSE "write"]
    /\ UNCHANGED <<head, tail, buffer, pop, logged, written, stop, overlapped>>

\* A full ring: the head is moved over the oldest message, unless another thread did so. The
\* new head (nextTail + 1) is that of the first attempt.
ForceHead(p) ==
    LET newHead == After(push[p].next) IN
    /\ push[p].pc = "force"
    /\ IF head = push[p].head
         THEN head' = newHead /\ push' = [push EXCEPT ![p].pc = "write"]
         ELSE /\ push' = [push EXCEPT ![p].head = head,
                                      ![p].pc = IF head = newHead THEN "write" ELSE @]
              /\ UNCHANGED head
    /\ UNCHANGED <<tail, buffer, pop, logged, written, stop, overlapped>>

WriteSlot(p) ==
    /\ push[p].pc = "write"
    /\ buffer' = [buffer EXCEPT ![push[p].tail] = <<p, push[p].n>>]
    /\ push' = [push EXCEPT ![p].pc = "tail"]
    /\ UNCHANGED <<head, tail, pop, logged, written, stop, overlapped>>

\* A failed exchange refreshes currentTail, while nextTail stays what the first load gave.
MoveTail_Unpublished(p) ==
    /\ push[p].pc = "tail"
    /\ push' = [push EXCEPT ![p] = [Idle EXCEPT !.n = push[p].n]]
    /\ tail' = IF tail = push[p].tail /\ push[p].n % 2 = 1 THEN push[p].next ELSE tail
    /\ logged' = Append(logged, <<p, push[p].n>>)
    /\ UNCHANGED <<head, buffer, pop, written, stop, overlapped>>
MoveTail(p) ==
    /\ push[p].pc = "tail"
    /\ IF tail = push[p].tail
         THEN /\ tail' = push[p].next
              /\ push' = [push EXCEPT ![p] = [Idle EXCEPT !.n = push[p].n]]
              /\ logged' = Append(logged, <<p, push[p].n>>)
         ELSE push' = [push EXCEPT ![p].tail = tail] /\ UNCHANGED <<tail, logged>>
    /\ UNCHANGED <<head, buffer, pop, written, stop, overlapped>>

-----------------------------------------------------------------------------
(* The log thread.                                                           *)

\* while (!stop_): pop loads the head.
PopHead ==
    /\ pop.pc = "idle" /\ ~stop
    /\ pop' = [pop EXCEPT !.pc = "tail", !.head = head]
    /\ UNCHANGED <<head, tail, buffer, push, logged, written, stop, overlapped>>

\* An empty ring: the thread yields and starts again.
PopTail ==
    /\ pop.pc = "tail"
    /\ pop' = [pop EXCEPT !.tail = tail, !.pc = IF pop.head = tail THEN "idle" ELSE "read"]
    /\ UNCHANGED <<head, tail, buffer, push, logged, written, stop, overlapped>>

\* The message is copied before the slot is taken.
PopRead ==
    /\ pop.pc = "read"
    /\ pop' = [pop EXCEPT !.pc = "move", !.item = buffer[pop.head]]
    /\ UNCHANGED <<head, tail, buffer, push, logged, written, stop, overlapped>>

\* The retry keeps newHead: a head that a producer moved twice goes back.
PopMove ==
    LET newHead == IF pop.pc = "move" THEN After(pop.head) ELSE pop.tail IN
    /\ pop.pc \in {"move", "again"}
    /\ IF head = pop.head
         THEN head' = newHead /\ pop' = [pop EXCEPT !.pc = "log"]
         ELSE pop' = [pop EXCEPT !.pc = "again", !.head = head, !.tail = newHead] /\ UNCHANGED head
    /\ UNCHANGED <<tail, buffer, push, logged, written, stop, overlapped>>

\* real_logger_.log.
WriteLog ==
    /\ pop.pc = "log"
    /\ written' = Append(written, pop.item)
    /\ pop' = [pc |-> "idle", head |-> 0, tail |-> 0, item |-> None]
    /\ UNCHANGED <<head, tail, buffer, push, logged, stop, overlapped>>

\* ~AsyncLogger: stop_ is set, and the thread is joined; what is in the ring stays there.
Destroy ==
    /\ ~stop /\ \A p \in Producers : push[p].pc = "idle"
    /\ stop' = TRUE
    /\ UNCHANGED <<head, tail, buffer, push, pop, logged, written, overlapped>>

Log(p) ==
    \/ LoadTail(p) \/ LoadHead(p) \/ ForceHead(p) \/ WriteSlot(p) \/ MoveTail(p)
Pop == PopHead \/ PopTail \/ PopRead \/ PopMove \/ WriteLog
Next == (\E p \in Producers : Log(p)) \/ Pop \/ Destroy
Spec == Init /\ [][Next]_vars /\ WF_vars(Pop) /\ \A p \in Producers : WF_vars(Log(p))

-----------------------------------------------------------------------------
InFlight == IF pop.pc \in {"move", "again", "log"} THEN {pop.item} ELSE {}
Queued == {buffer[i] : i \in Waiting}

\* A message whose push returned is in the queue, in the hands of the log thread or in the log
\* ("The tail has been changed by another producer, retry", RingBuffer.h:55).
Present(m) == m \in ToSet(written) \cup Queued \cup InFlight
NoMessageLost == \A i \in 1..Len(logged) : Present(logged[i])

\* What holds of it: a message is lost only when two pushes overlapped before its own returned. From
\* then on one may take the slot of the other, and the tail that a retry stores may be an older one.
LostOnlyOverlapped == \A i \in 1..Len(logged) : logged[i] \notin overlapped => Present(logged[i])

\* A thread that overruns the ring loses the oldest messages ("Force write by moving the head
\* forward", RingBuffer.h:39): the newest one is never among the lost ones.
NewestKept == logged # <<>> => Present(Last(logged))

\* The log has the messages of one thread in the order in which it logged them, each
\* once, and no slot that was never written.
LogInOrder ==
    /\ None \notin ToSet(written)
    /\ \A i, j \in 1..Len(written) :
         i < j /\ written[i][1] = written[j][1] => written[i][2] < written[j][2]

\* What holds of it: so it is until two pushes overlap.
InOrderUntilOverlap == overlapped = {} => LogInOrder

\* The background thread writes what was queued ("由后台线程写入文件",
\* docs/user_guide/source/chapter06_torch_supa_envconfig.rst:219) unless the logger is destroyed.
Pushed(p, k) == <<p, k>> \in ToSet(logged)
Reached(p, k) == <<p, k>> \in ToSet(written)
EventuallyWritten == \A p \in Producers, k \in 1..MaxLogs : Pushed(p, k) ~> (Reached(p, k) \/ stop)
Backlog == ~stop /\ ToSet(logged) # ToSet(written)

\* A thread that logs never waits for another one: its push returns, also when the ring is full
\* and others move both ends of it.
InPush(p) == push[p].pc # "idle"

\* EventuallyWritten without its escape: a process that exits has its messages in the file.
ExitWrites == \A p \in Producers, k \in 1..MaxLogs : Pushed(p, k) ~> Reached(p, k)
=============================================================================
