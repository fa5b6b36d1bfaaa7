------------------------------- MODULE EventTree -------------------------------
(***************************************************************************)
(* RecordQueue::getRecords (collection.cpp) makes a tree of the events of  *)
(* all threads: build_tree replays them in the order of their start, with  *)
(* one stack per thread and a queue of ends.  With adjust_timestamps it    *)
(* builds the tree, stretches and moves the events so that they fit into   *)
(* each other, and builds the tree again.                                  *)
(*                                                                         *)
(* Events are numbered in the order of their start; equal starts keep the  *)
(* order in which the events were collected.                               *)
(***************************************************************************)
EXTENDS Integers, Sequences, FiniteSets, SequencesExt

CONSTANTS N,          \* number of events
          Threads,    \* numbers greater than 0; 0 stands for no thread
          Fwd,        \* forward threads an event may name, 0 for none
          MaxTime,    \* starts and ends are at most this
          MayLackEnd, \* events may have no end (still running, or lost)
          Adjust,     \* config_.experimental_config.adjust_timestamps
          IntMod      \* values of an int, the type std::accumulate adds in

NoEnd == -1
Events == 1..N
Spans == {s \in [tid : Threads, fwd : Fwd, start : 0..MaxTime, end : NoEnd..MaxTime] :
            \/ s.end >= s.start
            \/ s.end = NoEnd /\ MayLackEnd}

VARIABLES ev,        \* event -> its span
          order,     \* the sorted events
          next,      \* position in order
          stacks,    \* thread -> innermost open event, 0 for none
          endq,      \* end_events_
          finished, parent,
          children,  \* event -> sequence of events
          phase,     \* "first", "adjust", "build", "done"
          failed,    \* an assertion or a lookup failed
          tree       \* ghost: the first tree
vars == <<ev, order, next, stacks, endq, finished, parent, children, phase, failed, tree>>

NoParents == [e \in Events |-> 0]
NoChildren == [e \in Events |-> <<>>]

Sorted(spans) ==
    SetToSortSeq(Events, LAMBDA a, b : \/ spans[a].start < spans[b].start
                                       \/ (spans[a].start = spans[b].start /\ a < b))

Init == /\ ev \in {f \in [Events -> Spans] : \A e \in 1..(N - 1) : f[e].start <= f[e + 1].start}
        /\ order = Sorted(ev)
        /\ next = 1 /\ endq = {} /\ finished = {} /\ failed = FALSE
        /\ stacks = [t \in Threads |-> 0]
        /\ parent = NoParents /\ children = NoChildren /\ tree = NoParents
        /\ phase = IF Adjust THEN "first" ELSE "build"

Building == phase \in {"first", "build"} /\ ~failed

-----------------------------------------------------------------------------
(* build_tree                                                              *)

\* The event that an event is put under: the innermost open one of its thread,
\* or of the thread of its forward pass.
ParentOf(e) ==
    IF stacks[ev[e].tid] # 0 THEN stacks[ev[e].tid]
    ELSE IF ev[e].fwd # 0 THEN stacks[ev[e].fwd] ELSE 0

\* An event with a duration, or without an end, goes on its thread's stack.
Opens(e) == ev[e].end > ev[e].start \/ ev[e].end = NoEnd

Due(x, e) == ev[x].end < ev[e].start

push_event ==
    LET e == order[next] IN
    /\ Building /\ next <= N
    /\ \A x \in endq : ~Due(x, e)
    /\ failed' = (parent[e] # 0 \/ e \in finished)
    /\ parent' = [parent EXCEPT ![e] = ParentOf(e)]
    /\ children' = IF ParentOf(e) = 0 THEN children
                   ELSE [children EXCEPT ![ParentOf(e)] = Append(@, e)]
    /\ stacks' = IF Opens(e) THEN [stacks EXCEPT ![ev[e].tid] = e] ELSE stacks
    /\ endq' = IF ev[e].end > ev[e].start THEN endq \cup {e} ELSE endq
    /\ finished' = IF Opens(e) THEN finished ELSE finished \cup {e}
    /\ next' = next + 1
    /\ UNCHANGED <<ev, order, phase, tree>>

RECURSIVE Ancestors(_)
Ancestors(e) == IF e = 0 THEN {} ELSE {e} \cup Ancestors(parent[e])

\* The frames above e on its thread's stack are closed with it.
Above(e) == {x \in Ancestors(stacks[ev[e].tid]) : x # e /\ e \in Ancestors(x)}

Restored(e) == parent[e]

pop_event(e) ==
    IF e \in finished
    THEN UNCHANGED <<finished, stacks, failed>>
    ELSE /\ failed' = (e \notin Ancestors(stacks[ev[e].tid]) \/ Above(e) \cap finished # {})
         /\ finished' = finished \cup Above(e) \cup {e}
         /\ stacks' = [stacks EXCEPT ![ev[e].tid] = Restored(e)]

\* Which one of several equal ends is on top is not determined.
PopEnded ==
    /\ Building
    /\ \E e \in endq :
         /\ \A x \in endq : ev[e].end <= ev[x].end
         /\ next <= N => Due(e, order[next])
         /\ endq' = endq \ {e}
         /\ pop_event(e)
    /\ UNCHANGED <<ev, order, next, parent, children, phase, tree>>

Built ==
    /\ Building /\ next > N /\ endq = {}
    /\ phase' = IF phase = "first" THEN "adjust" ELSE "done"
    /\ tree' = IF phase = "first" THEN parent ELSE tree
    /\ UNCHANGED <<ev, order, next, stacks, endq, finished, parent, children, failed>>

-----------------------------------------------------------------------------
(* adjust_timestamps                                                       *)

Wrap(x) == ((x + (IntMod \div 2)) % IntMod) - (IntMod \div 2)
Total(seq, d) == FoldLeft(LAMBDA acc, c : Wrap(acc + d[c]), 0, seq)
Max2(a, b) == IF a > b THEN a ELSE b

\* A parent lasts at least as long as its children together; a child comes
\* later in the order than its parent.
adjust_durations_dfs ==
    LET f[n \in 0..N] ==
            IF n = 0 THEN [e \in Events |-> 0]
            ELSE LET e == order[N + 1 - n] IN
                 [f[n - 1] EXCEPT ![e] =
                     Max2(ev[e].end - ev[e].start, Total(children[e], f[n - 1]))]
    IN f[N]

PositionIn(seq, e) == CHOOSE k \in DOMAIN seq : seq[k] = e

\* Children are lined up so that the last one ends with the parent.
StartInParent(e, starts, d) ==
    LET p == parent[e]
        before == SubSeq(children[p], 1, PositionIn(children[p], e) - 1)
    IN starts[p] + d[p] - Total(children[p], d)
         + FoldLeft(LAMBDA acc, c : acc + d[c], 0, before)

\* Roots follow each other.
RootsBefore(k) == {j \in 1..(k - 1) : parent[order[j]] = 0}
StartOfRoot(k, starts, d) ==
    LET before == RootsBefore(k)
    IN IF before = {} THEN ev[order[k]].start
       ELSE LET r == order[CHOOSE j \in before : \A i \in before : i <= j]
            IN Max2(ev[order[k]].start, starts[r] + d[r])

adjust_timestamps_dfs(d) ==
    LET f[n \in 0..N] ==
            IF n = 0 THEN [e \in Events |-> 0]
            ELSE LET e == order[n] IN
                 [f[n - 1] EXCEPT ![e] = IF parent[e] = 0 THEN StartOfRoot(n, f[n - 1], d)
                                         ELSE StartInParent(e, f[n - 1], d)]
    IN f[N]

adjust_timestamps ==
    LET d == adjust_durations_dfs
        starts == adjust_timestamps_dfs(d)
        adjusted == [e \in Events |-> [ev[e] EXCEPT !.start = starts[e], !.end = starts[e] + d[e]]]
    IN /\ phase = "adjust"
       /\ ev' = adjusted
       /\ order' = Sorted(adjusted)
       /\ next' = 1 /\ endq' = {} /\ finished' = {}
       /\ stacks' = [t \in Threads |-> 0]
       /\ parent' = NoParents /\ children' = NoChildren
       /\ phase' = "build"
       /\ UNCHANGED <<failed, tree>>

Next == push_event \/ PopEnded \/ Built \/ adjust_timestamps
Spec == Init /\ [][Next]_vars

-----------------------------------------------------------------------------
\* The assertions of build_tree and its lookups hold for every set of events:
\* an event that is popped is on its thread's stack, and nothing is finished
\* twice, also when events overlap or backward events hang on another thread.
AssertionsHold == ~failed

\* Events of a thread that are nested, the usual case of calls.
Nested(t) == \A a, b \in {e \in Events : ev[e].tid = t} : a < b =>
    \/ ev[a].end = NoEnd \/ ev[b].end = NoEnd
    \/ ev[a].end < ev[b].start \/ ev[b].end <= ev[a].end

\* Event a is still open when b starts: neither it nor an event around it has
\* ended.
OpenAt(a, b) ==
    /\ Opens(a)
    /\ \A x \in Events : x <= a /\ ev[x].tid = ev[a].tid /\ Opens(x) /\ ev[x].end # NoEnd
                         /\ ev[x].end >= ev[a].start => ev[x].end >= ev[b].start

\* On threads without links to others the tree is the nesting of the calls: an
\* event is under the last event of its thread that is open when it starts.
TreeIsNesting ==
    phase = "done" /\ ~Adjust => \A b \in Events :
        (\A e \in Events : ev[e].tid = ev[b].tid => ev[e].fwd = 0) /\ Nested(ev[b].tid) =>
            LET open == {a \in 1..(b - 1) : ev[a].tid = ev[b].tid /\ OpenAt(a, b)}
            IN parent[b] = IF open = {} THEN 0 ELSE CHOOSE a \in open : \A x \in open : x <= a

\* What adjust_timestamps promises for the tree it worked on: "Parent event
\* timelines fully contain their child timelines", "No overlaps in timelines
\* for nodes at the same depth".
Holds(a, b) == ev[a].start <= ev[b].start /\ ev[b].end <= ev[a].end
Apart(a, b) == ev[a].end <= ev[b].start \/ ev[b].end <= ev[a].start
AdjustedFits ==
    Adjust /\ phase \in {"build", "done"} => \A a, b \in Events :
        /\ tree[b] = a => Holds(a, b)
        /\ a # b /\ tree[a] = tree[b] => Apart(a, b)

\* The same for the tree that getRecords returns.
FinalTreeFits ==
    Adjust /\ phase = "done" => \A b \in Events : parent[b] # 0 => Holds(parent[b], b)
===============================================================================
