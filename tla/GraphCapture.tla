---------------------------- MODULE GraphCapture ----------------------------
(* Captured graphs and the random generators they use: SUPAGraph             *)
(* (core/supa/SUPAGraph.cpp) and SUPAGeneratorImpl                           *)
(* (aten/SUPAGeneratorImpl.cpp).  One host thread calls the API and the      *)
(* streams run what it queued.  A captured kernel reads the seed and the     *)
(* initial offset from two tensors of its generator's state when it runs;    *)
(* replay fills them and advances the generator by the increment of the      *)
(* whole graph.  Calls that throw before they change anything are left out.  *)
EXTENDS Integers, Sequences, FiniteSets, SequencesExt

CONSTANTS Impls,          \* generators: at::Generator objects on the device
          DefaultGen,     \* the default generator of the device
          Graphs, None, Streams, DefaultStream,
          default_rng_seed_val,
          Seeds, Draws,   \* seeds, and numbers a kernel asks for
          Offsets,        \* arguments of set_offset and set_state
          MaxIntra,       \* numeric_limits<uint32_t>::max()
          MaxOffset,      \* bound on the offsets reached
          MaxQueue,       \* bound on the work queued in a stream
          MaxKernels,     \* bound on the kernels of a graph
          Synchronises,   \* the host waits for the device before it changes streams
          RegistersLate,  \* generators are registered at any time, not only before a capture
          Nested,         \* captures overlap
          Faults          \* captures may fail
GraphAssumption ==
    /\ DefaultGen \in Impls /\ None \notin Graphs /\ DefaultStream \in Streams
    /\ MaxIntra \in Nat /\ MaxOffset \in Nat /\ MaxQueue \in Nat /\ MaxKernels \in Nat
    /\ {Synchronises, RegistersLate, Nested, Faults} \subseteq BOOLEAN

VARIABLES impl,     \* generator -> its state_; a state is named after the generator it was made for
          state,    \* state -> [seed, offset, intra, capturing, registered]
          tensors,  \* state -> [seed, offset]: contents of seed_extragraph_, offset_extragraph_
          high,     \* state -> numbers given out since its offset was last set (history)
          graph,    \* graph -> its members
          debug,    \* _supa_graphs_debug
          cur,      \* the current stream
          capture,  \* stream -> the graph its capture is for, or None
          queue,    \* stream -> work queued
          crossed   \* states with work in two streams since the device was idle (history)
vars == <<impl, state, tensors, high, graph, debug, cur, capture, queue, crossed>>

States == Impls
\* captured is captured_generator_states_: [state -> wholegraph_increments].
NoGraph == [captured |-> [s \in {} |-> 0], has_graph |-> FALSE, has_exec |-> FALSE,
            stream |-> DefaultStream, kernels |-> <<>>]

Init ==
    /\ impl = [i \in Impls |-> i]
    /\ state = [s \in States |-> [seed |-> default_rng_seed_val, offset |-> 0, intra |-> 0,
                                  capturing |-> FALSE, registered |-> {}]]
    /\ tensors = [s \in States |-> [seed |-> default_rng_seed_val, offset |-> 0]]
    /\ high = [s \in States |-> 0]
    /\ graph = [g \in Graphs |-> NoGraph]
    /\ debug = FALSE
    /\ cur = DefaultStream
    /\ capture = [t \in Streams |-> None]
    /\ queue = [t \in Streams |-> <<>>]
    /\ crossed = {}

\* currentStreamCaptureStatus
Capturing == capture[cur] # None
Underway == {capture[t] : t \in Streams} \ {None}

Room(n) == Len(queue[cur]) + n <= MaxQueue
Queued(t) == UNION {queue[t][k].states : k \in DOMAIN queue[t]}
Enqueue(ops) ==
    /\ queue' = [queue EXCEPT ![cur] = @ \o ops]
    /\ crossed' = crossed \cup (UNION {ops[k].states : k \in DOMAIN ops}
                                \cap UNION {Queued(t) : t \in Streams \ {cur}})
Put(f, k, v) == [x \in DOMAIN f \cup {k} |-> IF x = k THEN v ELSE f[x]]

\* seed_extragraph_.fill_ and offset_extragraph_.fill_, on the current stream.
Fill_Zero(s, offset) == [op |-> "fill", states |-> {s}, seed |-> state[s].seed, offset |-> 0,
                         kernels |-> <<>>, want |-> <<>>]
Fill(s, offset) == [op |-> "fill", states |-> {s}, seed |-> state[s].seed, offset |-> offset,
                    kernels |-> <<>>, want |-> <<>>]

-----------------------------------------------------------------------------
(* The generator.                                                            *)

RoundUp(n) == ((n + 3) \div 4) * 4

\* increase
increaseIntra(s, n) == [state EXCEPT ![s].intra = @ + RoundUp(n)]
increaseOffset(by) == [s \in States |-> IF s \in DOMAIN by
    THEN [state[s] EXCEPT !.offset = @ + RoundUp(by[s])] ELSE state[s]]

\* philox_supa_state, in a capture: the kernel keeps the offset within the graph.
drawCaptured(i, n) ==
    LET s == impl[i] IN
    /\ Capturing /\ state[s].capturing /\ state[s].intra <= MaxIntra - RoundUp(n)
    /\ Len(graph[capture[cur]].kernels) < MaxKernels
    /\ state' = increaseIntra(s, n)
    /\ graph' = [graph EXCEPT ![capture[cur]].kernels =
                    Append(@, [s |-> s, first |-> state[s].intra, n |-> n])]
    /\ UNCHANGED <<impl, tensors, high, debug, cur, capture, queue, crossed>>

\* philox_supa_state and philox_engine_inputs outside a capture.
drawEager(i, n) ==
    LET s == impl[i] IN
    /\ ~Capturing /\ ~state[s].capturing
    /\ state[s].offset + RoundUp(n) <= MaxOffset
    /\ high' = [high EXCEPT ![s] = state[s].offset + n]
    /\ state' = increaseOffset([x \in {s} |-> n])
    /\ UNCHANGED <<impl, tensors, graph, debug, cur, capture, queue, crossed>>

\* set_current_seed, seed
set_current_seed(i, seed) ==
    /\ ~Capturing
    /\ state' = [state EXCEPT ![impl[i]].seed = seed, ![impl[i]].offset = 0]
    /\ high' = [high EXCEPT ![impl[i]] = 0]
    /\ UNCHANGED <<impl, tensors, graph, debug, cur, capture, queue, crossed>>

\* set_state: the seed is set before the offset is refused.
set_state(i, seed, offset) ==
    LET o == IF offset % 4 = 0 THEN offset ELSE 0 IN
    /\ ~Capturing
    /\ state' = [state EXCEPT ![impl[i]].seed = seed, ![impl[i]].offset = o]
    /\ high' = [high EXCEPT ![impl[i]] = o]
    /\ UNCHANGED <<impl, tensors, graph, debug, cur, capture, queue, crossed>>

set_offset(i, offset) ==
    /\ ~Capturing /\ offset % 4 = 0
    /\ state' = [state EXCEPT ![impl[i]].offset = offset]
    /\ high' = [high EXCEPT ![impl[i]] = offset]
    /\ UNCHANGED <<impl, tensors, graph, debug, cur, capture, queue, crossed>>

\* graphsafe_set_state: also in a capture.
graphsafe_set_state(i, j) ==
    /\ impl[i] # impl[j]
    /\ impl' = [impl EXCEPT ![i] = impl[j]]
    /\ UNCHANGED <<state, tensors, high, graph, debug, cur, capture, queue, crossed>>

-----------------------------------------------------------------------------
(* Registration.                                                             *)

\* SUPAGeneratorImpl::register_graph: the graph knows of the state before the
\* state refuses to be registered during a capture.
register_generator_state(g, i) ==
    LET s == impl[i] IN
    /\ RegistersLate \/ (~graph[g].has_exec /\ g \notin Underway /\ ~Capturing)
    /\ graph' = [graph EXCEPT ![g].captured = Put(@, s, 0)]
    /\ state' = IF Capturing THEN state ELSE [state EXCEPT ![s].registered = @ \cup {g}]
    /\ UNCHANGED <<impl, tensors, high, debug, cur, capture, queue, crossed>>

-----------------------------------------------------------------------------
(* The graph.                                                                *)

\* capture_prologue of every state of the graph.
Prologued(gens) == [s \in States |->
    IF s \in gens THEN [state[s] EXCEPT !.capturing = TRUE, !.intra = 0] ELSE state[s]]
Fills(gens, offsets) ==
    LET order == SetToSeq(gens)
    IN  [k \in DOMAIN order |-> Fill(order[k], offsets[order[k]])]

\* capture_begin throws because the current stream is capturing already ...
capture_begin_nested(g) ==
    /\ Nested /\ Capturing /\ ~graph[g].has_exec
    /\ graph' = [graph EXCEPT ![g].captured = Put(@, impl[DefaultGen], 0)]
    /\ UNCHANGED <<impl, state, tensors, high, debug, cur, capture, queue, crossed>>

\* ... or it begins, unless the stream is the default one.
capture_begin(g) ==
    LET d == impl[DefaultGen]
        captured == Put(graph[g].captured, d, 0)
        gens == DOMAIN captured
        ok == cur # DefaultStream
    IN
    /\ ~Capturing /\ ~graph[g].has_exec /\ Room(Cardinality(gens))
    /\ Nested \/ Underway = {}
    /\ g \notin Underway
    /\ ok \/ Faults
    /\ state' = [Prologued(gens) EXCEPT ![d].registered = @ \cup {g}]
    /\ Enqueue(Fills(gens, [s \in gens |-> 0]))
    /\ graph' = [graph EXCEPT ![g].captured = captured,
                              ![g].stream = IF ok THEN cur ELSE @,
                              ![g].kernels = IF ok THEN <<>> ELSE @]
    /\ capture' = IF ok THEN [capture EXCEPT ![cur] = g] ELSE capture
    /\ UNCHANGED <<impl, tensors, high, debug, cur>>

\* supaStreamEndCapture fails, or supaGraphInstantiateWithFlags once the graph
\* is there: the generators stay in capture mode.
capture_fails(g) ==
    /\ Faults /\ capture[cur] = g
    /\ capture' = [capture EXCEPT ![cur] = None]
    /\ \E made \in {graph[g].has_graph, TRUE} : graph' = [graph EXCEPT ![g].has_graph = made]
    /\ UNCHANGED <<impl, state, tensors, high, debug, cur, queue, crossed>>

\* capture_end
capture_end(g) ==
    LET gens == DOMAIN graph[g].captured IN
    /\ capture[cur] = g
    /\ capture' = [capture EXCEPT ![cur] = None]
    /\ graph' = [graph EXCEPT ![g].has_exec = TRUE, ![g].has_graph = debug,
                              ![g].captured = [s \in gens |-> state[s].intra]]
    /\ state' = [s \in States |->
                    IF s \in gens THEN [state[s] EXCEPT !.capturing = FALSE] ELSE state[s]]
    /\ UNCHANGED <<impl, tensors, high, debug, cur, queue, crossed>>

\* replay: the prologue of every state, and the launch.  want is what the
\* kernels would be given if they were launched one by one (history).
replay(g) ==
    LET gr == graph[g]
        gens == DOMAIN gr.captured
        want == [s \in gens |-> [seed |-> state[s].seed, offset |-> state[s].offset]]
        used(s) == {gr.kernels[k].first + gr.kernels[k].n :
                        k \in {k \in DOMAIN gr.kernels : gr.kernels[k].s = s}} \cup {0}
        last(s) == CHOOSE m \in used(s) : \A u \in used(s) : u <= m
    IN
    /\ gr.has_exec /\ ~Capturing /\ Room(Cardinality(gens) + 1)
    /\ \A s \in gens : ~state[s].capturing /\ state[s].offset + gr.captured[s] <= MaxOffset
    /\ Enqueue(Append(Fills(gens, [s \in gens |-> state[s].offset]),
                      [op |-> "launch", states |-> gens, seed |-> 0, offset |-> 0,
                       kernels |-> gr.kernels, want |-> want]))
    /\ high' = [s \in States |-> IF s \in gens
          THEN IF last(s) > 0 THEN state[s].offset + last(s) ELSE high[s]
          ELSE high[s]]
    /\ state' = increaseOffset(gr.captured)
    /\ UNCHANGED <<impl, tensors, graph, debug, cur, capture>>

\* replay throws at a state in capture mode, after filling its tensors; the
\* states that come before it in the map have been advanced.
replayThrows(g) ==
    LET gr == graph[g]
        stuck == {s \in DOMAIN gr.captured : state[s].capturing}
        free == DOMAIN gr.captured \ stuck
    IN
    /\ gr.has_exec /\ ~Capturing
    /\ \E s \in stuck, done \in SUBSET free :
          /\ Room(Cardinality(done) + 1)
          /\ \A f \in done : state[f].offset + gr.captured[f] <= MaxOffset
          /\ Enqueue(Append(Fills(done, [f \in done |-> state[f].offset]), Fill(s, state[s].offset)))
          /\ state' = increaseOffset([f \in done |-> gr.captured[f]])
    /\ UNCHANGED <<impl, tensors, high, graph, debug, cur, capture>>

enable_debug_mode ==
    /\ ~debug /\ debug' = TRUE
    /\ UNCHANGED <<impl, state, tensors, high, graph, cur, capture, queue, crossed>>

debug_dump(g) ==
    /\ debug /\ graph[g].has_graph
    /\ graph' = [graph EXCEPT ![g].has_graph = FALSE]
    /\ UNCHANGED <<impl, state, tensors, high, debug, cur, capture, queue, crossed>>

\* reset: the generators stay registered.
reset(g) ==
    /\ graph[g].has_graph \/ graph[g].has_exec
    /\ graph' = [graph EXCEPT ![g].has_graph = FALSE, ![g].has_exec = FALSE]
    /\ UNCHANGED <<impl, state, tensors, high, debug, cur, capture, queue, crossed>>

\* unregister_graph
Unregistered(g) == [s \in States |-> IF s \in DOMAIN graph[g].captured
    THEN [state[s] EXCEPT !.registered = @ \ {g}] ELSE state[s]]

\* ~SUPAGraph (and a new graph takes its place)
destroy(g) ==
    /\ graph[g] # NoGraph /\ g \notin Underway
    /\ \A s \in DOMAIN graph[g].captured : g \in state[s].registered
    /\ state' = Unregistered(g)
    /\ graph' = [graph EXCEPT ![g] = NoGraph]
    /\ UNCHANGED <<impl, tensors, high, debug, cur, capture, queue, crossed>>

-----------------------------------------------------------------------------
(* Streams.                                                                  *)

setStream(t) ==
    /\ t # cur
    /\ Synchronises => \A u \in Streams : queue[u] = <<>>
    /\ cur' = t
    /\ UNCHANGED <<impl, state, tensors, high, graph, debug, capture, queue, crossed>>

\* The oldest work of a stream runs.
execute(t) ==
    /\ queue[t] # <<>>
    /\ LET w == Head(queue[t]) IN
       tensors' = IF w.op = "fill"
                  THEN [s \in States |-> IF s \in w.states
                            THEN [seed |-> w.seed, offset |-> w.offset] ELSE tensors[s]]
                  ELSE tensors
    /\ queue' = [queue EXCEPT ![t] = Tail(@)]
    /\ crossed' = IF \A u \in Streams : queue'[u] = <<>> THEN {} ELSE crossed
    /\ UNCHANGED <<impl, state, high, graph, debug, cur, capture>>

Next ==
    \/ \E i \in Impls, n \in Draws : drawCaptured(i, n) \/ drawEager(i, n)
    \/ \E i \in Impls, d \in Seeds : set_current_seed(i, d)
    \/ \E i \in Impls, d \in Seeds, o \in Offsets : set_state(i, d, o)
    \/ \E i \in Impls, o \in Offsets : set_offset(i, o)
    \/ \E i, j \in Impls : graphsafe_set_state(i, j)
    \/ \E g \in Graphs, i \in Impls : register_generator_state(g, i)
    \/ \E g \in Graphs : \/ capture_begin_nested(g) \/ capture_begin(g) \/ capture_fails(g)
                         \/ capture_end(g) \/ replay(g) \/ replayThrows(g)
                         \/ debug_dump(g) \/ reset(g) \/ destroy(g)
    \/ enable_debug_mode
    \/ \E t \in Streams : setStream(t) \/ execute(t)
Spec == Init /\ [][Next]_vars

-----------------------------------------------------------------------------
(* Properties.                                                               *)

\* When a replayed graph starts, the tensors its kernels read hold the seed and
\* the offset that eager execution would have used at the call of replay
\* (replay_prologue, PhiloxSupaState): no other replay or capture wrote to them
\* in between.  Said of the states s for which okay(s).
DrawsAsEager(okay(_)) == \A t \in Streams :
    queue[t] # <<>> /\ Head(queue[t]).op = "launch" =>
        LET w == Head(queue[t]) IN
        \A k \in DOMAIN w.kernels : LET s == w.kernels[k].s IN
            okay(s) => s \in w.states /\ tensors[s] = w.want[s]

\* "ensures graphed execution is bitwise identical to eager execution ... even if RNG
\* ops and graphs containing RNG ops are enqueued and run simultaneously on multiple
\* streams" (SUPAGeneratorImpl.h:66-69).  Broken by a replay or capture on another
\* stream, which fills the same tensors (capture_prologue, replay_prologue).
GraphedAsEager == DrawsAsEager(LAMBDA s : TRUE)

\* It holds of every state whose replays and captures, since the device was
\* last idle, were all on one stream.
GraphedAsEagerInStream == DrawsAsEager(LAMBDA s : s \notin crossed)

\* No number of a generator is given to two kernels, eager or replayed, as long
\* as nobody sets its offset: the offset is past every number in use (increase,
\* replay_prologue).
NumbersGivenOnce == \A s \in States : high[s] <= state[s].offset

\* The kernels of a graph draw disjoint numbers, from states the graph knows of,
\* and the whole graph's increment covers them (capture_prologue, capture_epilogue).
IncrementCoversKernels == \A g \in Graphs : graph[g].has_exec =>
    LET ks == graph[g].kernels IN
    \A k \in DOMAIN ks :
        /\ ks[k].s \in DOMAIN graph[g].captured
        /\ ks[k].first + ks[k].n <= graph[g].captured[ks[k].s]
        /\ \A j \in 1..k - 1 : ks[j].s = ks[k].s => ks[j].first + ks[j].n <= ks[k].first

\* A graph is registered with the states in its map and with no other: its
\* destructor does not throw and leaves no dangling pointer in a state
\* (unregister_graph, ~SUPAGraph).
RegistrationsMatch == \A g \in Graphs, s \in States :
    s \in DOMAIN graph[g].captured <=> g \in state[s].registered

=============================================================================
