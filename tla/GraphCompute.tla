---------------------------- MODULE GraphCompute ----------------------------
(* ggml_graph_compute(), as the app builds it: with OpenMP, which gives the   *)
(* calling thread a team, at times a smaller one than asked for.  The threads *)
(* of the team go through the nodes of a graph together, kept in step by the  *)
(* barrier of OpenMP, and share out the chunks of a matrix product with a     *)
(* counter, one atomic operation after the other.                             *)
(*                                                                            *)
(* whisper.cpp passes no thread pool, so that each graph has a fresh one; it  *)
(* passes no abort callback, so that a graph is never given up on the way;    *)
(* and it has no RMS norm, so that no two nodes are fused.                    *)
EXTENDS Integers, Sequences

CONSTANTS
    MaxThreads,     \* bound: threads asked for
    Nodes,          \* the graph: [op, chunks], op "matmul", "plain" or "empty"
    ChunksPerThread \* fewer chunks than this for each thread: one each instead

ASSUME ThreadsAssumption == MaxThreads \in Nat \ {0}
ASSUME NodesAssumption ==
    Nodes \in Seq([op : {"matmul", "plain", "empty"}, chunks : Nat])
ASSUME SizesAssumption == ChunksPerThread \in Nat \ {0}

Threads == 0..(MaxThreads - 1)

VARIABLES
    asked,          \* cplan->n_threads
    team,           \* size of the team, 0 when no graph is computed
    single,         \* a thread has taken the block that one thread executes
    nGraph,         \* n_graph: how many threads there are
    chunk,          \* current_chunk
    pc,
    then,           \* where a thread goes on after the barrier
    node,           \* the node a thread is at
    nth,            \* params.nth: how many threads it reckons with
    mine,           \* the chunk it computes next
    done,           \* ghost: chunks of the graph that are computed
    twice           \* ghost: one was computed again

shared == <<asked, team, single, nGraph, chunk>>
local == <<pc, then, node, nth, mine>>
ghosts == <<done, twice>>
vars == <<shared, local, ghosts>>

(* omp_get_thread_num() numbers the team from 0, the calling thread.          *)
Team == 0..(team - 1)

Goto(t, step) == pc' = [pc EXCEPT ![t] = step]

(* How many chunks the product has: a poor chunking is scrapped.              *)
Chunks(n, threads) ==
    IF Nodes[n].chunks < threads * ChunksPerThread THEN threads ELSE Nodes[n].chunks

Init ==
    /\ asked = 1 /\ team = 0 /\ single = FALSE /\ nGraph = 0 /\ chunk = 0
    /\ pc = [t \in Threads |-> "idle"] /\ then = [t \in Threads |-> "begin"]
    /\ node = [t \in Threads |-> 1]
    /\ nth = [t \in Threads |-> 0] /\ mine = [t \in Threads |-> 0]
    /\ done = {} /\ twice = FALSE

----------------------------------------------------------------------------
(* The calling thread.                                                        *)

(* mutant: as many threads start as are asked for.                            *)
CallOfAll ==
    /\ team = 0
    /\ asked' \in 1..MaxThreads
    /\ team' \in 1..asked'
    /\ single' = (asked' = 1)
    /\ nGraph' = IF asked' = 1 THEN 1 ELSE 0
    /\ pc' = [t \in Threads |-> IF t >= asked' THEN "idle"
                                ELSE IF asked' = 1 THEN "begin" ELSE "single"]
    /\ chunk' = 0 /\ done' = {}
    /\ UNCHANGED <<then, node, nth, mine, twice>>

(* A fresh pool.  One thread needs no team.                                   *)
Call ==
    /\ team = 0
    /\ asked' \in 1..MaxThreads
    /\ team' \in 1..asked'
    /\ single' = (asked' = 1)
    /\ nGraph' = IF asked' = 1 THEN 1 ELSE 0
    /\ pc' = [t \in Threads |-> IF t >= team' THEN "idle"
                                ELSE IF asked' = 1 THEN "begin" ELSE "single"]
    /\ chunk' = 0 /\ done' = {}
    /\ UNCHANGED <<then, node, nth, mine, twice>>

(* The region ends when every thread has come to its end.                     *)
Through == team > 0 /\ \A t \in Team : pc[t] = "ended"

Return ==
    /\ Through
    /\ team' = 0
    /\ pc' = [t \in Threads |-> "idle"]
    /\ UNCHANGED <<asked, single, nGraph, chunk, then, node, nth, mine, ghosts>>

----------------------------------------------------------------------------
(* OpenMP.                                                                    *)

(* "omp barrier", and the end of "omp single": no thread goes on before all   *)
(* of the team are there.                                                     *)
Barrier ==
    /\ team > 0 /\ \A t \in Team : pc[t] = "barrier"
    /\ pc' = [t \in Threads |-> IF t \in Team THEN then[t] ELSE pc[t]]
    /\ UNCHANGED <<shared, then, node, nth, mine, ghosts>>

WaitForAll(t, step) == Goto(t, "barrier") /\ then' = [then EXCEPT ![t] = step]

(* ggml_barrier()                                                             *)
GgmlBarrier(t, step) ==
    IF nGraph = 1 THEN Goto(t, step) /\ UNCHANGED then ELSE WaitForAll(t, step)

(* The first thread to come counts the team.                                  *)
CountAsked == asked               \* mutant: as many as asked for

CountThreads == team

Single(t) ==
    /\ pc[t] = "single"
    /\ single' = TRUE
    /\ nGraph' = IF single THEN nGraph ELSE CountThreads
    /\ WaitForAll(t, "begin")
    /\ UNCHANGED <<asked, team, chunk, node, nth, mine, ghosts>>

----------------------------------------------------------------------------
(* ggml_graph_compute_thread().                                               *)
Begin(t) ==
    /\ pc[t] = "begin"
    /\ nth' = [nth EXCEPT ![t] = nGraph]
    /\ node' = [node EXCEPT ![t] = 1]
    /\ Goto(t, "loop")
    /\ UNCHANGED <<shared, then, mine, ghosts>>

SkipNode(t) ==
    /\ pc[t] = "loop" /\ node[t] <= Len(Nodes) /\ Nodes[node[t]].op = "empty"
    /\ node' = [node EXCEPT ![t] = @ + 1]
    /\ UNCHANGED <<shared, pc, then, nth, mine, ghosts>>

TakeNode(t) ==
    /\ pc[t] = "loop" /\ node[t] <= Len(Nodes) /\ Nodes[node[t]].op # "empty"
    /\ Goto(t, "work")
    /\ UNCHANGED <<shared, then, node, nth, mine, ghosts>>

LastBarrier(t) ==
    /\ pc[t] = "loop" /\ node[t] > Len(Nodes)
    /\ GgmlBarrier(t, "ended")
    /\ UNCHANGED <<shared, node, nth, mine, ghosts>>

(* The thread's part of a node that is no product.                            *)
Plain(t) ==
    /\ pc[t] = "work" /\ Nodes[node[t]].op = "plain"
    /\ Goto(t, "after")
    /\ UNCHANGED <<shared, then, node, nth, mine, ghosts>>

(* Of a product, its part of the conversion into the work buffer.  Every      *)
(* thread starts at its own chunk, so the first that is left over is the      *)
(* number of threads.                                                         *)
FromZero(t) == 0                  \* mutant: the first chunk is left over

FirstFree(t) == nth[t]

(* mutant: a thread without a chunk of its own does not wait for the others.  *)
ConvertAndReturn(t) ==
    /\ pc[t] = "work" /\ Nodes[node[t]].op = "matmul"
    /\ chunk' = IF t = 0 THEN FirstFree(t) ELSE chunk
    /\ mine' = [mine EXCEPT ![t] = t]
    /\ IF t < Nodes[node[t]].chunks THEN GgmlBarrier(t, "chunks")
       ELSE Goto(t, "after") /\ UNCHANGED then
    /\ UNCHANGED <<asked, team, single, nGraph, node, nth, ghosts>>

Convert(t) ==
    /\ pc[t] = "work" /\ Nodes[node[t]].op = "matmul"
    /\ chunk' = IF t = 0 THEN FirstFree(t) ELSE chunk
    /\ mine' = [mine EXCEPT ![t] = t]
    /\ GgmlBarrier(t, "chunks")
    /\ UNCHANGED <<asked, team, single, nGraph, node, nth, ghosts>>

ComputeChunk(t) ==
    /\ pc[t] = "chunks"
    /\ LET here == <<node[t], mine[t]>>
       IN IF mine[t] < Chunks(node[t], nth[t])
          THEN done' = done \union {here} /\ twice' = (twice \/ here \in done)
          ELSE UNCHANGED ghosts
    /\ IF mine[t] < Chunks(node[t], nth[t]) /\ nth[t] < Chunks(node[t], nth[t])
       THEN /\ mine' = [mine EXCEPT ![t] = chunk] /\ chunk' = chunk + 1
            /\ UNCHANGED pc
       ELSE Goto(t, "after") /\ UNCHANGED <<mine, chunk>>
    /\ UNCHANGED <<asked, team, single, nGraph, then, node, nth>>

(* A barrier between two nodes.                                               *)
LastButOneToo(t) == node[t] + 1 < Len(Nodes)   \* mutant: one barrier too few

IsFollowed(t) == node[t] < Len(Nodes)

After(t) ==
    /\ pc[t] = "after"
    /\ node' = [node EXCEPT ![t] = @ + 1]
    /\ IF IsFollowed(t) THEN GgmlBarrier(t, "loop") ELSE Goto(t, "loop") /\ UNCHANGED then
    /\ UNCHANGED <<shared, nth, mine, ghosts>>

ThreadStep(t) ==
    \/ Single(t) \/ Begin(t) \/ SkipNode(t) \/ TakeNode(t) \/ LastBarrier(t)
    \/ Plain(t) \/ Convert(t) \/ ComputeChunk(t) \/ After(t)

Next == Call \/ Return \/ Barrier \/ \E t \in Threads : ThreadStep(t)

Spec == Init /\ [][Next]_vars

(* The operating system runs every thread.                                    *)
FairSpec ==
    /\ Spec
    /\ WF_vars(Return) /\ WF_vars(Barrier)
    /\ \A t \in Threads : WF_vars(ThreadStep(t))

----------------------------------------------------------------------------
Working == {t \in Team : pc[t] \in {"work", "chunks"}}

Pcs == {"idle", "single", "begin", "loop", "work", "chunks", "after", "barrier", "ended"}

(* The counters stay in their range, and only the team is at work.            *)
TypeOK ==
    /\ asked \in 1..MaxThreads /\ team \in 0..asked
    /\ single \in BOOLEAN /\ nGraph \in 0..asked
    /\ chunk \in Nat
    /\ pc \in [Threads -> Pcs] /\ \A t \in Threads \ Team : pc[t] = "idle"
    /\ then \in [Threads -> {"begin", "loop", "chunks", "ended"}]
    /\ node \in [Threads -> 1..Len(Nodes) + 1]
    /\ nth \in [Threads -> Nat] /\ mine \in [Threads -> Nat]
    /\ done \subseteq (1..Len(Nodes)) \X Nat /\ twice \in BOOLEAN

(* Threads that compute are at the same node and on the same side of its      *)
(* inner barrier, so that none writes the work buffer, the counter or a       *)
(* tensor another still reads.                                                *)
InStep == \A t, u \in Working : node[t] = node[u] /\ pc[t] = pc[u]

(* No chunk of a product is computed twice, and the graph has all of them     *)
(* when it is through, whatever the size of the team.                         *)
EveryChunkOnce ==
    /\ ~twice
    /\ Through => \A n \in 1..Len(Nodes) :
          Nodes[n].op = "matmul" => {n} \X (0..Chunks(n, team) - 1) \subseteq done

(* A graph that is begun comes to its end: all threads of the team pass the   *)
(* same barriers, also those that get no chunk.                               *)
GraphEnds == team > 0 ~> team = 0
=============================================================================
