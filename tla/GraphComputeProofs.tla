------------------------- MODULE GraphComputeProofs -------------------------
(***************************************************************************)
(* Proofs about GraphCompute for any graph, any number of threads asked    *)
(* for and any smaller team: types, threads in step, and every chunk of a  *)
(* product computed once.                                                  *)
(*                                                                         *)
(* The argument is that all threads of a team are on the way to the same   *)
(* barrier.  Goal(t) names it, from the place where t is; a step of one    *)
(* thread leaves its goal as it is, and the barrier gives all of them the  *)
(* next one.                                                               *)
(***************************************************************************)
EXTENDS GraphCompute, TLAPS, SequenceTheorems

\* The next node from n on that is not skipped; no node at the end.
Busy(n) ==
    {k \in n..Len(Nodes) : /\ Nodes[k].op # "empty"
                           /\ \A j \in n..(k - 1) : Nodes[j].op = "empty"}

\* The barrier after a node.
GoalAfter(n) == IF n < Len(Nodes) THEN <<"end", {n}>> ELSE <<"last", {}>>

\* The barrier that a thread comes to from the head of the loop.
GoalFrom(n) ==
    IF \E k \in Busy(n) : Nodes[k].op = "matmul" THEN <<"inner", Busy(n)>>
    ELSE IF \E k \in Busy(n) : k < Len(Nodes) THEN <<"end", Busy(n)>>
    ELSE <<"last", {}>>

\* The barrier that a thread waits at.
GoalAt(step, n) ==
    IF step = "begin" THEN <<"begin", {}>>
    ELSE IF step = "chunks" THEN <<"inner", {n}>>
    ELSE IF step = "loop" THEN <<"end", {n - 1}>>
    ELSE <<"last", {}>>

Goal(t) ==
    CASE pc[t] = "single" -> <<"begin", {}>>
      [] pc[t] = "begin" -> GoalFrom(1)
      [] pc[t] \in {"loop", "work"} -> GoalFrom(node[t])
      [] pc[t] \in {"chunks", "after"} -> GoalAfter(node[t])
      [] pc[t] = "barrier" -> GoalAt(then[t], node[t])
      [] OTHER -> <<"over", {}>>

\* All threads of the team are on the way to the same barrier.
SameGoal == \A t, u \in Team : Goal(t) = Goal(u)

\* Where a thread is agrees with the graph.
Placed(t) ==
    /\ pc[t] # "idle"
    /\ pc[t] \in {"work", "after", "chunks"} =>
          node[t] <= Len(Nodes) /\ Nodes[node[t]].op # "empty"
    /\ pc[t] = "chunks" => Nodes[node[t]].op = "matmul"
    /\ pc[t] = "barrier" /\ then[t] = "chunks" =>
          node[t] <= Len(Nodes) /\ Nodes[node[t]].op = "matmul"
    /\ pc[t] = "barrier" /\ then[t] = "loop" => node[t] \in 2..Len(Nodes)
    /\ pc[t] = "barrier" /\ then[t] = "ended" => node[t] = Len(Nodes) + 1
    /\ pc[t] = "ended" => node[t] = Len(Nodes) + 1

\* What the threads know of the size of the team.
Counted(t) ==
    /\ pc[t] # "single" => single
    /\ pc[t] \in {"loop", "work", "chunks", "after"} => nth[t] = team
    /\ pc[t] = "barrier" /\ then[t] # "begin" => nth[t] = team

StepInv ==
    /\ TypeOK
    /\ \A t \in Team : Placed(t) /\ Counted(t)
    /\ team > 0 /\ single => nGraph = team
    /\ SameGoal

\* A node has an operation and a number of chunks.
LEMMA NodeType ==
    ASSUME NEW n \in 1..Len(Nodes)
    PROVE  Nodes[n].op \in {"matmul", "plain", "empty"} /\ Nodes[n].chunks \in Nat
<1> DEFINE S == [op : {"matmul", "plain", "empty"}, chunks : Nat]
<1>1. Nodes \in Seq(S)
  BY NodesAssumption
<1> HIDE DEF S
<1>2. Nodes[n] \in S
  BY <1>1, ElementOfSeq
<1> QED
  BY <1>2 DEF S

\* The graph has a length.
LEMMA LenType == Len(Nodes) \in Nat
BY NodesAssumption

\* A product has a number of chunks.
LEMMA ChunksType ==
    ASSUME NEW n \in 1..Len(Nodes), NEW c \in Nat
    PROVE  Chunks(n, c) \in Nat
BY NodeType, SizesAssumption DEF Chunks

\* The head of the loop passes over an empty node,
LEMMA BusySkips ==
    ASSUME NEW n \in 1..Len(Nodes), Nodes[n].op = "empty"
    PROVE  Busy(n) = Busy(n + 1)
<1>1. \A k \in Busy(n) : k \in Busy(n + 1)
  BY LenType DEF Busy
<1>2. ASSUME NEW k \in Busy(n + 1) PROVE k \in Busy(n)
  <2>1. k \in (n + 1)..Len(Nodes) /\ \A j \in (n + 1)..(k - 1) : Nodes[j].op = "empty"
    BY <1>2 DEF Busy
  <2>2. \A j \in n..(k - 1) : Nodes[j].op = "empty"
    BY <2>1, LenType
  <2> QED
    BY <1>2, <2>1, <2>2, LenType DEF Busy
<1> QED
  BY <1>1, <1>2

\* stops at any other,
LEMMA BusyHere ==
    ASSUME NEW n \in 1..Len(Nodes), Nodes[n].op # "empty"
    PROVE  Busy(n) = {n}
<1>1. n \in Busy(n)
  BY LenType DEF Busy
<1>2. ASSUME NEW k \in Busy(n) PROVE k = n
  <2>1. k \in n..Len(Nodes) /\ \A j \in n..(k - 1) : Nodes[j].op = "empty"
    BY <1>2 DEF Busy
  <2>2. k # n => n \in n..(k - 1)
    BY <2>1, LenType
  <2> QED
    BY <2>1, <2>2
<1> QED
  BY <1>1, <1>2

\* and finds none at the end.
LEMMA BusyEnd == Busy(Len(Nodes) + 1) = {}
BY LenType DEF Busy

\* So the goal of a thread that takes a node is that of the node.
LEMMA GoalHere ==
    ASSUME NEW n \in 1..Len(Nodes), Nodes[n].op # "empty"
    PROVE  /\ Nodes[n].op = "matmul" => GoalFrom(n) = <<"inner", {n}>>
           /\ Nodes[n].op # "matmul" => GoalFrom(n) = GoalAfter(n)
<1>1. Busy(n) = {n}
  BY BusyHere
<1> QED
  BY <1>1 DEF GoalFrom, GoalAfter
-----------------------------------------------------------------------------
(* Types and goals.                                                        *)

\* A thread that is not idle belongs to the team.
LEMMA InTeam ==
    ASSUME TypeOK, NEW t \in Threads, pc[t] # "idle"
    PROVE  t \in Team
BY DEF TypeOK

\* The team is a part of the threads.
LEMMA TeamType ==
    ASSUME TypeOK
    PROVE  Team \subseteq Threads /\ team \in 0..MaxThreads /\ asked \in Nat
BY ThreadsAssumption DEF TypeOK, Team, Threads

\* When a thread steps, it is enough that its own goal stays, or that it is
\* alone.
LEMMA OneMoves ==
    ASSUME StepInv, NEW t \in Team, UNCHANGED team,
           \A u \in Team \ {t} : pc'[u] = pc[u] /\ then'[u] = then[u] /\ node'[u] = node[u],
           team = 1 \/ Goal(t)' = Goal(t)
    PROVE  SameGoal'
<1>1. Team' = Team
  BY DEF Team
<1>2. CASE team = 1
  <2>1. \A u \in Team : u = t
    BY <1>2 DEF Team
  <2> QED
    BY <1>1, <2>1 DEF SameGoal
<1>3. CASE Goal(t)' = Goal(t)
  <2>1. \A u \in Team : Goal(u)' = Goal(u)
    BY <1>3 DEF Goal
  <2> QED
    BY <1>1, <2>1 DEF SameGoal, StepInv
<1> QED
  BY <1>2, <1>3

\* The barrier of ggml, and what follows on it.
LEMMA GgmlBarrierMoves ==
    ASSUME StepInv, NEW t \in Team, pc[t] \notin {"single", "idle"},
           NEW step \in {"begin", "loop", "chunks", "ended"}, GgmlBarrier(t, step)
    PROVE  /\ pc' = [pc EXCEPT ![t] = pc'[t]] /\ then' = [then EXCEPT ![t] = then'[t]]
           /\ pc'[t] \in {"barrier", step} /\ (pc'[t] = "barrier" => then'[t] = step)
           /\ pc' \in [Threads -> Pcs]
           /\ then' \in [Threads -> {"begin", "loop", "chunks", "ended"}]
           /\ (team = 1 \/ pc'[t] = "barrier")
<1>1. nGraph = team /\ t \in Threads
  BY TeamType DEF StepInv, Counted, Team, TypeOK
<1>2. pc \in [Threads -> Pcs] /\ then \in [Threads -> {"begin", "loop", "chunks", "ended"}]
  BY DEF StepInv, TypeOK
<1>3. CASE nGraph = 1
  BY <1>1, <1>2, <1>3 DEF GgmlBarrier, Goto, Pcs
<1>4. CASE nGraph # 1
  BY <1>1, <1>2, <1>4 DEF GgmlBarrier, WaitForAll, Goto, Pcs
<1> QED
  BY <1>3, <1>4

\* The initial state: no graph is computed.
LEMMA InitStepInv == Init => StepInv
<1> SUFFICES ASSUME Init PROVE StepInv
  OBVIOUS
<1>1. Team = {} /\ 1 \in 1..MaxThreads /\ 1 \in 1..Len(Nodes) + 1
  BY ThreadsAssumption, LenType DEF Init, Team
<1>2. asked \in 1..MaxThreads /\ team \in 0..asked /\ nGraph \in 0..asked /\ chunk \in Nat
  BY <1>1 DEF Init
<1>3. /\ pc \in [Threads -> Pcs] /\ \A t \in Threads \ Team : pc[t] = "idle"
      /\ then \in [Threads -> {"begin", "loop", "chunks", "ended"}]
      /\ node \in [Threads -> 1..Len(Nodes) + 1]
      /\ nth \in [Threads -> Nat] /\ mine \in [Threads -> Nat]
  BY <1>1 DEF Init, Pcs
<1>4. TypeOK
  BY <1>2, <1>3 DEF Init, TypeOK
<1> QED
  BY <1>1, <1>4 DEF Init, StepInv, SameGoal

\* A team is made of the first threads.
LEMMA FirstThreads ==
    ASSUME NEW a \in Nat, NEW m \in Nat, a <= m
    PROVE  /\ 0..(a - 1) \subseteq 0..(m - 1)
           /\ \A t \in 0..(m - 1) : t \in 0..(a - 1) <=> ~(t >= a)
OBVIOUS

\* A new graph: all of its team begin alike.
LEMMA CallKeeps == ASSUME StepInv, Call PROVE StepInv'
<1>1. /\ asked' \in 1..MaxThreads /\ team' \in 1..asked'
      /\ nGraph' = IF asked' = 1 THEN 1 ELSE 0
      /\ chunk' = 0 /\ done' = {} /\ UNCHANGED <<then, node, nth, mine, twice>>
      /\ pc' = [t \in Threads |-> IF t >= team' THEN "idle"
                                  ELSE IF asked' = 1 THEN "begin" ELSE "single"]
  BY DEF Call
<1>s. single' \in BOOLEAN /\ (single' <=> asked' = 1)
  BY DEF Call
<1>2. /\ \A t \in Team' : pc'[t] = IF asked' = 1 THEN "begin" ELSE "single"
      /\ \A t \in Threads \ Team' : pc'[t] = "idle"
  <2>1. team' \in Nat /\ team' <= MaxThreads /\ Team' = 0..(team' - 1)
    BY <1>1, ThreadsAssumption DEF Team
  <2>2. \A t \in Threads : t \in Team' <=> ~(t >= team')
    BY <2>1, FirstThreads, ThreadsAssumption DEF Threads
  <2>3. Team' \subseteq Threads
    BY <2>1, FirstThreads, ThreadsAssumption DEF Threads
  <2> QED
    BY <1>1, <2>2, <2>3
<1>3. TypeOK'
  <2>1. pc' \in [Threads -> Pcs]
    BY <1>1 DEF Pcs
  <2>2. nGraph' \in 0..asked' /\ chunk' \in Nat /\ team' \in 0..asked'
    BY <1>1, ThreadsAssumption
  <2> QED
    BY <1>1, <1>s, <1>2, <2>1, <2>2 DEF StepInv, TypeOK
<1>4. \A t \in Team' : Placed(t)' /\ Counted(t)'
  BY <1>1, <1>s, <1>2 DEF Placed, Counted
<1>5. team' > 0 /\ single' => nGraph' = team'
  BY <1>1, <1>s
<1>6. \A t \in Team' : Goal(t)' = IF asked' = 1 THEN GoalFrom(1) ELSE <<"begin", {}>>
  BY <1>2 DEF Goal
<1> QED
  BY <1>3, <1>4, <1>5, <1>6 DEF StepInv, SameGoal

\* The end of the region.
LEMMA ReturnKeeps == ASSUME StepInv, Return PROVE StepInv'
<1>1. /\ team' = 0 /\ pc' = [t \in Threads |-> "idle"]
      /\ UNCHANGED <<asked, single, nGraph, chunk, then, node, nth, mine, done, twice>>
  BY DEF Return, ghosts
<1>2. Team' = {}
  BY <1>1 DEF Team
<1>3. pc' \in [Threads -> Pcs] /\ \A t \in Threads \ Team' : pc'[t] = "idle"
  BY <1>1 DEF Pcs
<1>4. TypeOK'
  BY <1>1, <1>3 DEF StepInv, TypeOK
<1> QED
  BY <1>1, <1>2, <1>4 DEF StepInv, SameGoal

\* Threads with the same goal that wait wait at the same place.
LEMMA WaitTogether ==
    ASSUME StepInv, NEW t \in Team, NEW u \in Team, pc[t] = "barrier", pc[u] = "barrier"
    PROVE  then[t] = then[u] /\ (then[t] \in {"loop", "chunks"} => node[t] = node[u])
<1>1. GoalAt(then[t], node[t]) = GoalAt(then[u], node[u])
  BY DEF StepInv, SameGoal, Goal
<1>2. node[t] \in Nat /\ node[u] \in Nat
  BY TeamType, LenType DEF StepInv, TypeOK
<1>3. /\ then[t] \in {"begin", "loop", "chunks", "ended"}
      /\ then[u] \in {"begin", "loop", "chunks", "ended"}
  BY TeamType DEF StepInv, TypeOK
<1> QED
  BY <1>1, <1>2, <1>3 DEF GoalAt

\* The barrier: who waited with the same goal goes on at the same place.
LEMMA BarrierKeeps == ASSUME StepInv, Barrier PROVE StepInv'
<1>1. /\ pc' = [t \in Threads |-> IF t \in Team THEN then[t] ELSE pc[t]]
      /\ UNCHANGED <<asked, team, single, nGraph, chunk, then, node, nth, mine, done, twice>>
      /\ \A t \in Team : pc[t] = "barrier"
  BY DEF Barrier, shared, ghosts
<1>2. Team' = Team /\ Team \subseteq Threads
  BY <1>1, TeamType DEF Team, StepInv
<1>3. \A t \in Team : pc'[t] = then[t] /\ then[t] \in {"begin", "loop", "chunks", "ended"}
  BY <1>1, <1>2 DEF StepInv, TypeOK
<1>4. TypeOK'
  <2>1. pc' \in [Threads -> Pcs] /\ \A t \in Threads \ Team' : pc'[t] = "idle"
    BY <1>1, <1>2, <1>3 DEF StepInv, TypeOK, Pcs
  <2> QED
    BY <1>1, <2>1 DEF StepInv, TypeOK
<1>5. \A t \in Team : Placed(t)' /\ Counted(t)'
  <2> SUFFICES ASSUME NEW t \in Team PROVE Placed(t)' /\ Counted(t)'
    OBVIOUS
  <2>1. Placed(t) /\ Counted(t) /\ pc[t] = "barrier"
    BY <1>1 DEF StepInv
  <2> QED
    BY <1>1, <1>3, <2>1 DEF Placed, Counted
<1>6. ASSUME NEW t \in Team, NEW u \in Team PROVE Goal(t)' = Goal(u)'
  <2>3. then[t] = then[u] /\ (then[t] \in {"loop", "chunks"} => node[t] = node[u])
    BY <1>1, WaitTogether
  <2> QED
    BY <1>1, <1>3, <2>3 DEF Goal
<1> QED
  BY <1>1, <1>2, <1>4, <1>5, <1>6 DEF StepInv, SameGoal

\* What a step of one thread must leave right.
LEMMA OneKeeps ==
    ASSUME StepInv, NEW t \in Team, TypeOK', UNCHANGED <<asked, team>>,
           single => single', team > 0 /\ single' => nGraph' = team,
           \A u \in Team \ {t} : /\ pc'[u] = pc[u] /\ then'[u] = then[u]
                                 /\ node'[u] = node[u] /\ nth'[u] = nth[u],
           Placed(t)', Counted(t)', team = 1 \/ Goal(t)' = Goal(t)
    PROVE  StepInv'
<1>1. Team' = Team
  BY DEF Team
<1>2. \A u \in Team : Placed(u)' /\ Counted(u)'
  <2> SUFFICES ASSUME NEW u \in Team, u # t PROVE Placed(u)' /\ Counted(u)'
    OBVIOUS
  <2>1. Placed(u) /\ Counted(u)
    BY DEF StepInv
  <2> QED
    BY <2>1 DEF Placed, Counted
<1>3. SameGoal'
  BY OneMoves
<1> QED
  BY <1>1, <1>2, <1>3 DEF StepInv

\* The places in the code change within their set.
LEMMA GotoType ==
    ASSUME TypeOK, NEW t \in Team, NEW step \in Pcs, Goto(t, step), UNCHANGED team
    PROVE  /\ pc' \in [Threads -> Pcs] /\ pc'[t] = step
           /\ \A u \in Threads \ {t} : pc'[u] = pc[u]
           /\ \A u \in Threads \ Team' : pc'[u] = "idle"
<1>1. Team' = Team /\ t \in Threads /\ pc \in [Threads -> Pcs]
  BY TeamType DEF Team, TypeOK
<1>2. \A u \in Threads \ Team : pc[u] = "idle" /\ u # t
  BY DEF TypeOK
<1> QED
  BY <1>1, <1>2 DEF Goto

\* The first thread to come counts the team; all wait.
LEMMA SingleKeeps == ASSUME StepInv, NEW t \in Team, Single(t) PROVE StepInv'
<1>1. /\ pc[t] = "single" /\ Goto(t, "barrier") /\ then' = [then EXCEPT ![t] = "begin"]
      /\ single' = TRUE /\ nGraph' = IF single THEN nGraph ELSE team
      /\ UNCHANGED <<asked, team, chunk, node, nth, mine, done, twice>>
  BY DEF Single, WaitForAll, CountThreads, ghosts
<1>2. TypeOK /\ t \in Threads /\ then \in [Threads -> {"begin", "loop", "chunks", "ended"}]
      /\ team \in 0..asked
  BY TeamType DEF StepInv, TypeOK
<1>3. /\ pc' \in [Threads -> Pcs] /\ pc'[t] = "barrier"
      /\ \A u \in Threads \ {t} : pc'[u] = pc[u]
      /\ \A u \in Threads \ Team' : pc'[u] = "idle"
  BY <1>1, <1>2, GotoType DEF Pcs
<1>4. then'[t] = "begin" /\ \A u \in Threads \ {t} : then'[u] = then[u]
  BY <1>1, <1>2
<1>5. TypeOK'
  BY <1>1, <1>2, <1>3 DEF TypeOK
<1>6. team > 0 => nGraph' = team
  BY <1>1 DEF StepInv
<1>7. Placed(t)' /\ Counted(t)'
  BY <1>1, <1>3, <1>4 DEF Placed, Counted
<1>8. Goal(t)' = Goal(t)
  BY <1>1, <1>3, <1>4 DEF Goal, GoalAt
<1>9. Team \subseteq Threads
  BY <1>2, TeamType
<1> QED
  BY <1>1, <1>3, <1>4, <1>5, <1>6, <1>7, <1>8, <1>9, OneKeeps

\* Every thread begins with the first node and reckons with the counted team.
LEMMA BeginKeeps == ASSUME StepInv, NEW t \in Team, Begin(t) PROVE StepInv'
<1>1. /\ pc[t] = "begin" /\ Goto(t, "loop")
      /\ nth' = [nth EXCEPT ![t] = nGraph] /\ node' = [node EXCEPT ![t] = 1]
      /\ UNCHANGED <<asked, team, single, nGraph, chunk, then, mine, done, twice>>
  BY DEF Begin, shared, ghosts
<1>2. TypeOK /\ t \in Threads /\ Team \subseteq Threads /\ nGraph = team /\ team \in Nat
  BY <1>1, TeamType DEF StepInv, Counted, Team
<1>3. /\ pc' \in [Threads -> Pcs] /\ pc'[t] = "loop"
      /\ \A u \in Threads \ {t} : pc'[u] = pc[u]
      /\ \A u \in Threads \ Team' : pc'[u] = "idle"
  BY <1>1, <1>2, GotoType DEF Pcs
<1>4. /\ node'[t] = 1 /\ nth'[t] = team
      /\ \A u \in Threads \ {t} : node'[u] = node[u] /\ nth'[u] = nth[u]
      /\ nth' \in [Threads -> Nat] /\ node' \in [Threads -> 1..Len(Nodes) + 1]
  BY <1>1, <1>2, LenType DEF TypeOK
<1>5. TypeOK'
  BY <1>1, <1>2, <1>3, <1>4 DEF TypeOK
<1>7. Placed(t)' /\ Counted(t)'
  BY <1>1, <1>2, <1>3, <1>4 DEF Placed, Counted, StepInv
<1>8. Goal(t)' = Goal(t)
  BY <1>1, <1>3, <1>4 DEF Goal
<1> QED
  BY <1>1, <1>2, <1>3, <1>4, <1>5, <1>7, <1>8, OneKeeps

\* Passing over an empty node leaves the next busy one what it was.
LEMMA SkipNodeKeeps == ASSUME StepInv, NEW t \in Team, SkipNode(t) PROVE StepInv'
<1>1. /\ pc[t] = "loop" /\ node[t] <= Len(Nodes) /\ Nodes[node[t]].op = "empty"
      /\ node' = [node EXCEPT ![t] = @ + 1]
      /\ UNCHANGED <<asked, team, single, nGraph, chunk, pc, then, nth, mine, done, twice>>
  BY DEF SkipNode, shared, ghosts
<1>2. TypeOK /\ t \in Threads /\ Team \subseteq Threads /\ node[t] \in 1..Len(Nodes)
  BY <1>1, TeamType, LenType DEF StepInv, TypeOK
<1>4. /\ node'[t] = node[t] + 1 /\ \A u \in Threads \ {t} : node'[u] = node[u]
      /\ node' \in [Threads -> 1..Len(Nodes) + 1]
  BY <1>1, <1>2, LenType DEF TypeOK
<1>5. TypeOK' /\ Team' = Team
  BY <1>1, <1>2, <1>4 DEF TypeOK, Team
<1>7. Placed(t)' /\ Counted(t)'
  BY <1>1, <1>2 DEF Placed, Counted, StepInv
<1>8. Goal(t)' = Goal(t)
  BY <1>1, <1>2, <1>4, BusySkips DEF Goal, GoalFrom
<1> QED
  BY <1>1, <1>2, <1>4, <1>5, <1>7, <1>8, OneKeeps DEF StepInv

\* A thread starts on a node.
LEMMA TakeNodeKeeps == ASSUME StepInv, NEW t \in Team, TakeNode(t) PROVE StepInv'
<1>1. /\ pc[t] = "loop" /\ node[t] <= Len(Nodes) /\ Nodes[node[t]].op # "empty"
      /\ Goto(t, "work")
      /\ UNCHANGED <<asked, team, single, nGraph, chunk, then, node, nth, mine, done, twice>>
  BY DEF TakeNode, shared, ghosts
<1>2. TypeOK /\ t \in Threads /\ Team \subseteq Threads
  BY TeamType DEF StepInv
<1>3. /\ pc' \in [Threads -> Pcs] /\ pc'[t] = "work"
      /\ \A u \in Threads \ {t} : pc'[u] = pc[u]
      /\ \A u \in Threads \ Team' : pc'[u] = "idle"
  BY <1>1, <1>2, GotoType DEF Pcs
<1>5. TypeOK'
  BY <1>1, <1>2, <1>3 DEF TypeOK
<1>7. Placed(t)' /\ Counted(t)'
  BY <1>1, <1>2, <1>3 DEF Placed, Counted, StepInv
<1>8. Goal(t)' = Goal(t)
  BY <1>1, <1>3 DEF Goal
<1> QED
  BY <1>1, <1>2, <1>3, <1>5, <1>7, <1>8, OneKeeps DEF StepInv

\* Past the last node there is one barrier more.
LEMMA LastBarrierKeeps == ASSUME StepInv, NEW t \in Team, LastBarrier(t) PROVE StepInv'
<1>1. /\ pc[t] = "loop" /\ node[t] > Len(Nodes) /\ GgmlBarrier(t, "ended")
      /\ UNCHANGED <<asked, team, single, nGraph, chunk, node, nth, mine, done, twice>>
  BY DEF LastBarrier, shared, ghosts
<1>2. TypeOK /\ t \in Threads /\ Team \subseteq Threads /\ node[t] = Len(Nodes) + 1
  BY <1>1, TeamType, LenType DEF StepInv, TypeOK
<1>3. /\ pc' = [pc EXCEPT ![t] = pc'[t]] /\ then' = [then EXCEPT ![t] = then'[t]]
      /\ pc'[t] \in {"barrier", "ended"} /\ (pc'[t] = "barrier" => then'[t] = "ended")
      /\ pc' \in [Threads -> Pcs]
      /\ then' \in [Threads -> {"begin", "loop", "chunks", "ended"}]
      /\ (team = 1 \/ pc'[t] = "barrier")
  BY <1>1, GgmlBarrierMoves
<1>5. TypeOK' /\ Team' = Team
  BY <1>1, <1>2, <1>3 DEF TypeOK, Team
<1>7. Placed(t)' /\ Counted(t)'
  BY <1>1, <1>2, <1>3 DEF Placed, Counted, StepInv
<1>8. team = 1 \/ Goal(t)' = Goal(t)
  BY <1>1, <1>2, <1>3, BusyEnd DEF Goal, GoalAt, GoalFrom
<1> QED
  BY <1>1, <1>2, <1>3, <1>5, <1>7, <1>8, OneKeeps DEF StepInv, TypeOK

\* A thread at work is at a node of the graph.
LEMMA AtNode ==
    ASSUME StepInv, NEW t \in Team, pc[t] \in {"work", "chunks", "after"}
    PROVE  TypeOK /\ t \in Threads /\ Team \subseteq Threads /\ node[t] \in 1..Len(Nodes)
<1>1. TypeOK /\ t \in Threads /\ Team \subseteq Threads
  BY TeamType DEF StepInv
<1>2. node[t] \in 1..Len(Nodes) + 1
  BY <1>1 DEF TypeOK
<1>3. node[t] <= Len(Nodes)
  BY DEF StepInv, Placed
<1> QED
  BY <1>1, <1>2, <1>3, LenType

\* A node that is no product has no barrier of its own.
LEMMA PlainKeeps == ASSUME StepInv, NEW t \in Team, Plain(t) PROVE StepInv'
<1>1. /\ pc[t] = "work" /\ Nodes[node[t]].op = "plain" /\ Goto(t, "after")
      /\ UNCHANGED <<asked, team, single, nGraph, chunk, then, node, nth, mine, done, twice>>
  BY DEF Plain, shared, ghosts
<1>2. TypeOK /\ t \in Threads /\ Team \subseteq Threads /\ node[t] \in 1..Len(Nodes)
  BY <1>1, AtNode
<1>3. /\ pc' \in [Threads -> Pcs] /\ pc'[t] = "after"
      /\ \A u \in Threads \ {t} : pc'[u] = pc[u]
      /\ \A u \in Threads \ Team' : pc'[u] = "idle"
  BY <1>1, <1>2, GotoType DEF Pcs
<1>5. TypeOK'
  BY <1>1, <1>2, <1>3 DEF TypeOK
<1>7. Placed(t)' /\ Counted(t)'
  BY <1>1, <1>2, <1>3 DEF Placed, Counted, StepInv
<1>8. Goal(t)' = Goal(t)
  BY <1>1, <1>2, <1>3, GoalHere DEF Goal
<1> QED
  BY <1>1, <1>2, <1>3, <1>5, <1>7, <1>8, OneKeeps DEF StepInv

\* A product has one, between the conversion and the chunks.
LEMMA ConvertKeeps == ASSUME StepInv, NEW t \in Team, Convert(t) PROVE StepInv'
<1>1. /\ pc[t] = "work" /\ Nodes[node[t]].op = "matmul" /\ GgmlBarrier(t, "chunks")
      /\ chunk' = (IF t = 0 THEN nth[t] ELSE chunk) /\ mine' = [mine EXCEPT ![t] = t]
      /\ UNCHANGED <<asked, team, single, nGraph, node, nth, done, twice>>
  BY DEF Convert, FirstFree, ghosts
<1>2. TypeOK /\ t \in Threads /\ Team \subseteq Threads /\ node[t] \in 1..Len(Nodes)
  BY <1>1, AtNode
<1>3. /\ pc' = [pc EXCEPT ![t] = pc'[t]] /\ then' = [then EXCEPT ![t] = then'[t]]
      /\ pc'[t] \in {"barrier", "chunks"} /\ (pc'[t] = "barrier" => then'[t] = "chunks")
      /\ pc' \in [Threads -> Pcs]
      /\ then' \in [Threads -> {"begin", "loop", "chunks", "ended"}]
      /\ (team = 1 \/ pc'[t] = "barrier")
  BY <1>1, GgmlBarrierMoves
<1>4. chunk' \in Nat /\ mine' \in [Threads -> Nat]
  <2>1. t \in Nat
    BY <1>2, ThreadsAssumption DEF Threads
  <2> QED
    BY <1>1, <1>2, <2>1 DEF TypeOK
<1>6. \A u \in Threads \ Team' : pc'[u] = "idle"
  BY <1>1, <1>2, <1>3 DEF TypeOK, Team
<1>5. TypeOK'
  BY <1>1, <1>2, <1>3, <1>4, <1>6 DEF TypeOK
<1>7. Placed(t)' /\ Counted(t)'
  BY <1>1, <1>2, <1>3 DEF Placed, Counted, StepInv
<1>8. team = 1 \/ Goal(t)' = Goal(t)
  BY <1>1, <1>2, <1>3, GoalHere DEF Goal, GoalAt
<1> QED
  BY <1>1, <1>2, <1>3, <1>5, <1>7, <1>8, OneKeeps DEF StepInv, TypeOK

\* The chunks are shared out without a barrier.
LEMMA ComputeChunkKeeps == ASSUME StepInv, NEW t \in Team, ComputeChunk(t) PROVE StepInv'
<1>1. /\ pc[t] = "chunks"
      /\ UNCHANGED <<asked, team, single, nGraph, then, node, nth>>
      /\ \/ mine' = [mine EXCEPT ![t] = chunk] /\ chunk' = chunk + 1 /\ pc' = pc
         \/ Goto(t, "after") /\ UNCHANGED <<mine, chunk>>
      /\ \/ done' = done \union {<<node[t], mine[t]>>}
            /\ twice' = (twice \/ <<node[t], mine[t]>> \in done)
         \/ UNCHANGED <<done, twice>>
  BY DEF ComputeChunk, ghosts
<1>2. TypeOK /\ t \in Threads /\ Team \subseteq Threads /\ node[t] \in 1..Len(Nodes)
  BY <1>1, AtNode
<1>3. /\ pc' \in [Threads -> Pcs] /\ pc'[t] \in {"chunks", "after"}
      /\ \A u \in Threads \ {t} : pc'[u] = pc[u]
      /\ \A u \in Threads \ Team' : pc'[u] = "idle"
  <2>1. CASE pc' = pc
    BY <1>1, <1>2, <2>1 DEF TypeOK, Team
  <2>2. CASE Goto(t, "after")
    BY <1>1, <1>2, <2>2, GotoType DEF Pcs
  <2> QED
    BY <1>1, <2>1, <2>2
<1>4. chunk' \in Nat /\ mine' \in [Threads -> Nat]
  <2>1. chunk \in Nat /\ mine \in [Threads -> Nat]
    BY <1>2 DEF TypeOK
  <2> QED
    BY <1>1, <2>1
<1>6. done' \subseteq (1..Len(Nodes)) \X Nat /\ twice' \in BOOLEAN
  <2>1. /\ done \subseteq (1..Len(Nodes)) \X Nat /\ twice \in BOOLEAN
        /\ mine[t] \in Nat
    BY <1>2 DEF TypeOK
  <2>2. <<node[t], mine[t]>> \in (1..Len(Nodes)) \X Nat
    BY <1>2, <2>1
  <2>3. done' \subseteq (1..Len(Nodes)) \X Nat
    BY <1>1, <2>1, <2>2
  <2>4. twice' \in BOOLEAN
    BY <1>1, <2>1
  <2> QED
    BY <2>3, <2>4
<1>5. TypeOK'
  BY <1>1, <1>2, <1>3, <1>4, <1>6 DEF TypeOK
<1>7. Placed(t)' /\ Counted(t)'
  BY <1>1, <1>2, <1>3 DEF Placed, Counted, StepInv
<1>8. Goal(t)' = Goal(t)
  BY <1>1, <1>3 DEF Goal
<1> QED
  BY <1>1, <1>2, <1>3, <1>5, <1>7, <1>8, OneKeeps DEF StepInv

\* Between two nodes there is a barrier, after the last node none.
LEMMA AfterKeeps == ASSUME StepInv, NEW t \in Team, After(t) PROVE StepInv'
<1>1. /\ pc[t] = "after" /\ node' = [node EXCEPT ![t] = @ + 1]
      /\ UNCHANGED <<asked, team, single, nGraph, chunk, nth, mine, done, twice>>
  BY DEF After, shared, ghosts
<1>2. TypeOK /\ t \in Threads /\ Team \subseteq Threads /\ node[t] \in 1..Len(Nodes)
  BY <1>1, AtNode
<1>4. /\ node'[t] = node[t] + 1 /\ \A u \in Threads \ {t} : node'[u] = node[u]
      /\ node' \in [Threads -> 1..Len(Nodes) + 1]
  BY <1>1, <1>2, LenType DEF TypeOK
<1>3. /\ \A u \in Threads \ {t} : pc'[u] = pc[u] /\ then'[u] = then[u]
      /\ pc' \in [Threads -> Pcs]
      /\ then' \in [Threads -> {"begin", "loop", "chunks", "ended"}]
      /\ \/ node[t] < Len(Nodes) /\ pc'[t] = "barrier" /\ then'[t] = "loop"
         \/ node[t] < Len(Nodes) /\ team = 1 /\ pc'[t] = "loop"
         \/ node[t] = Len(Nodes) /\ pc'[t] = "loop"
  <2>1. CASE node[t] < Len(Nodes)
    <3>1. GgmlBarrier(t, "loop")
      BY <2>1 DEF After, IsFollowed
    <3>2. pc[t] \notin {"single", "idle"}
      BY <1>1
    <3> QED
      BY <1>2, <2>1, <3>1, <3>2, GgmlBarrierMoves DEF TypeOK
  <2>2. CASE ~(node[t] < Len(Nodes))
    <3>1. Goto(t, "loop") /\ UNCHANGED then
      BY <2>2 DEF After, IsFollowed
    <3>2. node[t] = Len(Nodes)
      BY <1>2, <2>2, LenType
    <3>3. pc' \in [Threads -> Pcs] /\ pc'[t] = "loop" /\ \A u \in Threads \ {t} : pc'[u] = pc[u]
      BY <1>1, <1>2, <3>1, GotoType DEF Pcs
    <3> QED
      BY <1>2, <3>1, <3>2, <3>3 DEF TypeOK
  <2> QED
    BY <2>1, <2>2
<1>5. TypeOK'
  <2>1. \A u \in Threads \ Team' : pc'[u] = "idle"
    BY <1>1, <1>3 DEF StepInv, TypeOK, Team
  <2> QED
    BY <1>1, <1>2, <1>3, <1>4, <2>1 DEF TypeOK
<1>6. pc'[t] \in {"barrier", "loop"}
  BY <1>3
<1>7. Placed(t)' /\ Counted(t)'
  <2>1. nth[t] = team /\ single
    BY <1>1 DEF StepInv, Counted
  <2>2. pc'[t] = "barrier" => then'[t] = "loop" /\ node'[t] \in 2..Len(Nodes)
    BY <1>2, <1>3, <1>4, LenType
  <2> QED
    BY <1>1, <1>6, <2>1, <2>2 DEF Placed, Counted
<1>8. team = 1 \/ Goal(t)' = Goal(t)
  <2>1. Goal(t) = GoalAfter(node[t])
    BY <1>1 DEF Goal
  <2>2. CASE node[t] < Len(Nodes) /\ pc'[t] = "barrier" /\ then'[t] = "loop"
    <3>1. Goal(t)' = GoalAt("loop", node[t] + 1)
      BY <1>4, <2>2 DEF Goal
    <3>2. node[t] + 1 - 1 = node[t]
      BY <1>2
    <3>3. GoalAt("loop", node[t] + 1) = <<"end", {node[t] + 1 - 1}>>
      BY <1>2 DEF GoalAt
    <3> QED
      BY <2>1, <2>2, <3>1, <3>2, <3>3 DEF GoalAfter
  <2>3. CASE node[t] = Len(Nodes) /\ pc'[t] = "loop"
    BY <1>2, <1>4, <2>1, <2>3, BusyEnd DEF Goal, GoalFrom, GoalAfter
  <2> QED
    BY <1>3, <2>2, <2>3
<1> QED
  BY <1>1, <1>2, <1>3, <1>4, <1>5, <1>7, <1>8, OneKeeps DEF StepInv, TypeOK

\* Every step keeps the threads in step.
LEMMA NextStepInv == StepInv /\ [Next]_vars => StepInv'
<1> SUFFICES ASSUME StepInv, [Next]_vars PROVE StepInv'
  OBVIOUS
<1>1. CASE Next
  <2>1. ASSUME NEW t \in Threads, ThreadStep(t) PROVE StepInv'
    <3>1. pc[t] # "idle"
      BY <2>1 DEF ThreadStep, Single, Begin, SkipNode, TakeNode, LastBarrier, Plain,
                  Convert, ComputeChunk, After
    <3>2. t \in Team
      BY <2>1, <3>1, InTeam DEF StepInv
    <3> QED
      BY <2>1, <3>2, SingleKeeps, BeginKeeps, SkipNodeKeeps, TakeNodeKeeps,
         LastBarrierKeeps, PlainKeeps, ConvertKeeps, ComputeChunkKeeps, AfterKeeps
         DEF ThreadStep
  <2> QED
    BY <1>1, <2>1, CallKeeps, ReturnKeeps, BarrierKeeps DEF Next
<1>2. CASE UNCHANGED vars
  <2>1. UNCHANGED <<asked, team, single, nGraph, chunk, pc, then, node, nth, mine, done, twice>>
    BY <1>2 DEF vars, shared, local, ghosts
  <2> QED
    BY <2>1 DEF StepInv, TypeOK, Team, SameGoal, Goal, Placed, Counted
<1> QED
  BY <1>1, <1>2

LEMMA StepInvariant == Spec => []StepInv
BY InitStepInv, NextStepInv, PTL DEF Spec

\* The type invariant of ggml_graph_compute(): the counters stay in range and
\* only threads of the team that OpenMP gave take part in a graph.
THEOREM TypeCorrect == Spec => []TypeOK
<1>1. StepInv => TypeOK
  BY DEF StepInv
<1> QED
  BY <1>1, StepInvariant, PTL

\* Threads with the same goal that compute are at the same place.
LEMMA GoalPlace ==
    ASSUME StepInv, NEW t \in Working, NEW u \in Working
    PROVE  node[t] = node[u] /\ pc[t] = pc[u]
<1>1. /\ t \in Team /\ u \in Team /\ Goal(t) = Goal(u) /\ Placed(t) /\ Placed(u)
      /\ pc[t] \in {"work", "chunks"} /\ pc[u] \in {"work", "chunks"}
  BY DEF Working, StepInv, SameGoal
<1>2. node[t] \in 1..Len(Nodes) /\ node[u] \in 1..Len(Nodes)
  BY <1>1, AtNode
<1>3. ASSUME NEW v \in {t, u}
      PROVE  \/ /\ pc[v] = "work" /\ Nodes[node[v]].op = "matmul"
                /\ Goal(v) = <<"inner", {node[v]}>>
             \/ /\ pc[v] = "work" /\ Nodes[node[v]].op # "matmul"
                /\ Goal(v) = GoalAfter(node[v])
             \/ /\ pc[v] = "chunks" /\ Nodes[node[v]].op = "matmul"
                /\ Goal(v) = GoalAfter(node[v])
  BY <1>1, <1>2, <1>3, GoalHere DEF Goal, Placed
<1>4. Goal(t)[1] = "inner" <=> pc[t] = "work" /\ Nodes[node[t]].op = "matmul"
  BY <1>3 DEF GoalAfter
<1>5. Goal(u)[1] = "inner" <=> pc[u] = "work" /\ Nodes[node[u]].op = "matmul"
  BY <1>3 DEF GoalAfter
<1>6. CASE Goal(t)[1] = "inner"
  BY <1>1, <1>2, <1>3, <1>4, <1>5, <1>6 DEF GoalAfter
<1>7. CASE Goal(t)[1] # "inner"
  <2>1. GoalAfter(node[t]) = GoalAfter(node[u])
    BY <1>1, <1>3, <1>4, <1>5, <1>7
  <2>2. node[t] = node[u]
    <3>1. CASE node[t] < Len(Nodes) /\ node[u] < Len(Nodes)
      <4>1. {node[t]} = {node[u]}
        BY <2>1, <3>1 DEF GoalAfter
      <4> QED
        BY <4>1
    <3>2. CASE ~(node[t] < Len(Nodes)) /\ ~(node[u] < Len(Nodes))
      BY <1>2, <3>2, LenType
    <3> QED
      BY <2>1, <3>1, <3>2 DEF GoalAfter
  <2> QED
    BY <1>1, <1>3, <1>4, <1>5, <1>7, <2>2
<1> QED
  BY <1>6, <1>7

\* Whatever team OpenMP gives, the threads that compute are at the same node
\* and on the same side of its barrier.
THEOREM NodeByNode == Spec => []InStep
<1>1. StepInv => InStep
  BY GoalPlace DEF InStep
<1> QED
  BY <1>1, StepInvariant, PTL
-----------------------------------------------------------------------------
(* The chunks of a product.                                                *)

\* A thread that has not begun with the graph.
Fresh(t) == pc[t] \in {"single", "begin"} \/ (pc[t] = "barrier" /\ then[t] = "begin")

\* A thread has come to the chunks of node k, or is through with them.
Entered(t, k) == ~Fresh(t) /\ (node[t] > k \/ (node[t] = k /\ pc[t] \in {"chunks", "after"}))
Past(t, k) == ~Fresh(t) /\ (node[t] > k \/ (node[t] = k /\ pc[t] = "after"))

\* Chunk i of node k is computed, or a thread has it.
Held(k, i) == \E t \in Team : pc[t] = "chunks" /\ node[t] = k /\ mine[t] = i
Covered(k, i) == <<k, i>> \in done \/ Held(k, i)

\* The chunks below the counter are covered, and no other is computed; those
\* that the threads have are not.
Counting(t) ==
    pc[t] = "chunks" =>
      /\ team <= chunk /\ mine[t] < chunk /\ <<node[t], mine[t]>> \notin done
      /\ \A i \in 0..(chunk - 1) : i < Chunks(node[t], team) => Covered(node[t], i)
      /\ \A i \in Nat : <<node[t], i>> \in done => i < chunk

\* Before the barrier every thread has its own chunk, and the first has set
\* the counter.
Ready(t) ==
    pc[t] = "barrier" /\ then[t] = "chunks" => mine[t] = t /\ (t = 0 => chunk = team)

\* No two threads have the same chunk.
Apart == \A t, u \in Team : pc[t] = "chunks" /\ pc[u] = "chunks" /\ mine[t] = mine[u] => t = u

\* A product that a thread has passed is covered.
Passed(t) ==
    \A k \in 1..Len(Nodes) : Past(t, k) /\ Nodes[k].op = "matmul" =>
        \A i \in 0..(Chunks(k, team) - 1) : Covered(k, i)

\* Nothing is computed of a node that no thread has entered.
Reached ==
    team > 0 => \A k \in 1..Len(Nodes), i \in Nat :
                   <<k, i>> \in done => \E t \in Team : Entered(t, k)

ChunkInv ==
    /\ ~twice /\ Apart /\ Reached
    /\ \A t \in Team : Counting(t) /\ Ready(t) /\ Passed(t)

\* Without a graph nothing is claimed of the chunks.
LEMMA InitChunkInv == Init => ChunkInv
<1> SUFFICES ASSUME Init PROVE ChunkInv
  OBVIOUS
<1>1. Team = {} /\ team = 0 /\ twice = FALSE
  BY DEF Init, Team
<1> QED
  BY <1>1 DEF ChunkInv, Apart, Reached

\* A new graph has nothing computed.
LEMMA CallCounts == ASSUME StepInv, ChunkInv, Call PROVE ChunkInv'
<1>1. /\ asked' \in 1..MaxThreads /\ team' \in 1..asked' /\ done' = {} /\ twice' = twice
      /\ pc' = [t \in Threads |-> IF t >= team' THEN "idle"
                                  ELSE IF asked' = 1 THEN "begin" ELSE "single"]
  BY DEF Call
<1>2. \A t \in Team' : pc'[t] \in {"begin", "single"}
  <2>1. team' \in Nat /\ team' <= MaxThreads /\ Team' = 0..(team' - 1)
    BY <1>1, ThreadsAssumption DEF Team
  <2>2. \A t \in Threads : t \in Team' <=> ~(t >= team')
    BY <2>1, FirstThreads, ThreadsAssumption DEF Threads
  <2>3. Team' \subseteq Threads
    BY <2>1, FirstThreads, ThreadsAssumption DEF Threads
  <2> QED
    BY <1>1, <2>2, <2>3
<1>3. \A t \in Team' : Counting(t)' /\ Ready(t)' /\ Passed(t)'
  BY <1>2 DEF Counting, Ready, Passed, Past, Fresh
<1> QED
  BY <1>1, <1>2, <1>3 DEF ChunkInv, Apart, Reached

\* Without a graph there is no team.
LEMMA ReturnCounts == ASSUME ChunkInv, Return PROVE ChunkInv'
<1>1. team' = 0 /\ twice' = twice
  BY DEF Return, ghosts
<1>2. Team' = {}
  BY <1>1 DEF Team
<1> QED
  BY <1>1, <1>2 DEF ChunkInv, Apart, Reached

\* A step of one thread that is not about chunks.
LEMMA OthersCount ==
    ASSUME ChunkInv, NEW t \in Team, UNCHANGED <<team, chunk, mine, done, twice>>,
           \A u \in Team \ {t} : pc'[u] = pc[u] /\ then'[u] = then[u] /\ node'[u] = node[u],
           pc[t] # "chunks", pc'[t] # "chunks",
           pc'[t] = "barrier" => then'[t] # "chunks",
           \A k \in 1..Len(Nodes) : Entered(t, k) => Entered(t, k)',
           \A k \in 1..Len(Nodes) : Past(t, k)' /\ Nodes[k].op = "matmul" => Past(t, k)
    PROVE  ChunkInv'
<1>1. Team' = Team
  BY DEF Team
<1>2. \A k, i : Held(k, i)' <=> Held(k, i)
  BY <1>1 DEF Held
<1>3. \A k, i : Covered(k, i)' <=> Covered(k, i)
  BY <1>2 DEF Covered
<1>4. \A u \in Team \ {t} :
        /\ Fresh(u)' <=> Fresh(u)
        /\ \A k : (Entered(u, k)' <=> Entered(u, k)) /\ (Past(u, k)' <=> Past(u, k))
  BY DEF Fresh, Entered, Past
<1>5. ASSUME NEW u \in Team PROVE Counting(u)' /\ Ready(u)' /\ Passed(u)'
  <2>1. Counting(u) /\ Ready(u) /\ Passed(u)
    BY DEF ChunkInv
  <2>2. Passed(u)'
    <3> SUFFICES ASSUME NEW k \in 1..Len(Nodes), Past(u, k)', Nodes[k].op = "matmul",
                        NEW i \in 0..(Chunks(k, team)' - 1)
                 PROVE  Covered(k, i)'
      BY DEF Passed
    <3>1. Past(u, k)
      BY <1>4
    <3>2. Chunks(k, team)' = Chunks(k, team)
      BY DEF Chunks
    <3> QED
      BY <1>3, <2>1, <3>1, <3>2 DEF Passed
  <2>3. CASE u = t
    BY <2>2, <2>3 DEF Counting, Ready
  <2>4. CASE u # t
    <3>1. Ready(u)'
      BY <2>1, <2>4 DEF Ready
    <3>2. Counting(u)'
      BY <1>3, <2>1, <2>4 DEF Counting, Chunks
    <3> QED
      BY <2>2, <3>1, <3>2
  <2> QED
    BY <2>3, <2>4
<1>6. Apart'
  BY <1>1 DEF ChunkInv, Apart
<1>7. Reached'
  <2> SUFFICES ASSUME team > 0, NEW k \in 1..Len(Nodes), NEW i \in Nat, <<k, i>> \in done
               PROVE  \E u \in Team : Entered(u, k)'
    BY <1>1 DEF Reached
  <2>1. PICK u \in Team : Entered(u, k)
    BY DEF ChunkInv, Reached
  <2> QED
    BY <1>4, <2>1
<1> QED
  BY <1>1, <1>5, <1>6, <1>7 DEF ChunkInv

\* Counting the team is before the graph.
LEMMA SingleCounts == ASSUME StepInv, ChunkInv, NEW t \in Team, Single(t) PROVE ChunkInv'
<1>1. /\ pc[t] = "single" /\ pc' = [pc EXCEPT ![t] = "barrier"]
      /\ then' = [then EXCEPT ![t] = "begin"]
      /\ UNCHANGED <<team, chunk, node, mine, done, twice>>
  BY DEF Single, WaitForAll, Goto, ghosts
<1>2. /\ pc'[t] = "barrier" /\ then'[t] = "begin"
      /\ \A u \in Team \ {t} : pc'[u] = pc[u] /\ then'[u] = then[u]
  BY <1>1, TeamType DEF StepInv, TypeOK
<1>3. Fresh(t) /\ Fresh(t)'
  BY <1>1, <1>2 DEF Fresh
<1> QED
  BY <1>1, <1>2, <1>3, OthersCount DEF Entered, Past

\* So is beginning with the first node.
LEMMA BeginCounts == ASSUME StepInv, ChunkInv, NEW t \in Team, Begin(t) PROVE ChunkInv'
<1>1. /\ pc[t] = "begin" /\ pc' = [pc EXCEPT ![t] = "loop"]
      /\ node' = [node EXCEPT ![t] = 1]
      /\ UNCHANGED <<team, chunk, then, mine, done, twice>>
  BY DEF Begin, Goto, shared, ghosts
<1>2. /\ pc'[t] = "loop" /\ node'[t] = 1
      /\ \A u \in Team \ {t} : pc'[u] = pc[u] /\ node'[u] = node[u]
  BY <1>1, TeamType DEF StepInv, TypeOK
<1>3. Fresh(t)
  BY <1>1 DEF Fresh
<1>4. \A k \in 1..Len(Nodes) : ~Past(t, k)'
  BY <1>2, LenType DEF Past
<1> QED
  BY <1>1, <1>2, <1>3, <1>4, OthersCount DEF Entered

\* An empty node has no chunks.
LEMMA SkipNodeCounts == ASSUME StepInv, ChunkInv, NEW t \in Team, SkipNode(t) PROVE ChunkInv'
<1>1. /\ pc[t] = "loop" /\ node[t] <= Len(Nodes) /\ Nodes[node[t]].op = "empty"
      /\ node' = [node EXCEPT ![t] = @ + 1]
      /\ UNCHANGED <<team, chunk, pc, then, mine, done, twice>>
  BY DEF SkipNode, shared, ghosts
<1>2. /\ node[t] \in 1..Len(Nodes) + 1 /\ node'[t] = node[t] + 1
      /\ \A u \in Team \ {t} : node'[u] = node[u]
  BY <1>1, TeamType DEF StepInv, TypeOK
<1>3. \A k \in 1..Len(Nodes) : Entered(t, k) => Entered(t, k)'
  BY <1>1, <1>2, LenType DEF Entered, Fresh
<1>4. \A k \in 1..Len(Nodes) : Past(t, k)' /\ Nodes[k].op = "matmul" => Past(t, k)
  <2> SUFFICES ASSUME NEW k \in 1..Len(Nodes), Past(t, k)', Nodes[k].op = "matmul"
               PROVE  Past(t, k)
    OBVIOUS
  <2>1. node[t] + 1 > k
    BY <1>1, <1>2 DEF Past
  <2>2. node[t] # k
    BY <1>1
  <2>3. node[t] > k
    BY <1>2, <2>1, <2>2, LenType
  <2> QED
    BY <1>1, <2>3 DEF Past, Fresh
<1> QED
  BY <1>1, <1>2, <1>3, <1>4, OthersCount

\* A thread that starts on a node has not entered its chunks.
LEMMA TakeNodeCounts == ASSUME StepInv, ChunkInv, NEW t \in Team, TakeNode(t) PROVE ChunkInv'
<1>1. /\ pc[t] = "loop" /\ pc' = [pc EXCEPT ![t] = "work"]
      /\ UNCHANGED <<team, chunk, then, node, mine, done, twice>>
  BY DEF TakeNode, Goto, shared, ghosts
<1>2. pc'[t] = "work" /\ \A u \in Team \ {t} : pc'[u] = pc[u]
  BY <1>1, TeamType DEF StepInv, TypeOK
<1> QED
  BY <1>1, <1>2, OthersCount DEF Entered, Past, Fresh

\* At the last barrier it has passed all nodes.
LEMMA LastBarrierCounts ==
    ASSUME StepInv, ChunkInv, NEW t \in Team, LastBarrier(t) PROVE ChunkInv'
<1>1. /\ pc[t] = "loop" /\ GgmlBarrier(t, "ended")
      /\ UNCHANGED <<team, chunk, node, mine, done, twice>>
  BY DEF LastBarrier, shared, ghosts
<1>2. /\ pc' = [pc EXCEPT ![t] = pc'[t]] /\ then' = [then EXCEPT ![t] = then'[t]]
      /\ pc'[t] \in {"barrier", "ended"} /\ (pc'[t] = "barrier" => then'[t] = "ended")
  BY <1>1, GgmlBarrierMoves
<1>3. \A u \in Team \ {t} : pc'[u] = pc[u] /\ then'[u] = then[u]
  BY <1>2, TeamType DEF StepInv, TypeOK
<1> QED
  BY <1>1, <1>2, <1>3, OthersCount DEF Entered, Past, Fresh

\* A plain node has no chunks.
LEMMA PlainCounts == ASSUME StepInv, ChunkInv, NEW t \in Team, Plain(t) PROVE ChunkInv'
<1>1. /\ pc[t] = "work" /\ Nodes[node[t]].op = "plain" /\ pc' = [pc EXCEPT ![t] = "after"]
      /\ UNCHANGED <<team, chunk, then, node, mine, done, twice>>
  BY DEF Plain, Goto, shared, ghosts
<1>2. pc'[t] = "after" /\ \A u \in Team \ {t} : pc'[u] = pc[u]
  BY <1>1, TeamType DEF StepInv, TypeOK
<1>3. \A k \in 1..Len(Nodes) : Entered(t, k) => Entered(t, k)'
  BY <1>1, <1>2 DEF Entered, Fresh
<1>4. \A k \in 1..Len(Nodes) : Past(t, k)' /\ Nodes[k].op = "matmul" => Past(t, k)
  BY <1>1, <1>2 DEF Past, Fresh
<1> QED
  BY <1>1, <1>2, <1>3, <1>4, OthersCount

\* Who goes to the next node has passed this one already.
LEMMA AfterCounts == ASSUME StepInv, ChunkInv, NEW t \in Team, After(t) PROVE ChunkInv'
<1>1. /\ pc[t] = "after" /\ node' = [node EXCEPT ![t] = @ + 1]
      /\ UNCHANGED <<team, chunk, mine, done, twice>>
  BY DEF After, shared, ghosts
<1>2. node[t] \in 1..Len(Nodes) /\ TypeOK /\ Team \subseteq Threads /\ t \in Threads
  BY <1>1, AtNode
<1>3. /\ pc'[t] \in {"barrier", "loop"} /\ (pc'[t] = "barrier" => then'[t] = "loop")
      /\ \A u \in Team \ {t} : pc'[u] = pc[u] /\ then'[u] = then[u]
  <2>1. CASE node[t] < Len(Nodes)
    <3>1. GgmlBarrier(t, "loop")
      BY <2>1 DEF After, IsFollowed
    <3>2. pc[t] \notin {"single", "idle"}
      BY <1>1
    <3> QED
      BY <1>2, <3>1, <3>2, GgmlBarrierMoves DEF TypeOK
  <2>2. CASE ~(node[t] < Len(Nodes))
    BY <1>2, <2>2 DEF After, IsFollowed, Goto, TypeOK
  <2> QED
    BY <2>1, <2>2
<1>4. node'[t] = node[t] + 1 /\ \A u \in Team \ {t} : node'[u] = node[u]
  BY <1>1, <1>2 DEF TypeOK
<1>5. ~Fresh(t) /\ ~Fresh(t)'
  BY <1>1, <1>3 DEF Fresh
<1>6. \A k \in 1..Len(Nodes) : Entered(t, k) => Entered(t, k)'
  BY <1>1, <1>2, <1>4, <1>5, LenType DEF Entered
<1>7. \A k \in 1..Len(Nodes) : Past(t, k)' => Past(t, k)
  <2> SUFFICES ASSUME NEW k \in 1..Len(Nodes), Past(t, k)' PROVE Past(t, k)
    OBVIOUS
  <2>1. node[t] + 1 > k
    BY <1>3, <1>4 DEF Past
  <2>2. node[t] >= k
    BY <1>2, <2>1, LenType
  <2> QED
    BY <1>1, <1>2, <1>5, <2>2, LenType DEF Past
<1> QED
  BY <1>1, <1>3, <1>4, <1>6, <1>7, OthersCount

\* After the barrier of a product every thread has its own chunk.
LEMMA BarrierCounts == ASSUME StepInv, ChunkInv, Barrier PROVE ChunkInv'
<1>1. /\ team > 0 /\ \A t \in Team : pc[t] = "barrier"
      /\ pc' = [t \in Threads |-> IF t \in Team THEN then[t] ELSE pc[t]]
      /\ UNCHANGED <<team, chunk, then, node, mine, done, twice>>
  BY DEF Barrier, shared, ghosts
<1>2. Team' = Team /\ Team \subseteq Threads /\ team \in Nat
  BY <1>1, TeamType DEF Team, StepInv
<1>3. \A t \in Team : pc'[t] = then[t] /\ then[t] \in {"begin", "loop", "chunks", "ended"}
  BY <1>1, <1>2 DEF StepInv, TypeOK
<1>4. \A t \in Team : /\ Fresh(t)' <=> Fresh(t)
                      /\ \A k : (Past(t, k)' => Past(t, k)) /\ (Entered(t, k) => Entered(t, k)')
  BY <1>1, <1>3 DEF Fresh, Past, Entered
<1>5. \A k, i : Covered(k, i) => <<k, i>> \in done
  BY <1>1 DEF Covered, Held
<1>6. \A t \in Team : Counting(t) /\ Ready(t) /\ Passed(t)
  BY DEF ChunkInv
<1>7. ASSUME NEW t \in Team PROVE Passed(t)' /\ Ready(t)'
  <2>1. \A k : Chunks(k, team)' = Chunks(k, team)
    BY <1>1 DEF Chunks
  <2>2. \A k, i : Covered(k, i) => Covered(k, i)'
    BY <1>1, <1>5 DEF Covered
  <2> QED
    BY <1>3, <1>4, <1>6, <2>1, <2>2 DEF Passed, Ready
<1>8. ASSUME NEW t \in Team, pc'[t] = "chunks" PROVE Counting(t)'
  <2>1. \A u \in Team : then[u] = "chunks" /\ node[u] = node[t] /\ mine[u] = u
    BY <1>1, <1>3, <1>6, <1>8, WaitTogether DEF Ready
  <2>2. 0 \in Team /\ chunk = team
    BY <1>1, <1>2, <1>6, <2>1 DEF Team, Ready
  <2>3. \A i \in Nat : <<node[t], i>> \notin done
    <3> SUFFICES ASSUME NEW i \in Nat, <<node[t], i>> \in done PROVE FALSE
      OBVIOUS
    <3>0. node[t] \in 1..Len(Nodes) + 1
      BY <1>2 DEF StepInv, TypeOK
    <3>1. node[t] \in 1..Len(Nodes)
      BY <1>1, <2>1, <3>0, LenType DEF StepInv, Placed
    <3>2. PICK u \in Team : Entered(u, node[t])
      BY <1>1, <3>1 DEF ChunkInv, Reached
    <3> QED
      BY <1>1, <2>1, <3>0, <3>2, LenType DEF Entered
  <2>4. \A i \in 0..(chunk - 1) : Covered(node[t], i)'
    <3> SUFFICES ASSUME NEW i \in 0..(chunk - 1) PROVE Held(node[t], i)'
      BY <1>1 DEF Covered
    <3>1. i \in Team
      BY <2>2 DEF Team
    <3> QED
      BY <1>1, <1>2, <1>3, <2>1, <3>1 DEF Held
  <2>5. mine[t] \in Nat /\ mine[t] < chunk
    BY <1>2, <2>1, <2>2 DEF Team
  <2> QED
    BY <1>1, <1>2, <2>2, <2>3, <2>4, <2>5 DEF Counting
<1>9. Apart'
  <2> SUFFICES ASSUME NEW t \in Team, NEW u \in Team, pc'[t] = "chunks", pc'[u] = "chunks",
                      mine'[t] = mine'[u]
               PROVE  t = u
    BY <1>2 DEF Apart
  <2> QED
    BY <1>1, <1>3, <1>6 DEF Ready
<1>10. Reached'
  BY <1>1, <1>2, <1>4 DEF ChunkInv, Reached
<1>11. \A t \in Team : Counting(t)'
  BY <1>8 DEF Counting
<1>12. ~twice'
  BY <1>1 DEF ChunkInv
<1> QED
  BY <1>2, <1>7, <1>9, <1>10, <1>11, <1>12 DEF ChunkInv

\* A thread that converts: none computes chunks, and the first thread sets the
\* counter behind the chunks that the threads start with.
LEMMA ConvertCounts == ASSUME StepInv, ChunkInv, NEW t \in Team, Convert(t) PROVE ChunkInv'
<1>1. /\ pc[t] = "work" /\ Nodes[node[t]].op = "matmul" /\ GgmlBarrier(t, "chunks")
      /\ chunk' = (IF t = 0 THEN nth[t] ELSE chunk) /\ mine' = [mine EXCEPT ![t] = t]
      /\ UNCHANGED <<team, node, done, twice>>
  BY DEF Convert, FirstFree, ghosts
<1>2. /\ TypeOK /\ t \in Threads /\ Team \subseteq Threads /\ node[t] \in 1..Len(Nodes)
      /\ nth[t] = team /\ team \in Nat
  BY <1>1, AtNode, TeamType DEF StepInv, Counted
<1>3. /\ pc' = [pc EXCEPT ![t] = pc'[t]] /\ then' = [then EXCEPT ![t] = then'[t]]
      /\ pc'[t] \in {"barrier", "chunks"} /\ (pc'[t] = "barrier" => then'[t] = "chunks")
      /\ (team = 1 \/ pc'[t] = "barrier")
  BY <1>1, GgmlBarrierMoves
<1>4. /\ mine'[t] = t
      /\ \A u \in Team \ {t} : pc'[u] = pc[u] /\ then'[u] = then[u] /\ mine'[u] = mine[u]
  BY <1>1, <1>2, <1>3 DEF TypeOK
<1>5. \A u \in Team : pc[u] # "chunks"
  BY <1>1, GoalPlace DEF Working
<1>6. Team' = Team
  BY <1>1 DEF Team
<1>7. \A u \in Team : /\ Fresh(u)' <=> Fresh(u)
                      /\ \A k : (Past(u, k)' => Past(u, k)) /\ (Entered(u, k) => Entered(u, k)')
  BY <1>1, <1>3, <1>4 DEF Fresh, Past, Entered
<1>8. \A k, i : Covered(k, i) => Covered(k, i)'
  BY <1>1, <1>5 DEF Covered, Held
<1>9. \A u \in Team : Counting(u) /\ Ready(u) /\ Passed(u)
  BY DEF ChunkInv
<1>10. ASSUME NEW u \in Team PROVE Passed(u)' /\ Ready(u)'
  <2>1. \A k : Chunks(k, team)' = Chunks(k, team)
    BY <1>1 DEF Chunks
  <2>2. Passed(u)'
    BY <1>7, <1>8, <1>9, <2>1 DEF Passed
  <2>3. Ready(u)'
    BY <1>1, <1>2, <1>4, <1>9 DEF Ready
  <2> QED
    BY <2>2, <2>3
<1>11. ASSUME pc'[t] = "chunks" PROVE Apart' /\ \A u \in Team : Counting(u)'
  <2>1. team = 1
    BY <1>3, <1>11
  <2>2. t = 0 /\ Team = {0} /\ chunk' = 1
    BY <1>1, <1>2, <2>1 DEF Team
  <2>3. \A i \in Nat : <<node[t], i>> \notin done
    <3> SUFFICES ASSUME NEW i \in Nat, <<node[t], i>> \in done PROVE FALSE
      OBVIOUS
    <3>1. PICK u \in Team : Entered(u, node[t])
      BY <1>2, <2>1 DEF ChunkInv, Reached
    <3> QED
      BY <1>1, <1>2, <2>2, <3>1 DEF Entered
  <2>4. Held(node[t], 0)'
    BY <1>1, <1>4, <1>6, <1>11, <2>2 DEF Held
  <2>5. Counting(t)'
    BY <1>1, <1>4, <2>1, <2>2, <2>3, <2>4 DEF Counting, Covered
  <2> QED
    BY <1>6, <2>2, <2>5 DEF Apart
<1>13. Apart' /\ \A u \in Team : Counting(u)'
  <2>1. CASE pc'[t] = "barrier"
    <3>1. \A u \in Team : pc'[u] # "chunks"
      BY <1>4, <1>5, <2>1
    <3> QED
      BY <1>6, <3>1 DEF Apart, Counting
  <2> QED
    BY <1>3, <1>11, <2>1
<1>14. Reached'
  BY <1>1, <1>6, <1>7 DEF ChunkInv, Reached
<1>15. ~twice'
  BY <1>1 DEF ChunkInv
<1> QED
  BY <1>6, <1>10, <1>13, <1>14, <1>15 DEF ChunkInv

\* A chunk is computed: the next one is taken from the counter, or the thread
\* is through.
LEMMA ComputeChunkCounts ==
    ASSUME StepInv, ChunkInv, NEW t \in Team, ComputeChunk(t) PROVE ChunkInv'
<1>p. pc[t] = "chunks"
  BY DEF ComputeChunk
<1>t. /\ TypeOK /\ t \in Threads /\ Team \subseteq Threads /\ node[t] \in 1..Len(Nodes)
      /\ nth[t] = team /\ team \in Nat
  BY <1>p, AtNode, TeamType DEF StepInv, Counted
<1>0. PICK k \in 1..Len(Nodes), i \in Nat, n \in Nat :
        k = node[t] /\ i = mine[t] /\ n = Chunks(k, team)
  BY <1>t, ChunksType DEF TypeOK
<1>1. /\ TypeOK /\ t \in Threads /\ Team \subseteq Threads
      /\ nth[t] = team /\ team \in Nat /\ chunk \in Nat /\ pc[t] = "chunks"
  BY <1>p, <1>t DEF TypeOK
<1>2. /\ UNCHANGED <<team, then, node>>
      /\ IF i < n THEN done' = done \union {<<k, i>>} /\ twice' = (twice \/ <<k, i>> \in done)
         ELSE UNCHANGED <<done, twice>>
      /\ IF i < n /\ team < n
         THEN mine' = [mine EXCEPT ![t] = chunk] /\ chunk' = chunk + 1 /\ pc' = pc
         ELSE pc' = [pc EXCEPT ![t] = "after"] /\ UNCHANGED <<mine, chunk>>
  BY <1>0, <1>1 DEF ComputeChunk, Goto, ghosts
<1>3. \A u \in Team \ {t} : pc'[u] = pc[u] /\ mine'[u] = mine[u]
  BY <1>1, <1>2 DEF TypeOK
<1>4. \/ i < n /\ team < n /\ mine'[t] = chunk /\ chunk' = chunk + 1 /\ pc'[t] = "chunks"
      \/ ~(i < n /\ team < n) /\ pc'[t] = "after" /\ UNCHANGED <<mine, chunk>>
  BY <1>1, <1>2 DEF TypeOK
<1>5. Team' = Team /\ \A j : Chunks(j, team)' = Chunks(j, team)
  BY <1>2 DEF Team, Chunks
<1>6. \A u \in Team : Counting(u) /\ Ready(u) /\ Passed(u)
  BY DEF ChunkInv
<1>7. /\ team <= chunk /\ i < chunk /\ <<k, i>> \notin done
      /\ \A j \in 0..(chunk - 1) : j < n => Covered(k, j)
      /\ \A j \in Nat : <<k, j>> \in done => j < chunk
  BY <1>0, <1>1, <1>6 DEF Counting
<1>8. ~twice'
  BY <1>2, <1>7 DEF ChunkInv
<1>9. \A p : p \in done' => p \in done \/ (p = <<k, i>> /\ i < n)
  BY <1>2
<1>10. done \subseteq done' /\ (i < n => <<k, i>> \in done')
  BY <1>2
<1>11. ASSUME NEW m, NEW j \in Nat, Covered(m, j), m = k => j < n PROVE Covered(m, j)'
  <2>1. CASE <<m, j>> \in done
    BY <1>10, <2>1 DEF Covered
  <2>2. CASE Held(m, j)
    <3>1. PICK u \in Team : pc[u] = "chunks" /\ node[u] = m /\ mine[u] = j
      BY <2>2 DEF Held
    <3>2. CASE u = t
      BY <1>0, <1>10, <1>11, <3>1, <3>2 DEF Covered
    <3>3. CASE u # t
      BY <1>2, <1>3, <1>5, <3>1, <3>3 DEF Covered, Held
    <3> QED
      BY <3>2, <3>3
  <2> QED
    BY <1>11, <2>1, <2>2 DEF Covered
<1>12. \A u \in Team : /\ Fresh(u)' <=> Fresh(u)
                       /\ \A m : Entered(u, m) => Entered(u, m)'
                       /\ \A m : Past(u, m)' => Past(u, m) \/ (u = t /\ m = k /\ pc'[t] = "after")
  BY <1>0, <1>1, <1>2, <1>3, <1>4 DEF Fresh, Entered, Past
<1>13. ASSUME NEW u \in Team PROVE Passed(u)'
  <2> SUFFICES ASSUME NEW m \in 1..Len(Nodes), Past(u, m)', Nodes[m].op = "matmul",
                      NEW j \in 0..(Chunks(m, team) - 1)
               PROVE  Covered(m, j)'
    BY <1>5 DEF Passed
  <2>1. Chunks(m, team) \in Nat /\ j \in Nat /\ j < Chunks(m, team)
    BY <1>1, ChunksType
  <2>2. m = k => j < n
    BY <1>0, <2>1
  <2>3. CASE Past(u, m)
    <3>1. Covered(m, j)
      BY <1>6, <2>3 DEF Passed
    <3> QED
      BY <1>11, <2>1, <2>2, <3>1
  <2>4. CASE m = k /\ pc'[t] = "after"
    <3>1. j < n /\ ~(i < n /\ team < n)
      BY <1>4, <2>2, <2>4
    <3>2. j \in 0..(chunk - 1)
      BY <1>0, <1>1, <1>7, <2>1, <3>1
    <3>3. Covered(m, j)
      BY <1>7, <2>4, <3>1, <3>2
    <3> QED
      BY <1>11, <2>1, <2>2, <3>3
  <2> QED
    BY <1>12, <2>3, <2>4
<1>14. Reached'
  <2> SUFFICES ASSUME team > 0, NEW m \in 1..Len(Nodes), NEW j \in Nat, <<m, j>> \in done'
               PROVE  \E u \in Team : Entered(u, m)'
    BY <1>2, <1>5 DEF Reached
  <2>1. CASE <<m, j>> \in done
    BY <1>12, <2>1 DEF ChunkInv, Reached
  <2>2. CASE <<m, j>> = <<k, i>>
    <3>1. Entered(t, m)
      BY <1>0, <1>1, <2>2 DEF Entered, Fresh
    <3> QED
      BY <1>12, <3>1
  <2> QED
    BY <1>9, <2>1, <2>2
<1>15. ASSUME NEW u \in Team PROVE Ready(u)'
  <2> SUFFICES ASSUME pc'[u] = "barrier", then'[u] = "chunks"
               PROVE  mine'[u] = u /\ (u = 0 => chunk' = team')
    BY DEF Ready
  <2>1. u # t /\ pc[u] = "barrier" /\ then[u] = "chunks"
    BY <1>2, <1>3, <1>4
  <2>2. Goal(u) = <<"inner", {node[u]}>>
    <3>1. Goal(u) = GoalAt("chunks", node[u])
      BY <2>1 DEF Goal
    <3> QED
      BY <3>1 DEF GoalAt
  <2>3. Goal(t) = GoalAfter(k)
    BY <1>0, <1>1 DEF Goal
  <2>4. Goal(u) = Goal(t)
    BY DEF StepInv, SameGoal
  <2> QED
    BY <2>2, <2>3, <2>4 DEF GoalAfter
<1>16. \A u \in Team \ {t} : pc[u] = "chunks" =>
          node[u] = k /\ mine[u] # i /\ mine[u] < chunk /\ <<k, mine[u]>> \notin done
  <2> SUFFICES ASSUME NEW u \in Team, u # t, pc[u] = "chunks"
               PROVE  node[u] = k /\ mine[u] # i /\ mine[u] < chunk /\ <<k, mine[u]>> \notin done
    OBVIOUS
  <2>1. node[u] = k
    BY <1>0, <1>1, GoalPlace DEF Working
  <2>2. mine[u] # i
    BY <1>0, <1>1 DEF ChunkInv, Apart
  <2> QED
    BY <1>6, <2>1, <2>2 DEF Counting
<1>17. Apart'
  <2> SUFFICES ASSUME NEW u \in Team, NEW v \in Team, pc'[u] = "chunks", pc'[v] = "chunks",
                      mine'[u] = mine'[v], u # v
               PROVE  FALSE
    BY <1>5 DEF Apart
  <2>1. CASE u # t /\ v # t
    BY <1>3, <2>1 DEF ChunkInv, Apart
  <2>2. ASSUME NEW w \in Team, w # t, pc'[w] = "chunks", pc'[t] = "chunks", mine'[w] = mine'[t]
        PROVE  FALSE
    <3>1. mine[w] < chunk /\ mine[w] = chunk
      BY <1>3, <1>4, <1>16, <2>2
    <3> QED
      BY <1>1, <3>1
  <2> QED
    BY <2>1, <2>2
<1>18. ASSUME NEW u \in Team, pc'[u] = "chunks" PROVE Counting(u)'
  <2>1. pc[u] = "chunks" /\ node'[u] = k
    BY <1>0, <1>1, <1>2, <1>3, <1>4, <1>16, <1>18
  <2>c. PICK c \in Nat : c = chunk'
    BY <1>1, <1>4
  <2>2. chunk' \in Nat /\ chunk <= c /\ c <= chunk + 1
    BY <1>1, <1>4, <2>c
  <2>3. mine'[u] < chunk' /\ <<k, mine'[u]>> \notin done'
    <3>1. CASE u = t
      <4>1. mine'[u] = chunk /\ chunk' = chunk + 1
        BY <1>4, <1>18, <3>1
      <4>2. <<k, chunk>> \notin done /\ chunk # i
        BY <1>1, <1>7
      <4> QED
        BY <1>1, <1>9, <4>1, <4>2
    <3>2. CASE u # t
      <4>1. mine'[u] = mine[u] /\ mine[u] # i /\ mine[u] < chunk /\ <<k, mine[u]>> \notin done
        BY <1>3, <1>16, <2>1, <3>2
      <4>2. mine[u] \in Nat
        BY <1>1 DEF TypeOK
      <4>3. mine[u] < c
        BY <1>1, <2>2, <4>1, <4>2
      <4>4. <<k, mine[u]>> \notin done'
        BY <1>9, <4>1
      <4> QED
        BY <2>c, <4>1, <4>3, <4>4
    <3> QED
      BY <3>1, <3>2
  <2>4. ASSUME NEW j \in 0..(c - 1), j < n PROVE Covered(k, j)'
    <3>1. CASE j < chunk
      <4>1. j \in 0..(chunk - 1) /\ j \in Nat
        BY <1>1, <2>2, <3>1
      <4> QED
        BY <1>7, <1>11, <2>4, <4>1
    <3>2. CASE ~(j < chunk)
      <4>1. c = chunk + 1 /\ j = chunk
        BY <1>1, <2>2, <2>4, <3>2
      <4>2. pc'[t] = "chunks" /\ mine'[t] = j /\ node'[t] = k
        BY <1>0, <1>1, <1>2, <1>4, <2>c, <4>1
      <4>3. Held(k, j)'
        BY <1>5, <4>2 DEF Held
      <4> QED
        BY <4>3 DEF Covered
    <3> QED
      BY <3>1, <3>2
  <2>5. \A j \in Nat : <<k, j>> \in done' => j < chunk'
    BY <1>1, <1>7, <1>9, <2>c, <2>2
  <2>6. team' = team /\ team <= c /\ Chunks(k, team) = n
    BY <1>0, <1>1, <1>2, <1>7, <2>2
  <2> QED
    BY <2>c, <2>1, <2>3, <2>4, <2>5, <2>6 DEF Counting, Chunks
<1>19. \A u \in Team : Counting(u)'
  BY <1>18 DEF Counting
<1> QED
  BY <1>5, <1>8, <1>13, <1>14, <1>15, <1>17, <1>19 DEF ChunkInv

\* Every step keeps the count of the chunks right.
LEMMA NextChunkInv == StepInv /\ ChunkInv /\ [Next]_vars => ChunkInv'
<1> SUFFICES ASSUME StepInv, ChunkInv, [Next]_vars PROVE ChunkInv'
  OBVIOUS
<1>1. CASE Next
  <2>1. ASSUME NEW t \in Threads, ThreadStep(t) PROVE ChunkInv'
    <3>1. pc[t] # "idle"
      BY <2>1 DEF ThreadStep, Single, Begin, SkipNode, TakeNode, LastBarrier, Plain,
                  Convert, ComputeChunk, After
    <3>2. t \in Team
      BY <2>1, <3>1, InTeam DEF StepInv
    <3> QED
      BY <2>1, <3>2, SingleCounts, BeginCounts, SkipNodeCounts, TakeNodeCounts,
         LastBarrierCounts, PlainCounts, ConvertCounts, ComputeChunkCounts, AfterCounts
         DEF ThreadStep
  <2> QED
    BY <1>1, <2>1, CallCounts, ReturnCounts, BarrierCounts DEF Next
<1>2. CASE UNCHANGED vars
  <2>1. UNCHANGED <<team, chunk, pc, then, node, mine, done, twice>>
    BY <1>2 DEF vars, shared, local, ghosts
  <2>2. Team' = Team
    BY <2>1 DEF Team
  <2>3. \A k, i : Covered(k, i)' <=> Covered(k, i)
    BY <2>1, <2>2 DEF Covered, Held
  <2>4. \A t : Counting(t) => Counting(t)'
    BY <2>1, <2>3 DEF Counting, Chunks
  <2>5. \A t : (Ready(t) => Ready(t)') /\ (Passed(t) => Passed(t)')
    BY <2>1, <2>3 DEF Ready, Passed, Past, Fresh, Chunks
  <2>6. (Apart => Apart') /\ (Reached => Reached')
    BY <2>1, <2>2 DEF Apart, Reached, Entered, Fresh
  <2> QED
    BY <2>1, <2>2, <2>4, <2>5, <2>6 DEF ChunkInv
<1> QED
  BY <1>1, <1>2

\* A team that is through has passed every node.
LEMMA ThroughCovers ==
    ASSUME StepInv, ChunkInv, Through, NEW n \in 1..Len(Nodes), Nodes[n].op = "matmul",
           NEW i \in 0..(Chunks(n, team) - 1)
    PROVE  <<n, i>> \in done
<1>1. team > 0 /\ \A t \in Team : pc[t] = "ended"
  BY DEF Through
<1>2. 0 \in Team /\ node[0] = Len(Nodes) + 1
  <2>1. 0 \in Team
    BY <1>1, TeamType DEF StepInv, Team
  <2> QED
    BY <1>1, <2>1 DEF StepInv, Placed
<1>3. Past(0, n)
  BY <1>1, <1>2, LenType DEF Past, Fresh
<1>4. Covered(n, i)
  BY <1>2, <1>3 DEF ChunkInv, Passed
<1> QED
  BY <1>1, <1>4 DEF Covered, Held

\* Whatever team OpenMP gives, no chunk of a product is computed twice, and a
\* graph that is through has them all.
THEOREM AllChunks == Spec => []EveryChunkOnce
<1>1. StepInv /\ ChunkInv => EveryChunkOnce
  <2> SUFFICES ASSUME StepInv, ChunkInv PROVE EveryChunkOnce
    OBVIOUS
  <2>1. ASSUME Through, NEW n \in 1..Len(Nodes), Nodes[n].op = "matmul"
        PROVE  {n} \X (0..(Chunks(n, team) - 1)) \subseteq done
    BY <2>1, ThroughCovers
  <2> QED
    BY <2>1 DEF EveryChunkOnce, ChunkInv
<1> QED
  BY <1>1, InitChunkInv, NextChunkInv, StepInvariant, PTL DEF Spec
=============================================================================
