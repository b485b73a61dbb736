----------------------- MODULE TranscriptionQueueProofs -----------------------
(***************************************************************************)
(* Proofs about TranscriptionQueue for every value of its constants: the   *)
(* type invariant, mutual exclusion of the drains, that a job never gets a *)
(* second result while it has one, that a cancel() that was carried out    *)
(* sticks, and that the queue implements JobLifecycle.                     *)
(*                                                                         *)
(* The inductive invariant IInv adds to the invariants that the runs check *)
(* what the drain that holds the mutex knows about the row it works on:    *)
(* the row it read is the row in the table as far as the result goes,      *)
(* because every other writer of that column would need the mutex too or   *)
(* only ever clears it.                                                    *)
(***************************************************************************)
EXTENDS TranscriptionQueue, TLAPS, WellFoundedInduction, SequenceTheorems

\* processOne before execute() has committed.
Working == InProcessOne \ {"finish", "write", "catch", "finally"}

JobInHand ==
    /\ \A d \in Drains :
        /\ drain[d].pc \in InProcessOne \cup {"normalize"} => drain[d].job \in Jobs
        /\ drain[d].pc = "whisper" => drain[d].left > 0
    /\ timeout.pc \in {"flag", "retry"} => timeout.job \in Jobs
    /\ \A c \in Callers : caller[c].pc \in {"native", "write"} => caller[c].job \in Jobs
    /\ destroying => messages # <<>>

\* CurrentJobIsHeld, and where the holder is while currentJobId is set.
LockHeld ==
    /\ \A d \in Drains : drain[d].pc \in UnderLock <=> holder = d
    /\ currentJob # NoJob => /\ holder # None
                             /\ drain[holder].pc \in InProcessOne
                             /\ currentJob = drain[holder].job

ResultsSaved ==
    /\ \A j \in Jobs : table[j].result <= transcripts[j]
    /\ CompletedHasTranscript

\* The only transcript that the row of a job in hand may point at is the one
\* that this drain has committed, and then nobody has put the row to work.
Kept(r) ==
    table[r.job].result # 0 =>
        /\ r.left = 0 /\ r.seen = table[r.job].result
        /\ table[r.job].status \in {"COMPLETED", "CANCELLED"}

\* What a drain has read or decided is still true of the store.
DecisionSound(r) ==
    /\ r.pc \in Working => table[r.job].result = 0
    /\ r.pc = "commit" => r.left = 0
    /\ r.pc \in {"normalize", "finish"} => r.seen \in 1..transcripts[r.job]
    /\ r.pc \in {"write", "catch"} =>
          /\ r.op # "none"
          /\ r.op = "complete" => r.seen \in 1..transcripts[r.job]
    /\ r.pc \in {"finish", "write", "catch"} => Kept(r)

DecisionsSound == \A d \in Drains : DecisionSound(drain[d])

IInv == TypeOK /\ JobInHand /\ LockHeld /\ ResultsSaved /\ DecisionsSound

-----------------------------------------------------------------------------
(* The operators of JobStore.                                              *)

\* Oldest is well defined: a set of jobs that is not empty has a least one.
LEMMA OldestType ==
    ASSUME NEW S \in SUBSET Jobs, S # {}
    PROVE  Oldest(S) \in S
<1>1. S \subseteq Nat
    BY MaxJobsAssumption DEF Jobs
<1>2. PICK j \in S : \A k \in S : ~(<<k, j>> \in OpToRel(<, Nat))
    BY <1>1, NatLessThanWellFounded, WFMin, Zenon
<1>3. \A k \in S : ~(k < j)
    BY <1>1, <1>2, Zenon DEF OpToRel
<1> HIDE <1>2
<1>4. \A k \in S : j <= k
  <2>1. j \in Nat /\ \A k \in S : k \in Nat
      BY <1>1
  <2> QED
      BY <2>1, <1>3
<1> QED
    BY <1>4 DEF Oldest

\* An SQL UPDATE of one row leaves a table.
LEMMA UpdateType ==
    ASSUME NEW t \in Table, NEW j \in Jobs, NEW row \in Row
    PROVE  Update(t, j, row) \in Table
BY DEF Update, Table

\* So does updateState(),
LEMMA UpdateStateType ==
    ASSUME NEW t \in Table, NEW j \in Jobs, NEW s \in Statuses
    PROVE  UpdateState(t, j, s) \in Table
<1>1. [t[j] EXCEPT !.status = s] \in Row
    BY DEF Table, Row
<1> QED
    BY <1>1, UpdateType DEF UpdateState

\* complete(),
LEMMA CompleteType ==
    ASSUME NEW t \in Table, NEW j \in Jobs, NEW n \in Nat
    PROVE  Complete(t, j, n) \in Table
<1>1. [t[j] EXCEPT !.status = "COMPLETED", !.result = n] \in Row
    BY DEF Table, Row, Statuses
<1> QED
    BY <1>1, UpdateType DEF Complete

\* retry(),
LEMMA RetryRowType ==
    ASSUME NEW t \in Table, NEW j \in Jobs
    PROVE  RetryRow(t, j) \in Table
<1>1. [t[j] EXCEPT !.status = "QUEUED", !.result = 0] \in Row
    BY DEF Table, Row, Statuses
<1> QED
    BY <1>1, UpdateType DEF RetryRow

\* setPreparedInput(),
LEMMA SetPreparedInputType ==
    ASSUME NEW t \in Table, NEW j \in Jobs
    PROVE  SetPreparedInput(t, j) \in Table
<1>1. [t[j] EXCEPT !.prepared = TRUE] \in Row
    BY DEF Table, Row
<1> QED
    BY <1>1, UpdateType DEF SetPreparedInput

\* insert(),
LEMMA InsertType ==
    ASSUME NEW t \in Table, NEW j \in Jobs
    PROVE  Insert(t, j) \in Table
BY DEF Insert, Table, Row, Statuses

\* and every statement about more than one row.
LEMMA WholeTableType ==
    ASSUME NEW t \in Table
    PROVE  RecoverInterrupted(t) \in Table /\ ClearFinishedHistory(t) \in Table
BY DEF RecoverInterrupted, ClearFinishedHistory, Table, Row, NoRow, Statuses

-----------------------------------------------------------------------------
(* Types.                                                                  *)

\* The type invariant of the variables, where one drain moves.
LEMMA GoToType ==
    ASSUME drain \in [Drains -> DrainState], NEW d \in Drains,
           NEW pc \in DrainPc, GoTo(d, pc)
    PROVE  drain' \in [Drains -> DrainState]
BY DEF GoTo, DrainState

\* A drain that has decided on an outcome, in the try block or in a catch block.
Decides(d, op) == WriteNext(d, op) \/ CatchNext(d, op)

\* What it is then.
LEMMA Decided ==
    ASSUME drain \in [Drains -> DrainState], NEW d \in Drains,
           NEW op, Decides(d, op)
    PROVE  /\ \A e \in Drains \ {d} : drain'[e] = drain[e]
           /\ drain'[d].pc \in {"write", "catch"} /\ drain'[d].op = op
           /\ drain'[d].job = drain[d].job /\ drain'[d].seen = drain[d].seen
           /\ drain'[d].left = drain[d].left
           /\ \E pc \in {"write", "catch"} :
                 drain' = [drain EXCEPT ![d] = [drain[d] EXCEPT !.pc = pc, !.op = op]]
BY DEF Decides, WriteNext, CatchNext, DrainState

\* It has its type.
LEMMA DecidesType ==
    ASSUME drain \in [Drains -> DrainState], NEW d \in Drains,
           NEW op \in RowWrites, Decides(d, op)
    PROVE  drain' \in [Drains -> DrainState]
<1>1. \A pc \in {"write", "catch"} : [drain[d] EXCEPT !.pc = pc, !.op = op] \in DrainState
    BY ZenonT(60) DEF DrainState, DrainPc, UnderLock, InProcessOne
<1>2. PICK pc \in {"write", "catch"} :
          drain' = [drain EXCEPT ![d] = [drain[d] EXCEPT !.pc = pc, !.op = op]]
    BY Decided
<1> QED
    BY <1>1, <1>2

\* A drain that is replaced by one of its type.
LEMMA PutType ==
    ASSUME drain \in [Drains -> DrainState], NEW d \in Drains,
           NEW r \in DrainState, drain' = [drain EXCEPT ![d] = r]
    PROVE  drain' \in [Drains -> DrainState]
OBVIOUS

\* What processOne() and handleAbort() decide is a final row update.
LEMMA OpTypes ==
    ASSUME NEW j \in Jobs, NEW op \in RowWrites
    PROVE  AbortOp(j) \in RowWrites /\ OutcomeOp(j, op) \in RowWrites
BY DEF AbortOp, OutcomeOp, RowWrites

\* A drain that has ended has its type.
LEMMA OffDrainType ==
    /\ OffDrain \in DrainState
    /\ \A pc \in DrainPc : [OffDrain EXCEPT !.pc = pc] \in DrainState
<1>1. 0 \in 0..Windows
    BY QueueAssumption
<1>2. \A pc \in DrainPc : [OffDrain EXCEPT !.pc = pc] \in DrainState
    BY <1>1 DEF OffDrain, DrainState, RowWrites, NoJob
<1>3. OffDrain.pc \in DrainPc /\ OffDrain = [OffDrain EXCEPT !.pc = OffDrain.pc]
    BY DEF OffDrain, DrainPc
<1> QED
    BY <1>2, <1>3

\* cancelCurrentPreparation() leaves the drains well typed.
LEMMA CancelPreparationType ==
    ASSUME drain \in [Drains -> DrainState], NEW where
    PROVE  CancelPreparation(where) \in [Drains -> DrainState]
BY DEF CancelPreparation, DrainState, DrainPc, UnderLock, InProcessOne

\* There is a message once one has been sent.
LEMMA ScheduledMessages ==
    ASSUME NEW m \in Seq({"start", "cancel", "destroy"}), NEW x \in {"start", "cancel", "destroy"}
    PROVE  Append(m, x) # <<>>
BY AppendProperties

\* The types hold at the start, and no drain has a job.
LEMMA InitType == Init => TypeOK /\ JobInHand
<1> SUFFICES ASSUME Init PROVE TypeOK /\ JobInHand
    OBVIOUS
<1> USE DEF Init
<1>1. table \in Table
    BY DEF Table, Row, NoRow, Statuses
<1>2. drain \in [Drains -> DrainState]
    BY OffDrainType
<1>3. timeout \in TimeoutState
    BY DEF NoTimeout, TimeoutState
<1>4. caller \in [Callers -> CallerState]
    BY DEF IdleCaller, CallerState
<1>5. inserted \in 0..MaxJobs
    BY QueueAssumption
<1>t. transcripts \in [Jobs -> Nat]
    OBVIOUS
<1>b. budget \in [Disturbances -> Nat]
    BY QueueAssumption
<1>m. messages \in Seq({"start", "cancel", "destroy"})
    OBVIOUS
<1>6. TypeOK
    BY <1>1, <1>2, <1>3, <1>4, <1>5, <1>t, <1>b, <1>m DEF TypeOK, NoJob
<1>7. JobInHand
    BY DEF JobInHand, OffDrain, NoTimeout, IdleCaller, InProcessOne
<1> QED
    BY <1>6, <1>7

\* Every step of a drain keeps the types.
LEMMA DrainStepType ==
    ASSUME TypeOK, JobInHand, NEW d \in Drains, DrainStep(d)
    PROVE  TypeOK'
<1> USE DEF TypeOK, store, flags, service, screens, manager, ghosts
<1>j. drain[d].pc \in InProcessOne \cup {"normalize"} =>
          /\ drain[d].job \in Jobs
          /\ AbortOp(drain[d].job) \in RowWrites
          /\ \A op \in RowWrites : OutcomeOp(drain[d].job, op) \in RowWrites
  <2>1. drain[d].pc \in InProcessOne \cup {"normalize"} => drain[d].job \in Jobs
      BY DEF JobInHand
  <2>2. "none" \in RowWrites
      BY DEF RowWrites
  <2> QED
      BY <2>1, <2>2, OpTypes
<1>o. {"complete", "retry", "cancel", "fail"} \subseteq RowWrites
    BY DEF RowWrites
<1>w. ASSUME NEW op \in RowWrites, WriteNext(d, op) \/ CatchNext(d, op)
      PROVE  drain' \in [Drains -> DrainState]
    BY <1>w, DecidesType DEF Decides
<1>1. CASE Acquire(d)
    BY <1>1, GoToType DEF Acquire, DrainPc, UnderLock, InProcessOne
<1>2. CASE TakeNext(d)
  <2> DEFINE j == Oldest(Queued(table))
  <2>1. j \in Jobs
    <3>1. Queued(table) \in SUBSET Jobs /\ Queued(table) # {}
        BY <1>2 DEF TakeNext, Queued
    <3> QED
        BY <3>1, OldestType
  <2>2. table[j].result \in Nat /\ table[j].prepared \in BOOLEAN
    <3>1. table[j] \in Row
        BY <2>1 DEF Table
    <3> QED
        BY <3>1 DEF Row
  <2>3. Windows \in 0..Windows
      BY QueueAssumption
  <2>4. [pc |-> IF table[j].result # 0 THEN "normalize" ELSE "claim",
         job |-> j, seen |-> table[j].result, ready |-> table[j].prepared,
         op |-> "none", left |-> Windows] \in DrainState
      BY <2>1, <2>2, <2>3 DEF DrainState, DrainPc, UnderLock, InProcessOne, RowWrites
  <2> QED
      BY <1>2, <2>4, PutType DEF TakeNext
<1>3. CASE NothingQueued(d)
    BY <1>3, OffDrainType, PutType DEF NothingQueued, NoJob, DrainPc
<1>4. CASE Normalize(d)
  <2>1. drain[d].seen \in Nat
      BY DEF DrainState
  <2>2. table' \in Table
      BY <1>4, <2>1, <1>j, CompleteType DEF Normalize, Runs
  <2> QED
      BY <1>4, <2>2, GoToType DEF Normalize, DrainPc, UnderLock, InProcessOne
<1>5. CASE Claim(d)
    BY <1>5, <1>j, <1>o, GoToType, <1>w DEF Claim, Runs, DrainPc, UnderLock, InProcessOne
<1>6. CASE MarkProcessing(d)
  <2>1. table' \in Table
      BY <1>6, <1>j, UpdateStateType DEF MarkProcessing, Runs, InProcessOne, Statuses
  <2> QED
      BY <1>6, <2>1, <1>j, <1>o, GoToType, <1>w
      DEF MarkProcessing, Runs, DrainPc, UnderLock, InProcessOne
<1>7. CASE PublishRuntime(d)
    BY <1>7, <1>j, <1>o, GoToType, <1>w
    DEF PublishRuntime, Runs, DrainPc, UnderLock, InProcessOne
<1>8. CASE Prepare(d)
    BY <1>8, <1>j, <1>o, GoToType, <1>w DEF Prepare, Runs, DrainPc, UnderLock, InProcessOne
<1>9. CASE StartExtraction(d)
    BY <1>9, <1>j, <1>o, GoToType, <1>w
    DEF StartExtraction, Runs, DrainPc, UnderLock, InProcessOne
<1>10. CASE ExtractionCompletes(d)
    BY <1>10, <1>j, <1>o, GoToType, <1>w
    DEF ExtractionCompletes, Runs, DrainPc, UnderLock, InProcessOne
<1>11. CASE ExtractionFails(d)
    BY <1>11, <1>j, <1>o, GoToType, <1>w
    DEF ExtractionFails, Runs, DrainPc, UnderLock, InProcessOne
<1>12. CASE CheckPrepared(d)
  <2>1. table' \in Table
      BY <1>12, <1>j, SetPreparedInputType DEF CheckPrepared, Runs, InProcessOne, Statuses
  <2> QED
      BY <1>12, <2>1, <1>j, <1>o, GoToType, <1>w
      DEF CheckPrepared, Runs, DrainPc, UnderLock, InProcessOne
<1>13. CASE LoadModel(d)
    BY <1>13, <1>j, <1>o, GoToType, <1>w
    DEF LoadModel, Runs, DrainPc, UnderLock, InProcessOne
<1>14. CASE NextWindow(d)
    BY ZenonT(60), <1>14, <1>j, <1>o, GoToType, <1>w
    DEF NextWindow, Runs, DrainPc, UnderLock, InProcessOne
<1>15. CASE WindowEnds(d)
  <2>1. CASE drain' = [drain EXCEPT ![d].pc = "progress", ![d].left = @ - 1]
           \/ drain' = [drain EXCEPT ![d].pc = "loop", ![d].left = @ - 1]
    <3>1. drain[d].left \in 1..Windows
        BY <1>15, QueueAssumption DEF WindowEnds, Runs, JobInHand, DrainState
    <3>2. drain[d].left - 1 \in 0..Windows
        BY <3>1, QueueAssumption
    <3>3. drain' \in [Drains -> DrainState]
      <4>1. PICK pc \in {"progress", "loop"} :
                drain' = [drain EXCEPT ![d].pc = pc, ![d].left = @ - 1]
          BY <2>1
      <4> DEFINE r == [drain[d] EXCEPT !.pc = pc, !.left = @ - 1]
      <4>2. r \in DrainState
          BY ZenonT(60), <3>2 DEF DrainState, DrainPc, UnderLock, InProcessOne
      <4>3. drain' = [drain EXCEPT ![d] = r]
          BY <4>1 DEF DrainState
      <4> QED
          BY <4>2, <4>3, PutType
    <3> QED
        BY <1>15, <3>3 DEF WindowEnds
  <2>2. CASE \E op \in RowWrites : CatchNext(d, op)
      BY <1>15, <2>2, <1>w DEF WindowEnds
  <2> QED
      BY <1>15, <1>j, <1>o, <2>1, <2>2 DEF WindowEnds, Runs, InProcessOne
<1>16. CASE ReportProgress(d)
  <2>1. table' \in Table
      BY <1>16, <1>j, UpdateStateType DEF ReportProgress, Runs, InProcessOne, Statuses
  <2> QED
      BY <1>16, <2>1, <1>j, <1>o, GoToType, <1>w
      DEF ReportProgress, Runs, DrainPc, UnderLock, InProcessOne
<1>17. CASE CommitTranscript(d)
  <2> DEFINE n == transcripts[drain[d].job] + 1
  <2>1. drain[d].job \in Jobs /\ n \in Nat
      BY <1>17, <1>j DEF CommitTranscript, Runs, InProcessOne
  <2>2. CASE CatchNext(d, OutcomeOp(drain[d].job, "fail"))
             /\ UNCHANGED <<table, transcripts>>
      BY <1>17, <2>2, <1>j, <1>o, <1>w DEF CommitTranscript, Runs, InProcessOne
  <2>3. CASE /\ transcripts' = [transcripts EXCEPT ![drain[d].job] = n]
             /\ table' = Complete(table, drain[d].job, n)
             /\ drain' = [drain EXCEPT ![d].pc = "finish", ![d].seen = n]
    <3>1. drain' \in [Drains -> DrainState]
      <4> DEFINE r == [drain[d] EXCEPT !.pc = "finish", !.seen = n]
      <4>1. r \in DrainState
          BY ZenonT(60), <2>1 DEF DrainState, DrainPc, UnderLock, InProcessOne
      <4>2. drain' = [drain EXCEPT ![d] = r]
          BY <2>3 DEF DrainState
      <4> QED
          BY <4>1, <4>2, PutType
    <3>2. table' \in Table
        BY <2>1, <2>3, CompleteType
    <3>3. transcripts' \in [Jobs -> Nat]
        BY <2>1, <2>3
    <3> QED
        BY <1>17, <3>1, <3>2, <3>3 DEF CommitTranscript
  <2> QED
      BY <1>17, <2>2, <2>3 DEF CommitTranscript
<1>18. CASE Finish(d)
    BY <1>18, <1>j, <1>o, GoToType, <1>w DEF Finish, Runs, DrainPc, UnderLock, InProcessOne
<1>19. CASE WriteOutcome(d)
  <2>1. drain[d].seen \in Nat
      BY DEF DrainState
  <2>2. table' \in Table
      BY <1>19, <2>1, <1>j, UpdateStateType, CompleteType, RetryRowType
      DEF WriteOutcome, Runs, InProcessOne, Statuses
  <2> QED
      BY <1>19, <2>2, GoToType DEF WriteOutcome, DrainPc, UnderLock, InProcessOne
<1>24. CASE StatementThrows(d)
    BY <1>24, <1>j, <1>o, <1>w DEF StatementThrows, Runs, InProcessOne
<1>20. CASE Finally(d)
    BY <1>20, OffDrainType, PutType
    DEF Finally, ForgetCurrent, NoJob, DrainPc, UnderLock, InProcessOne
<1>21. CASE CheckLeftOver(d)
    BY <1>21, GoToType DEF CheckLeftOver, DrainPc, UnderLock, InProcessOne
<1>22. CASE StopSelf(d)
    BY <1>22, GoToType DEF StopSelf, StopService, DrainPc
<1>23. CASE Unwind(d)
    BY <1>23, OffDrainType, PutType DEF Unwind, ForgetCurrent, NoJob
<1> QED
    BY <1>1, <1>2, <1>3, <1>4, <1>5, <1>6, <1>7, <1>8, <1>9, <1>10, <1>11, <1>12, <1>13,
        <1>14, <1>15, <1>16, <1>17, <1>18, <1>19, <1>20, <1>21, <1>22, <1>23, <1>24
    DEF DrainStep

\* So does every step of the service, the callers, the screens and Android.
LEMMA OtherStepType ==
    ASSUME TypeOK, JobInHand, [Next]_vars, \A d \in Drains : ~DrainStep(d)
    PROVE  TypeOK'
<1> USE DEF TypeOK, store, flags, service, screens, manager, ghosts
<1>o. NoTimeout \in TimeoutState /\ IdleCaller \in CallerState
    BY DEF NoTimeout, TimeoutState, IdleCaller, CallerState
<1>1. CASE OnStartCommand
  <2>1. messages' \in Seq({"start", "cancel", "destroy"})
      BY <1>1 DEF OnStartCommand
  <2>2. drain' \in [Drains -> DrainState]
    <3>1. [OffDrain EXCEPT !.pc = "lock"] \in DrainState
        BY OffDrainType DEF DrainPc
    <3> QED
        BY <1>1, <3>1, PutType DEF OnStartCommand
  <2>3. mine' \in Drains \cup {None}
      BY <1>1 DEF OnStartCommand, Free
  <2> QED
      BY <1>1, <2>1, <2>2, <2>3 DEF OnStartCommand
<1>2. CASE OnDestroyBegins
  <2>1. drain' \in [Drains -> DrainState]
      BY <1>2, CancelPreparationType DEF OnDestroyBegins
  <2>2. systemRequeue' \in SUBSET Jobs
      BY <1>2 DEF OnDestroyBegins, NoJob
  <2> QED
      BY <1>2, <2>1, <2>2 DEF OnDestroyBegins
<1>3. CASE OnDestroyEnds
  <2>1. messages' \in Seq({"start", "cancel", "destroy"})
    <3>1. messages # <<>> /\ messages' = Tail(messages)
        BY <1>3 DEF OnDestroyEnds, JobInHand
    <3> QED
        BY <3>1
  <2> QED
      BY <1>3, <1>o, <2>1 DEF OnDestroyEnds
<1>4. CASE OnTimeout
  <2>1. timeout' \in TimeoutState
      BY <1>4 DEF OnTimeout, TimeoutState, NoJob
  <2>2. budget' \in [Disturbances -> Nat]
      BY <1>4 DEF OnTimeout, Spend, Disturbances
  <2> QED
      BY <1>4, <2>1, <2>2 DEF OnTimeout
<1>5. CASE TimeoutReads
  <2>1. timeout' \in TimeoutState
      BY <1>5 DEF TimeoutReads, TimeoutState, NoJob
  <2> QED
      BY <1>5, <2>1 DEF TimeoutReads
<1>6. CASE TimeoutFlags
  <2>1. timeout' \in TimeoutState
      BY <1>6 DEF TimeoutFlags, TimeoutState, NoJob
  <2>2. drain' \in [Drains -> DrainState]
      BY <1>6, CancelPreparationType DEF TimeoutFlags
  <2>3. systemRequeue' \in SUBSET Jobs
      BY <1>6 DEF TimeoutFlags, JobInHand
  <2> QED
      BY <1>6, <2>1, <2>2, <2>3 DEF TimeoutFlags
<1>7. CASE TimeoutRequeues
  <2>1. timeout' \in TimeoutState
      BY <1>7 DEF TimeoutRequeues, TimeoutState, NoJob
  <2>2. table' \in Table
      BY <1>7, RetryRowType DEF TimeoutRequeues, JobInHand
  <2> QED
      BY <1>7, <2>1, <2>2 DEF TimeoutRequeues
<1>8. CASE TimeoutStops
  <2>1. messages' \in Seq({"start", "cancel", "destroy"})
    <3>1. messages' = Append(messages, "destroy") \/ messages' = messages
        BY <1>8 DEF TimeoutStops, StopService
    <3>2. Append(messages, "destroy") \in Seq({"start", "cancel", "destroy"})
        OBVIOUS
    <3> QED
        BY <3>1, <3>2
  <2> QED
      BY <1>8, <1>o, <2>1 DEF TimeoutStops
<1>9. CASE Enqueue
  <2>1. inserted + 1 \in Jobs
      BY <1>9, MaxJobsAssumption DEF Enqueue, Jobs
  <2>2. table' \in Table
      BY <1>9, <2>1, InsertType DEF Enqueue
  <2>3. inserted' \in 0..MaxJobs
      BY <1>9, <2>1 DEF Enqueue, Jobs
  <2> QED
      BY <1>9, <2>2, <2>3 DEF Enqueue
<1>10. CASE StartService
  <2>1. timeout' \in TimeoutState
      BY <1>10 DEF StartService, TimeoutState
  <2> QED
      BY <1>10, <2>1 DEF StartService
<1>11. CASE ModelDownloaded
    BY <1>11 DEF ModelDownloaded
<1>12. CASE ClearFinished
  <2>1. budget' \in [Disturbances -> Nat]
      BY <1>12 DEF ClearFinished, Spend, Disturbances
  <2> QED
      BY <1>12, <2>1, WholeTableType DEF ClearFinished
<1>13. CASE BecomeVisible
    BY <1>13 DEF BecomeVisible
<1>14. CASE ResumeRecovers
    BY <1>14, WholeTableType DEF ResumeRecovers
<1>15. CASE ResumeChecks
    BY <1>15 DEF ResumeChecks
<1>16. CASE ApplicationRecovers
    BY <1>16, WholeTableType DEF ApplicationRecovers
<1>17. CASE ProcessDeath
  <2>1. budget' \in [Disturbances -> Nat]
      BY <1>17 DEF ProcessDeath, Spend, Disturbances
  <2>2. /\ drain' \in [Drains -> DrainState]
        /\ caller' \in [Callers -> CallerState]
        /\ messages' \in Seq({"start", "cancel", "destroy"})
      BY <1>17, <1>o, OffDrainType DEF ProcessDeath
  <2>3. UNCHANGED <<table, transcripts, inserted>>
      BY <1>17 DEF ProcessDeath
  <2>4. settled' \in SUBSET Jobs
      BY <1>17 DEF ProcessDeath
  <2> QED
      BY <1>17, <1>o, <2>1, <2>2, <2>3, <2>4 DEF ProcessDeath, NoJob
<1>18. ASSUME NEW j \in Jobs, Retry(j) PROVE TypeOK'
  <2>1. budget' \in [Disturbances -> Nat]
      BY SMTT(40), <1>18 DEF Retry, Spend, Disturbances
  <2> QED
      BY <1>18, <2>1, RetryRowType DEF Retry
<1>19. ASSUME NEW c \in Callers, CancelNative(c) PROVE TypeOK'
  <2>1. caller' \in [Callers -> CallerState]
      BY <1>19 DEF CancelNative, CallerState
  <2>2. drain' \in [Drains -> DrainState]
      BY <1>19, CancelPreparationType DEF CancelNative
  <2> QED
      BY <1>19, <2>1, <2>2 DEF CancelNative
<1>20. ASSUME NEW c \in Callers, CancelWrites(c) PROVE TypeOK'
  <2>1. caller[c].job \in Jobs
      BY <1>20 DEF CancelWrites, JobInHand
  <2>2. table' \in Table
      BY <1>20, <2>1, UpdateStateType DEF CancelWrites, Statuses
  <2> QED
      BY <1>20, <1>o, <2>1, <2>2 DEF CancelWrites
<1>b. ASSUME NEW c \in Callers, NEW j \in Jobs, CancelBegins(c, j)
      PROVE  caller' \in [Callers -> CallerState] /\ userCancelled' \in SUBSET Jobs
    BY <1>b DEF CancelBegins, CallerState
<1>21. ASSUME NEW j \in Jobs, PressCancel(j) PROVE TypeOK'
  <2>1. budget' \in [Disturbances -> Nat]
      BY <1>21 DEF PressCancel, Spend, Disturbances
  <2>2. caller' \in [Callers -> CallerState] /\ userCancelled' \in SUBSET Jobs
      BY <1>21, <1>b DEF PressCancel, Callers
  <2> QED
      BY <1>21, <2>1, <2>2 DEF PressCancel
<1>23. CASE OnCancelCommand
  <2>1. messages' \in Seq({"start", "cancel", "destroy"})
      BY <1>23 DEF OnCancelCommand
  <2>2. caller' \in [Callers -> CallerState]
      BY <1>23 DEF OnCancelCommand, CallerState
  <2> QED
      BY <1>23, <2>1, <2>2 DEF OnCancelCommand
<1>24. CASE TapCancel
  <2>1. budget' \in [Disturbances -> Nat]
      BY <1>24 DEF TapCancel, Spend, Disturbances
  <2>2. timeout' \in TimeoutState
      BY <1>24 DEF TapCancel, TimeoutState
  <2> QED
      BY <1>24, <2>1, <2>2 DEF TapCancel
<1>25. CASE NotificationReads
  <2>1. caller' \in [Callers -> CallerState] /\ userCancelled' \in SUBSET Jobs
    <3>1. CASE runtime = NoJob
        BY <1>25, <1>o, <3>1 DEF NotificationReads
    <3>2. CASE runtime # NoJob
      <4>1. runtime \in Jobs /\ CancelBegins("notification", runtime)
          BY <1>25, <3>2 DEF NotificationReads
      <4> QED
          BY <1>b, <4>1 DEF Callers
    <3> QED
        BY <3>1, <3>2
  <2> QED
      BY <1>25, <2>1 DEF NotificationReads
<1>22. CASE UNCHANGED vars
    BY <1>22 DEF vars
<1> QED
    BY <1>1, <1>2, <1>3, <1>4, <1>5, <1>6, <1>7, <1>8, <1>9, <1>10, <1>11, <1>12, <1>13,
        <1>14, <1>15, <1>16, <1>17, <1>18, <1>19, <1>20, <1>21, <1>22, <1>23, <1>24, <1>25
    DEF Next, MainThreadStep, TimeoutStep, ResumeStep, CallerStep

\* A drain inside processOne() keeps its job.
LEMMA DrainStepJob ==
    ASSUME TypeOK, JobInHand, NEW d \in Drains, DrainStep(d)
    PROVE  JobInHand'
<1> DEFINE Sound(r) ==
        /\ r.pc \in InProcessOne \cup {"normalize"} => r.job \in Jobs
        /\ r.pc = "whisper" => r.left > 0
<1>d. drain \in [Drains -> DrainState] /\ drain[d] \in DrainState
    BY DEF TypeOK
<1>s. Sound(drain[d])
    BY DEF JobInHand
<1>r. ASSUME NEW r \in DrainState, Sound(r), drain' = [drain EXCEPT ![d] = r],
             UNCHANGED <<timeout, caller, destroying, messages>>
      PROVE  JobInHand'
    BY <1>r, <1>d DEF JobInHand
<1>g. ASSUME NEW pc \in DrainPc, GoTo(d, pc), pc # "whisper",
             pc \in InProcessOne \cup {"normalize"} =>
                drain[d].pc \in InProcessOne \cup {"normalize"},
             UNCHANGED <<timeout, caller, destroying, messages>>
      PROVE  JobInHand'
  <2> DEFINE q == [drain[d] EXCEPT !.pc = pc]
  <2>1. q \in DrainState /\ Sound(q)
      BY <1>g, <1>d, <1>s DEF DrainState
  <2>2. drain' = [drain EXCEPT ![d] = q]
      BY <1>g, <1>d DEF GoTo
  <2> QED
      BY <1>g, <1>r, <2>1, <2>2
<1>w. ASSUME NEW op, WriteNext(d, op) \/ CatchNext(d, op), op \in RowWrites,
             drain[d].pc \in InProcessOne,
             UNCHANGED <<timeout, caller, destroying, messages>>
      PROVE  JobInHand'
  <2> DEFINE q(pc) == [drain[d] EXCEPT !.pc = pc, !.op = op]
  <2>1. \A pc \in {"write", "catch"} : q(pc) \in DrainState /\ Sound(q(pc))
      BY <1>w, <1>d, <1>s DEF DrainState, DrainPc, UnderLock, InProcessOne
  <2>2. PICK pc \in {"write", "catch"} : drain' = [drain EXCEPT ![d] = q(pc)]
      BY <1>w, <1>d, Decided DEF Decides
  <2> QED
      BY <1>w, <1>r, <2>1, <2>2
<1>o. /\ {"complete", "retry", "cancel", "fail"} \subseteq RowWrites
      /\ \A j \in Jobs : /\ AbortOp(j) \in RowWrites
                         /\ OutcomeOp(j, "fail") \in RowWrites
                         /\ OutcomeOp(j, "complete") \in RowWrites
  <2>1. {"complete", "retry", "cancel", "fail"} \subseteq RowWrites
      BY DEF RowWrites
  <2> QED
      BY <2>1, OpTypes
<1> USE DEF service, screens
<1>1. CASE Acquire(d)
    BY <1>1, <1>g DEF Acquire, Runs, DrainPc, UnderLock, InProcessOne
<1>2. CASE TakeNext(d)
  <2> DEFINE j == Oldest(Queued(table))
             q == [pc |-> IF table[j].result # 0 THEN "normalize" ELSE "claim",
                   job |-> j, seen |-> table[j].result, ready |-> table[j].prepared,
                   op |-> "none", left |-> Windows]
  <2>1. Queued(table) \in SUBSET Jobs /\ Queued(table) # {}
      BY <1>2 DEF TakeNext, Queued
  <2>2. j \in Jobs
      BY <2>1, OldestType
  <2>3. Sound(q)
      BY <2>2
  <2>4. drain' = [drain EXCEPT ![d] = q] /\ drain' \in [Drains -> DrainState]
      BY <1>2, DrainStepType DEF TakeNext, TypeOK
  <2>5. q \in DrainState
      BY <2>4, <1>d
  <2> QED
      BY <1>2, <1>r, <2>3, <2>4, <2>5 DEF TakeNext
<1>3. CASE NothingQueued(d)
    BY <1>3, <1>r, OffDrainType DEF NothingQueued, OffDrain, InProcessOne, DrainPc, UnderLock
<1>4. CASE Normalize(d)
    BY <1>4, <1>g DEF Normalize, Runs, DrainPc, UnderLock, InProcessOne
<1>5. CASE Claim(d)
    BY <1>5, <1>g, <1>w, <1>o, <1>s DEF Claim, Runs, DrainPc, UnderLock, InProcessOne
<1>6. CASE MarkProcessing(d)
    BY <1>6, <1>g DEF MarkProcessing, Runs, DrainPc, UnderLock, InProcessOne
<1>7. CASE PublishRuntime(d)
    BY <1>7, <1>g DEF PublishRuntime, Runs, DrainPc, UnderLock, InProcessOne
<1>8. CASE Prepare(d)
    BY <1>8, <1>g, <1>w, <1>o, <1>s DEF Prepare, Runs, DrainPc, UnderLock, InProcessOne
<1>9. CASE StartExtraction(d)
    BY <1>9, <1>g, <1>w, <1>o, <1>s DEF StartExtraction, Runs, DrainPc, UnderLock, InProcessOne
<1>10. CASE ExtractionCompletes(d)
    BY <1>10, <1>g DEF ExtractionCompletes, Runs, DrainPc, UnderLock, InProcessOne
<1>11. CASE ExtractionFails(d)
    BY <1>11, <1>g, <1>w, <1>o, <1>s DEF ExtractionFails, Runs, DrainPc, UnderLock, InProcessOne
<1>12. CASE CheckPrepared(d)
    BY <1>12, <1>g, <1>w, <1>o, <1>s DEF CheckPrepared, Runs, DrainPc, UnderLock, InProcessOne
<1>13. CASE LoadModel(d)
    BY <1>13, <1>g, <1>w, <1>o, <1>s DEF LoadModel, Runs, DrainPc, UnderLock, InProcessOne
<1>14. CASE NextWindow(d)
  <2>1. CASE GoTo(d, "whisper") /\ drain[d].left # 0
    <3> DEFINE q == [drain[d] EXCEPT !.pc = "whisper"]
    <3>1. drain[d].left \in Nat
        BY <1>d, QueueAssumption DEF DrainState
    <3>2. q \in DrainState /\ Sound(q)
        BY <1>14, <2>1, <3>1, <1>d, <1>s
        DEF NextWindow, Runs, DrainState, DrainPc, UnderLock, InProcessOne
    <3>3. drain' = [drain EXCEPT ![d] = q]
        BY <2>1, <1>d DEF GoTo
    <3> QED
        BY <1>14, <1>r, <3>2, <3>3 DEF NextWindow
  <2>2. CASE CatchNext(d, AbortOp(drain[d].job)) \/ GoTo(d, "commit")
      BY <1>14, <2>2, <1>g, <1>w, <1>o, <1>s
      DEF NextWindow, Runs, DrainPc, UnderLock, InProcessOne
  <2> QED
      BY <1>14, <2>1, <2>2 DEF NextWindow
<1>15. CASE WindowEnds(d)
  <2>1. CASE \E op \in RowWrites : CatchNext(d, op)
      BY <1>15, <2>1, <1>w DEF WindowEnds, Runs, InProcessOne
  <2>2. ASSUME NEW pc \in {"progress", "loop"},
               drain' = [drain EXCEPT ![d].pc = pc, ![d].left = @ - 1]
        PROVE  JobInHand'
    <3> DEFINE q == [drain[d] EXCEPT !.pc = pc, !.left = @ - 1]
    <3>1. drain' = [drain EXCEPT ![d] = q] /\ drain' \in [Drains -> DrainState]
        BY <1>15, <1>d, <2>2, DrainStepType DEF TypeOK, DrainState
    <3>2. q \in DrainState
        BY <3>1, <1>d
    <3>3. Sound(q)
        BY <1>15, <1>s, <1>d DEF WindowEnds, Runs, DrainState, InProcessOne
    <3> QED
        BY <1>15, <1>r, <3>1, <3>2, <3>3 DEF WindowEnds
  <2> QED
      BY <1>15, <1>o, <1>s, <2>1, <2>2 DEF WindowEnds, Runs, InProcessOne
<1>16. CASE ReportProgress(d)
    BY <1>16, <1>g DEF ReportProgress, Runs, DrainPc, UnderLock, InProcessOne
<1>17. CASE CommitTranscript(d)
  <2>1. CASE CatchNext(d, OutcomeOp(drain[d].job, "fail"))
      BY <1>17, <2>1, <1>w, <1>o, <1>s DEF CommitTranscript, Runs, InProcessOne
  <2>2. CASE drain' = [drain EXCEPT ![d].pc = "finish",
                                    ![d].seen = transcripts[drain[d].job] + 1]
    <3> DEFINE q == [drain[d] EXCEPT !.pc = "finish",
                                     !.seen = transcripts[drain[d].job] + 1]
    <3>1. drain' = [drain EXCEPT ![d] = q] /\ drain' \in [Drains -> DrainState]
        BY <1>17, <1>d, <2>2, DrainStepType DEF TypeOK, DrainState
    <3>2. q \in DrainState
        BY <3>1, <1>d
    <3>3. Sound(q)
        BY <1>17, <1>s, <1>d DEF CommitTranscript, Runs, DrainState, InProcessOne
    <3> QED
        BY <1>17, <1>r, <3>1, <3>2, <3>3 DEF CommitTranscript
  <2> QED
      BY <1>17, <2>1, <2>2 DEF CommitTranscript
<1>18. CASE Finish(d)
    BY <1>18, <1>g, <1>w, <1>o, <1>s DEF Finish, Runs, DrainPc, UnderLock, InProcessOne
<1>19. CASE WriteOutcome(d)
    BY <1>19, <1>g DEF WriteOutcome, Runs, DrainPc, UnderLock, InProcessOne
<1>24. CASE StatementThrows(d)
    BY <1>24, <1>w, <1>o, <1>s DEF StatementThrows, Runs, InProcessOne
<1>20. CASE Finally(d)
    BY <1>20, <1>r, OffDrainType DEF Finally, OffDrain, InProcessOne, DrainPc, UnderLock
<1>21. CASE CheckLeftOver(d)
    BY <1>21, <1>g DEF CheckLeftOver, Runs, DrainPc, UnderLock, InProcessOne
<1>22. CASE StopSelf(d)
  <2>1. messages' # <<>> \/ messages' = messages
    <3>1. messages \in Seq({"start", "cancel", "destroy"})
        BY DEF TypeOK
    <3>2. Append(messages, "destroy") # <<>>
        BY <3>1, ScheduledMessages
    <3>3. messages' = Append(messages, "destroy") \/ messages' = messages
        BY <1>22 DEF StopSelf, StopService
    <3> QED
        BY <3>2, <3>3
  <2> DEFINE q == [drain[d] EXCEPT !.pc = "off"]
  <2>2. Sound(q) /\ drain' = [drain EXCEPT ![d] = q]
      BY <1>22, <1>d DEF StopSelf, GoTo, DrainState, InProcessOne
  <2>3. \A e \in Drains : Sound(drain'[e])
      BY <1>d, <2>2 DEF JobInHand
  <2> QED
      BY <1>22, <2>1, <2>3 DEF StopSelf, JobInHand
<1>23. CASE Unwind(d)
    BY <1>23, <1>r, OffDrainType DEF Unwind, OffDrain, InProcessOne, DrainPc, UnderLock
<1> QED
    BY <1>1, <1>2, <1>3, <1>4, <1>5, <1>6, <1>7, <1>8, <1>9, <1>10, <1>11, <1>12, <1>13,
        <1>14, <1>15, <1>16, <1>17, <1>18, <1>19, <1>20, <1>21, <1>22, <1>23, <1>24
    DEF DrainStep

\* What cancelling the preparation leaves of a drain.
LEMMA CancelPreparationIs ==
    ASSUME drain \in [Drains -> DrainState], NEW where, NEW d \in Drains
    PROVE  LET r == CancelPreparation(where)[d] IN
           /\ r.job = drain[d].job /\ r.seen = drain[d].seen
           /\ r.op = drain[d].op /\ r.left = drain[d].left
           /\ \/ r.pc = drain[d].pc
              \/ drain[d].pc = "extract" /\ r.pc \in {"extractLost", "extractBroken"}
BY DEF CancelPreparation, DrainState

\* Nobody else takes it away but a death.
LEMMA OtherStepJob ==
    ASSUME TypeOK, JobInHand, [Next]_vars, \A d \in Drains : ~DrainStep(d)
    PROVE  JobInHand'
<1> USE DEF service, screens
<1>d. drain \in [Drains -> DrainState]
    BY DEF TypeOK
<1>c. ASSUME NEW where, drain' = CancelPreparation(where)
      PROVE  \A d \in Drains :
        /\ drain'[d].pc \in InProcessOne \cup {"normalize"} => drain'[d].job \in Jobs
        /\ drain'[d].pc = "whisper" => drain'[d].left > 0
    BY <1>c, <1>d, CancelPreparationIs DEF JobInHand, InProcessOne
<1>1. CASE OnStartCommand
  <2>1. ~destroying
      BY <1>1 DEF OnStartCommand, MainThreadFree
  <2>2. \A d \in Drains :
          \/ drain'[d] = drain[d]
          \/ drain'[d] = [OffDrain EXCEPT !.pc = "lock"]
      BY <1>1, <1>d DEF OnStartCommand, Free
  <2>3. [OffDrain EXCEPT !.pc = "lock"].pc = "lock"
      BY DEF OffDrain
  <2> QED
      BY <1>1, <2>1, <2>2, <2>3 DEF OnStartCommand, JobInHand, InProcessOne
<1>2. CASE OnDestroyBegins
    BY <1>2, <1>c DEF OnDestroyBegins, JobInHand
<1>3. CASE OnDestroyEnds
    BY <1>3 DEF OnDestroyEnds, JobInHand, NoTimeout, IdleCaller
<1>4. CASE OnTimeout
    BY <1>4 DEF OnTimeout, JobInHand
<1>5. CASE TimeoutReads
    BY <1>5 DEF TimeoutReads, JobInHand, TypeOK, TimeoutState
<1>6. CASE TimeoutFlags
    BY <1>6, <1>c DEF TimeoutFlags, JobInHand, TypeOK, TimeoutState
<1>7. CASE TimeoutRequeues
    BY <1>7 DEF TimeoutRequeues, JobInHand, TypeOK, TimeoutState
<1>8. CASE TimeoutStops
  <2>1. Append(messages, "destroy") # <<>>
      BY ScheduledMessages DEF TypeOK
  <2> QED
      BY <1>8, <2>1 DEF TimeoutStops, StopService, JobInHand, NoTimeout
<1>9. CASE Enqueue
    BY <1>9 DEF Enqueue, JobInHand
<1>10. CASE StartService
  <2>1. Append(messages, "start") # <<>>
      BY ScheduledMessages DEF TypeOK
  <2> QED
      BY <1>10, <2>1 DEF StartService, JobInHand, TypeOK, TimeoutState
<1>11. CASE ModelDownloaded
    BY <1>11 DEF ModelDownloaded, JobInHand
<1>12. CASE ClearFinished
    BY <1>12 DEF ClearFinished, JobInHand
<1>13. CASE BecomeVisible
    BY <1>13 DEF BecomeVisible, JobInHand
<1>14. CASE ResumeRecovers
    BY <1>14 DEF ResumeRecovers, JobInHand
<1>15. CASE ResumeChecks
    BY <1>15 DEF ResumeChecks, JobInHand
<1>16. CASE ApplicationRecovers
    BY <1>16 DEF ApplicationRecovers, JobInHand
<1>17. CASE ProcessDeath
    BY <1>17 DEF ProcessDeath, JobInHand, OffDrain, NoTimeout, IdleCaller, InProcessOne
<1>18. ASSUME NEW j \in Jobs, Retry(j) PROVE JobInHand'
    BY <1>18 DEF Retry, JobInHand
<1>19. ASSUME NEW c \in Callers, CancelNative(c) PROVE JobInHand'
    BY <1>19, <1>c DEF CancelNative, JobInHand, TypeOK, CallerState
<1>20. ASSUME NEW c \in Callers, CancelWrites(c) PROVE JobInHand'
    BY <1>20 DEF CancelWrites, JobInHand, TypeOK, CallerState, IdleCaller
<1>21. ASSUME NEW j \in Jobs, PressCancel(j) PROVE JobInHand'
    BY <1>21 DEF PressCancel, CancelBegins, JobInHand, TypeOK, CallerState
<1>23. CASE OnCancelCommand
    BY <1>23 DEF OnCancelCommand, JobInHand, TypeOK, CallerState, MainThreadFree
<1>24. CASE TapCancel
  <2>1. Append(messages, "cancel") # <<>>
      BY ScheduledMessages DEF TypeOK
  <2> QED
      BY <1>24, <2>1 DEF TapCancel, JobInHand, TypeOK, TimeoutState
<1>25. CASE NotificationReads
  <2>1. CASE runtime = NoJob
    <3>1. \A c \in Callers : caller'[c] = caller[c] \/ caller'[c].pc = "idle"
        BY <1>25, <2>1 DEF NotificationReads, TypeOK, IdleCaller
    <3> QED
        BY <1>25, <2>1, <3>1 DEF NotificationReads, JobInHand
  <2>2. CASE runtime # NoJob
    <3>1. runtime \in Jobs /\ CancelBegins("notification", runtime)
        BY <1>25, <2>2 DEF NotificationReads, TypeOK
    <3> QED
        BY <1>25, <3>1 DEF NotificationReads, CancelBegins, JobInHand, TypeOK, CallerState
  <2> QED
      BY <2>1, <2>2
<1>22. CASE UNCHANGED vars
    BY <1>22 DEF vars, JobInHand
<1> QED
    BY <1>1, <1>2, <1>3, <1>4, <1>5, <1>6, <1>7, <1>8, <1>9, <1>10, <1>11, <1>12, <1>13,
        <1>14, <1>15, <1>16, <1>17, <1>18, <1>19, <1>20, <1>21, <1>22, <1>23, <1>24, <1>25
    DEF Next, MainThreadStep, TimeoutStep, ResumeStep, CallerStep

\* Every variable keeps its type.
THEOREM TypeCorrect == Spec => []TypeOK
<1>1. Init => TypeOK /\ JobInHand
    BY InitType
<1>2. TypeOK /\ JobInHand /\ [Next]_vars => (TypeOK /\ JobInHand)'
    BY DrainStepType, DrainStepJob, OtherStepType, OtherStepJob
<1> QED
    BY <1>1, <1>2, PTL DEF Spec

-----------------------------------------------------------------------------
(* One drain under the mutex.                                              *)

\* Every step of a drain keeps the mutex and currentJobId right.
LEMMA DrainStepLock ==
    ASSUME TypeOK, JobInHand, LockHeld, NEW d \in Drains, DrainStep(d)
    PROVE  LockHeld'
<1>d. drain \in [Drains -> DrainState] /\ None \notin Drains
    BY QueueAssumption DEF TypeOK
\* A drain that stays in processOne, or outside the mutex.
<1>m. ASSUME UNCHANGED <<holder, currentJob>>,
             \A e \in Drains \ {d} : drain'[e] = drain[e],
             drain'[d].pc \in UnderLock <=> drain[d].pc \in UnderLock,
             drain[d].pc \in InProcessOne =>
                /\ drain'[d].pc \in InProcessOne
                /\ drain'[d].job = drain[d].job
      PROVE  LockHeld'
    BY <1>m, <1>d DEF LockHeld, TypeOK
<1>g. ASSUME NEW pc, GoTo(d, pc), UNCHANGED <<holder, currentJob>>,
             pc \in UnderLock <=> drain[d].pc \in UnderLock,
             drain[d].pc \in InProcessOne => pc \in InProcessOne
      PROVE  LockHeld'
  <2>1. \A e \in Drains \ {d} : drain'[e] = drain[e]
      BY <1>g, <1>d DEF GoTo
  <2>2. drain'[d].pc = pc /\ drain'[d].job = drain[d].job
      BY <1>g, <1>d DEF GoTo, DrainState
  <2> QED
      BY <1>g, <1>m, <2>1, <2>2
<1>w. ASSUME NEW op, WriteNext(d, op) \/ CatchNext(d, op),
             UNCHANGED <<holder, currentJob>>, drain[d].pc \in InProcessOne
      PROVE  LockHeld'
  <2>1. /\ \A e \in Drains \ {d} : drain'[e] = drain[e]
        /\ drain'[d].pc \in {"write", "catch"} /\ drain'[d].job = drain[d].job
      BY <1>w, <1>d, Decided DEF Decides
  <2> QED
      BY <1>w, <1>m, <2>1 DEF UnderLock, InProcessOne
<1>c. currentJob # NoJob /\ drain[d].pc \in UnderLock =>
          drain[d].pc \in InProcessOne /\ currentJob = drain[d].job
    BY DEF LockHeld
<1> USE DEF manager
<1>1. CASE Acquire(d)
  <2>1. \A e \in Drains : drain[e].pc \notin UnderLock
      BY <1>1, <1>d DEF Acquire, LockHeld
  <2>2. currentJob = NoJob
      BY <1>1, <1>d DEF Acquire, LockHeld
  <2>3. drain'[d].pc = "next" /\ \A e \in Drains \ {d} : drain'[e] = drain[e]
      BY <1>1, <1>d DEF Acquire, GoTo, DrainState
  <2> QED
      BY <1>1, <2>1, <2>2, <2>3 DEF Acquire, LockHeld, UnderLock
<1>2. CASE TakeNext(d)
  <2>1. /\ drain'[d].pc \in {"normalize", "claim"}
        /\ \A e \in Drains \ {d} : drain'[e] = drain[e]
      BY <1>2, <1>d DEF TakeNext
  <2> QED
      BY <1>2, <1>m, <2>1 DEF TakeNext, Runs, UnderLock, InProcessOne
<1>3. CASE NothingQueued(d)
  <2>1. drain'[d].pc \notin UnderLock /\ \A e \in Drains \ {d} : drain'[e] = drain[e]
      BY <1>3, <1>d DEF NothingQueued, OffDrain, UnderLock, InProcessOne
  <2>2. holder = d /\ currentJob = NoJob
      BY <1>3, <1>c DEF NothingQueued, Runs, LockHeld, UnderLock, InProcessOne
  <2> QED
      BY <1>3, <1>d, <2>1, <2>2 DEF NothingQueued, LockHeld
<1>4. CASE Normalize(d)
    BY <1>4, <1>g DEF Normalize, Runs, UnderLock, InProcessOne
<1>5. CASE Claim(d)
  <2>1. /\ drain'[d].pc \in InProcessOne
        /\ drain'[d].job = drain[d].job
        /\ \A e \in Drains \ {d} : drain'[e] = drain[e]
      BY <1>5, <1>d DEF Claim, GoTo, WriteNext, DrainState, InProcessOne
  <2>2. holder = d
      BY <1>5 DEF Claim, Runs, LockHeld, UnderLock, InProcessOne
  <2> QED
      BY <1>5, <1>d, <2>1, <2>2 DEF Claim, LockHeld, UnderLock
<1>6. CASE MarkProcessing(d)
    BY <1>6, <1>g DEF MarkProcessing, Runs, UnderLock, InProcessOne
<1>7. CASE PublishRuntime(d)
    BY <1>7, <1>g DEF PublishRuntime, Runs, UnderLock, InProcessOne
<1>8. CASE Prepare(d)
    BY <1>8, <1>g, <1>w DEF Prepare, Runs, UnderLock, InProcessOne
<1>9. CASE StartExtraction(d)
    BY <1>9, <1>g, <1>w DEF StartExtraction, Runs, UnderLock, InProcessOne
<1>10. CASE ExtractionCompletes(d)
    BY <1>10, <1>g DEF ExtractionCompletes, Runs, UnderLock, InProcessOne
<1>11. CASE ExtractionFails(d)
    BY <1>11, <1>g, <1>w DEF ExtractionFails, Runs, UnderLock, InProcessOne
<1>12. CASE CheckPrepared(d)
    BY <1>12, <1>g, <1>w DEF CheckPrepared, Runs, UnderLock, InProcessOne
<1>13. CASE LoadModel(d)
    BY <1>13, <1>g, <1>w DEF LoadModel, Runs, UnderLock, InProcessOne
<1>14. CASE NextWindow(d)
    BY <1>14, <1>g, <1>w DEF NextWindow, Runs, UnderLock, InProcessOne
<1>15. CASE WindowEnds(d)
  <2>1. CASE \E op \in RowWrites : CatchNext(d, op)
      BY <1>15, <2>1, <1>w DEF WindowEnds, Runs, InProcessOne
  <2>2. ASSUME NEW pc \in {"progress", "loop"},
               drain' = [drain EXCEPT ![d].pc = pc, ![d].left = @ - 1]
        PROVE  LockHeld'
    <3>1. /\ drain'[d].pc = pc /\ drain'[d].job = drain[d].job
          /\ \A e \in Drains \ {d} : drain'[e] = drain[e]
        BY <2>2, <1>d DEF DrainState
    <3> QED
        BY <1>15, <1>m, <3>1 DEF WindowEnds, Runs, UnderLock, InProcessOne
  <2>3. drain[d].job \in Jobs
      BY <1>15 DEF WindowEnds, Runs, JobInHand, InProcessOne
  <2>4. /\ AbortOp(drain[d].job) \in RowWrites
        /\ OutcomeOp(drain[d].job, "fail") \in RowWrites
      BY <2>3 DEF AbortOp, OutcomeOp, RowWrites
  <2> QED
      BY <1>15, <2>1, <2>2, <2>4 DEF WindowEnds
<1>16. CASE ReportProgress(d)
    BY <1>16, <1>g DEF ReportProgress, Runs, UnderLock, InProcessOne
<1>17. CASE CommitTranscript(d)
  <2>1. CASE CatchNext(d, OutcomeOp(drain[d].job, "fail"))
      BY <1>17, <2>1, <1>w DEF CommitTranscript, Runs, InProcessOne
  <2>2. CASE drain' = [drain EXCEPT ![d].pc = "finish",
                                    ![d].seen = transcripts[drain[d].job] + 1]
    <3>1. /\ drain'[d].pc = "finish" /\ drain'[d].job = drain[d].job
          /\ \A e \in Drains \ {d} : drain'[e] = drain[e]
        BY <2>2, <1>d DEF DrainState
    <3> QED
        BY <1>17, <1>m, <3>1 DEF CommitTranscript, Runs, UnderLock, InProcessOne
  <2> QED
      BY <1>17, <2>1, <2>2 DEF CommitTranscript
<1>18. CASE Finish(d)
    BY <1>18, <1>g, <1>w DEF Finish, Runs, UnderLock, InProcessOne
<1>19. CASE WriteOutcome(d)
    BY <1>19, <1>g DEF WriteOutcome, Runs, UnderLock, InProcessOne
<1>24. CASE StatementThrows(d)
    BY <1>24, <1>w DEF StatementThrows, Runs, InProcessOne
<1>20. CASE Finally(d)
  <2>1. /\ drain'[d].pc = "next"
        /\ \A e \in Drains \ {d} : drain'[e] = drain[e]
        /\ currentJob' = NoJob /\ UNCHANGED holder
      BY <1>20, <1>d DEF Finally, ForgetCurrent, OffDrain
  <2>2. holder = d
      BY <1>20 DEF Finally, Runs, LockHeld, UnderLock, InProcessOne
  <2> QED
      BY <1>d, <2>1, <2>2 DEF LockHeld, UnderLock
<1>21. CASE CheckLeftOver(d)
    BY <1>21, <1>g DEF CheckLeftOver, Runs, UnderLock, InProcessOne
<1>22. CASE StopSelf(d)
    BY <1>22, <1>g DEF StopSelf, Runs, UnderLock, InProcessOne
<1>23. CASE Unwind(d)
  <2>1. drain'[d].pc = "off" /\ \A e \in Drains \ {d} : drain'[e] = drain[e]
      BY <1>23, <1>d DEF Unwind, OffDrain
  <2>2. CASE drain[d].pc \in UnderLock
    <3>1. holder = d /\ holder' = None /\ currentJob' = NoJob
        BY <1>23, <1>c, <2>2 DEF Unwind, ForgetCurrent, LockHeld
    <3> QED
        BY <1>d, <2>1, <3>1 DEF LockHeld, UnderLock, InProcessOne
  <2>3. CASE drain[d].pc \notin UnderLock
    <3>1. UNCHANGED <<holder, currentJob>>
        BY <1>23, <2>3 DEF Unwind, UnderLock
    <3> QED
        BY <1>m, <2>1, <2>3, <3>1 DEF UnderLock, InProcessOne
  <2> QED
      BY <2>2, <2>3
<1> QED
    BY <1>1, <1>2, <1>3, <1>4, <1>5, <1>6, <1>7, <1>8, <1>9, <1>10, <1>11, <1>12, <1>13,
        <1>14, <1>15, <1>16, <1>17, <1>18, <1>19, <1>20, <1>21, <1>22, <1>23, <1>24
    DEF DrainStep

\* So does everybody else.
LEMMA OtherStepLock ==
    ASSUME TypeOK, LockHeld, [Next]_vars, \A d \in Drains : ~DrainStep(d)
    PROVE  LockHeld'
<1>d. drain \in [Drains -> DrainState] /\ None \notin Drains
    BY QueueAssumption DEF TypeOK
<1>c. ASSUME NEW where, drain' = CancelPreparation(where),
             UNCHANGED <<holder, currentJob>>
      PROVE  LockHeld'
  <2>1. \A e \in Drains :
            /\ drain'[e].job = drain[e].job
            /\ drain'[e].pc \in UnderLock <=> drain[e].pc \in UnderLock
            /\ drain'[e].pc \in InProcessOne <=> drain[e].pc \in InProcessOne
      BY <1>c, <1>d, CancelPreparationIs DEF UnderLock, InProcessOne
  <2> QED
      BY <1>c, <2>1 DEF LockHeld, TypeOK
<1>u. ASSUME UNCHANGED <<holder, currentJob, drain>> PROVE LockHeld'
    BY <1>u DEF LockHeld
<1> USE DEF manager
<1>1. CASE OnStartCommand
  <2>1. \A e \in Drains :
          \/ drain'[e] = drain[e]
          \/ drain[e].pc = "off" /\ drain'[e].pc = "lock"
      BY <1>1, <1>d DEF OnStartCommand, Free, OffDrain
  <2> QED
      BY ZenonT(60), <1>1, <1>d, <2>1 DEF OnStartCommand, LockHeld, TypeOK, UnderLock, InProcessOne
<1>2. CASE OnDestroyBegins
    BY <1>2, <1>c, <1>u DEF OnDestroyBegins
<1>3. CASE OnDestroyEnds
    BY <1>3, <1>u DEF OnDestroyEnds
<1>4. CASE OnTimeout
    BY <1>4, <1>u DEF OnTimeout
<1>5. CASE TimeoutReads
    BY <1>5, <1>u DEF TimeoutReads
<1>6. CASE TimeoutFlags
    BY <1>6, <1>c, <1>u DEF TimeoutFlags
<1>7. CASE TimeoutRequeues
    BY <1>7, <1>u DEF TimeoutRequeues
<1>8. CASE TimeoutStops
    BY <1>8, <1>u DEF TimeoutStops
<1>9. CASE Enqueue
    BY <1>9, <1>u DEF Enqueue
<1>10. CASE StartService
    BY <1>10, <1>u DEF StartService
<1>11. CASE ModelDownloaded
    BY <1>11, <1>u DEF ModelDownloaded
<1>12. CASE ClearFinished
    BY <1>12, <1>u DEF ClearFinished
<1>13. CASE BecomeVisible
    BY <1>13, <1>u DEF BecomeVisible
<1>14. CASE ResumeRecovers
    BY <1>14, <1>u DEF ResumeRecovers
<1>15. CASE ResumeChecks
    BY <1>15, <1>u DEF ResumeChecks
<1>16. CASE ApplicationRecovers
    BY <1>16, <1>u DEF ApplicationRecovers
<1>17. CASE ProcessDeath
    BY <1>17, <1>d DEF ProcessDeath, LockHeld, OffDrain, UnderLock, InProcessOne
<1>18. ASSUME NEW j \in Jobs, Retry(j) PROVE LockHeld'
    BY <1>18, <1>u DEF Retry
<1>19. ASSUME NEW c \in Callers, CancelNative(c) PROVE LockHeld'
    BY <1>19, <1>c, <1>u DEF CancelNative
<1>20. ASSUME NEW c \in Callers, CancelWrites(c) PROVE LockHeld'
    BY <1>20, <1>u DEF CancelWrites
<1>21. ASSUME NEW j \in Jobs, PressCancel(j) PROVE LockHeld'
    BY <1>21, <1>u DEF PressCancel
<1>23. CASE OnCancelCommand
    BY <1>23, <1>u DEF OnCancelCommand
<1>24. CASE TapCancel
    BY <1>24, <1>u DEF TapCancel
<1>25. CASE NotificationReads
    BY <1>25, <1>u DEF NotificationReads
<1>22. CASE UNCHANGED vars
    BY <1>22, <1>u DEF vars
<1> QED
    BY <1>1, <1>2, <1>3, <1>4, <1>5, <1>6, <1>7, <1>8, <1>9, <1>10, <1>11, <1>12, <1>13,
        <1>14, <1>15, <1>16, <1>17, <1>18, <1>19, <1>20, <1>21, <1>22, <1>23, <1>24, <1>25
    DEF Next, MainThreadStep, TimeoutStep, ResumeStep, CallerStep

\* At most one drain works on the queue, and currentJobId names its job.
THEOREM CurrentJobHeld == Spec => []CurrentJobIsHeld
<1>1. Init => TypeOK /\ JobInHand /\ LockHeld
  <2>1. Init => LockHeld
      BY QueueAssumption DEF Init, LockHeld, OffDrain, UnderLock, InProcessOne
  <2> QED
      BY <2>1, InitType
<1>2. TypeOK /\ JobInHand /\ LockHeld /\ [Next]_vars
          => (TypeOK /\ JobInHand /\ LockHeld)'
    BY DrainStepType, DrainStepJob, OtherStepType, OtherStepJob,
       DrainStepLock, OtherStepLock
<1>3. LockHeld => CurrentJobIsHeld
    BY DEF LockHeld, CurrentJobIsHeld
<1> QED
    BY <1>1, <1>2, <1>3, PTL DEF Spec

-----------------------------------------------------------------------------
(* Results.                                                                *)

\* A statement that neither gives a row a result nor completes it, and that
\* does not put a row with a result back to work: every statement but
\* complete() is one, as far as it concerns a row that has not failed.
Harmless(t, u) ==
    \A j \in Jobs :
        /\ u[j].result \in {0, t[j].result}
        /\ u[j].status = "COMPLETED" =>
              t[j].status = "COMPLETED" /\ u[j].result = t[j].result
        /\ u[j].result # 0 /\ t[j].status \in {"COMPLETED", "CANCELLED"} =>
              u[j].status \in {"COMPLETED", "CANCELLED"}

\* The statements that need no mutex only ever clear a result.
LEMMA HarmlessStatements ==
    ASSUME NEW t \in Table
    PROVE  /\ Harmless(t, t)
           /\ \A j \in Jobs : Harmless(t, UpdateState(t, j, "CANCELLED"))
           /\ \A j \in Jobs :
                 t[j].result = 0 => Harmless(t, UpdateState(t, j, "PROCESSING"))
           /\ \A j \in Jobs : Harmless(t, RetryRow(t, j))
           /\ \A j \in Jobs : Harmless(t, SetPreparedInput(t, j))
           /\ \A j \in Jobs : Harmless(t, Insert(t, j))
           /\ Harmless(t, RecoverInterrupted(t))
           /\ Harmless(t, ClearFinishedHistory(t))
<1> USE DEF Harmless, Table, Row
<1>1. Harmless(t, t)
    OBVIOUS
<1>2. ASSUME NEW j \in Jobs PROVE Harmless(t, UpdateState(t, j, "CANCELLED"))
    BY DEF UpdateState, Update
<1>8. ASSUME NEW j \in Jobs, t[j].result = 0
      PROVE  Harmless(t, UpdateState(t, j, "PROCESSING"))
    BY <1>8 DEF UpdateState, Update
<1>3. ASSUME NEW j \in Jobs PROVE Harmless(t, RetryRow(t, j))
    BY DEF RetryRow, Update
<1>4. ASSUME NEW j \in Jobs PROVE Harmless(t, SetPreparedInput(t, j))
    BY DEF SetPreparedInput, Update
<1>5. ASSUME NEW j \in Jobs PROVE Harmless(t, Insert(t, j))
    BY DEF Insert
<1>6. Harmless(t, RecoverInterrupted(t))
    BY DEF RecoverInterrupted
<1>7. Harmless(t, ClearFinishedHistory(t))
    BY DEF ClearFinishedHistory, NoRow
<1> HIDE DEF Harmless, Table, Row
<1> QED
    BY <1>1, <1>2, <1>3, <1>4, <1>5, <1>6, <1>7, <1>8

\* Harmless statements keep the invariants of the table, and whatever is sound
\* of a drain before one is sound after it.
LEMMA HarmlessStep ==
    ASSUME TypeOK, ResultsSaved, Harmless(table, table'), table' \in Table,
           UNCHANGED transcripts
    PROVE  /\ ResultsSaved'
           /\ \A r \in DrainState :
                 /\ r.pc \in InProcessOne \cup {"normalize"} => r.job \in Jobs
                 /\ DecisionSound(r)
                 => DecisionSound(r)'
<1>1. ResultsSaved'
  <2>1. \A j \in Jobs : /\ transcripts[j] \in Nat /\ transcripts'[j] = transcripts[j]
                        /\ table[j].result \in Nat
      BY DEF TypeOK, Table, Row
  <2> QED
      BY <2>1 DEF ResultsSaved, CompletedHasTranscript, Harmless
<1>2. ASSUME NEW r \in DrainState, DecisionSound(r),
             r.pc \in InProcessOne \cup {"normalize"} => r.job \in Jobs
      PROVE  DecisionSound(r)'
    BY <1>2 DEF DecisionSound, Kept, Harmless, Working, InProcessOne
<1> QED
    BY <1>1, <1>2

\* complete() with a transcript that exists.
LEMMA CompletesSoundly ==
    ASSUME TypeOK, ResultsSaved, NEW j \in Jobs, NEW n \in 1..transcripts[j],
           table' = Complete(table, j, n), UNCHANGED transcripts
    PROVE  ResultsSaved'
<1>1. transcripts[j] \in Nat /\ n \in Nat
    BY DEF TypeOK
<1> QED
    BY <1>1 DEF ResultsSaved, CompletedHasTranscript,
                TypeOK, Table, Row, Complete, Update

\* complete() in one transaction with the insert of its transcript.
LEMMA CommitsSoundly ==
    ASSUME TypeOK, ResultsSaved, NEW j \in Jobs,
           table' = Complete(table, j, transcripts[j] + 1),
           transcripts' = [transcripts EXCEPT ![j] = transcripts[j] + 1]
    PROVE  ResultsSaved'
<1>1. transcripts \in [Jobs -> Nat] /\ table \in Table
    BY DEF TypeOK
<1>2. \A k \in Jobs \ {j} : table'[k] = table[k] /\ transcripts'[k] = transcripts[k]
    BY <1>1 DEF Complete, Update, Table
<1>3. /\ transcripts'[j] = transcripts[j] + 1
      /\ \/ table'[j] = table[j] /\ table[j].status = "NONE"
         \/ table'[j].status = "COMPLETED" /\ table'[j].result = transcripts[j] + 1
    BY <1>1 DEF Complete, Update, Table, Row
<1>4. \A k \in Jobs : transcripts[k] \in Nat /\ table[k].result \in Nat
    BY <1>1 DEF Table, Row
<1> QED
    BY <1>2, <1>3, <1>4 DEF ResultsSaved, CompletedHasTranscript

\* The FAILED update.
LEMMA FailsSoundly ==
    ASSUME TypeOK, ResultsSaved, NEW j \in Jobs,
           table' = UpdateState(table, j, "FAILED"), UNCHANGED transcripts
    PROVE  ResultsSaved'
BY DEF ResultsSaved, CompletedHasTranscript, TypeOK, Table, Row, UpdateState, Update

\* Every step of a drain keeps results saved and decisions sound.
LEMMA DrainStepResults ==
    ASSUME IInv, NEW d \in Drains, DrainStep(d)
    PROVE  ResultsSaved' /\ DecisionsSound'
<1>t. TypeOK /\ JobInHand /\ LockHeld /\ ResultsSaved /\ DecisionsSound
    BY DEF IInv
<1>d. drain \in [Drains -> DrainState] /\ table \in Table
    BY <1>t DEF TypeOK
<1>p. drain' \in [Drains -> DrainState] /\ table' \in Table
    BY <1>t, DrainStepType DEF TypeOK
<1>j. \A e \in Drains :
        drain[e].pc \in InProcessOne \cup {"normalize"} => drain[e].job \in Jobs
    BY <1>t DEF JobInHand
<1>s. \A e \in Drains : DecisionSound(drain[e])
    BY <1>t DEF DecisionsSound
<1> DEFINE KeptNext(r) ==
        table'[r.job].result # 0 =>
            /\ r.left = 0 /\ r.seen = table'[r.job].result
            /\ table'[r.job].status \in {"COMPLETED", "CANCELLED"}
\* A harmless statement.  What the others know stays true, and so does what
\* this drain knew.
<1>h. ASSUME Harmless(table, table'), UNCHANGED transcripts
      PROVE  /\ ResultsSaved'
             /\ \A e \in Drains :
                   /\ drain[e].pc \in Working => table'[drain[e].job].result = 0
                   /\ drain[e].pc = "commit" => drain[e].left = 0
                   /\ drain[e].pc \in {"normalize", "finish"} =>
                         drain[e].seen \in 1..transcripts'[drain[e].job]
                   /\ drain[e].pc \in {"write", "catch"} =>
                         /\ drain[e].op # "none"
                         /\ drain[e].op = "complete" =>
                               drain[e].seen \in 1..transcripts'[drain[e].job]
                   /\ drain[e].pc \in {"finish", "write", "catch"} => KeptNext(drain[e])
  <2>1. ResultsSaved'
      BY <1>h, <1>t, <1>p, HarmlessStep
  <2>2. ASSUME NEW e \in Drains PROVE DecisionSound(drain[e])
      BY <1>s
  <2> QED
      BY <1>h, <1>j, <2>1, <2>2 DEF Harmless, DecisionSound, Kept, Working, InProcessOne
<1>k. Harmless(table, table)
    BY <1>d, HarmlessStatements
\* The three shapes of a harmless move.
<1>q. ASSUME Harmless(table, table'), UNCHANGED transcripts,
             \A e \in Drains \ {d} : drain'[e] = drain[e],
             drain'[d].pc \notin Working \cup {"normalize", "finish", "write", "catch"}
      PROVE  ResultsSaved' /\ DecisionsSound'
    BY <1>q, <1>h DEF DecisionsSound, DecisionSound, Kept, Working, InProcessOne
<1>g. ASSUME Harmless(table, table'), UNCHANGED transcripts,
             NEW pc \in Working, GoTo(d, pc), drain[d].pc \in Working,
             pc = "commit" => drain[d].left = 0
      PROVE  ResultsSaved' /\ DecisionsSound'
  <2>1. /\ \A e \in Drains \ {d} : drain'[e] = drain[e]
        /\ drain'[d].pc = pc /\ drain'[d].job = drain[d].job
        /\ drain'[d].left = drain[d].left
      BY <1>g, <1>d DEF GoTo, DrainState
  <2>2. pc \notin {"normalize", "finish", "write", "catch"}
      BY <1>g DEF Working, InProcessOne
  <2> QED
      BY <1>g, <1>h, <2>1, <2>2 DEF DecisionsSound, DecisionSound, Kept
<1>w. ASSUME UNCHANGED <<table, transcripts>>, NEW op,
             WriteNext(d, op) \/ CatchNext(d, op),
             \/ drain[d].pc \in Working /\ op \in {"retry", "cancel", "fail"}
             \/ drain[d].pc = "write" /\ op \in {"retry", "cancel", "fail"}
             \/ drain[d].pc = "finish" /\ op \in {"retry", "cancel", "complete"}
      PROVE  ResultsSaved' /\ DecisionsSound'
  <2>1. /\ \A e \in Drains \ {d} : drain'[e] = drain[e]
        /\ drain'[d].pc \in {"write", "catch"} /\ drain'[d].job = drain[d].job
        /\ drain'[d].op = op /\ drain'[d].seen = drain[d].seen
        /\ drain'[d].left = drain[d].left
      BY <1>w, <1>d, Decided DEF Decides
  <2>2. Harmless(table, table') /\ UNCHANGED transcripts
      BY <1>w, <1>k
  <2>3. DecisionSound(drain[d])' /\ ResultsSaved'
    <3>1. KeptNext(drain'[d])
        BY <1>w, <1>h, <2>1, <2>2
    <3>2. op # "none" /\ (op = "complete" => drain'[d].seen \in 1..transcripts'[drain'[d].job])
        BY <1>w, <1>h, <2>1, <2>2
    <3> QED
        BY <1>h, <2>1, <2>2, <3>1, <3>2 DEF DecisionSound, Kept, Working, InProcessOne
  <2> QED
      BY <1>h, <2>1, <2>2, <2>3 DEF DecisionsSound, DecisionSound, Kept
<1>o. \A j : AbortOp(j) \in {"retry", "cancel"}
             /\ OutcomeOp(j, "fail") \in {"retry", "cancel", "fail"}
             /\ OutcomeOp(j, "complete") \in {"retry", "cancel", "complete"}
    BY DEF AbortOp, OutcomeOp
<1> USE DEF store
<1>1. CASE Acquire(d)
  <2>1. /\ \A e \in Drains \ {d} : drain'[e] = drain[e]
        /\ drain'[d].pc \notin Working \cup {"normalize", "finish", "write", "catch"}
      BY <1>1, <1>d DEF Acquire, GoTo, OffDrain, DrainState, Working, InProcessOne
  <2> QED
      BY <1>1, <1>q, <1>k, <2>1 DEF Acquire
<1>2. CASE TakeNext(d)
  <2> DEFINE j == Oldest(Queued(table))
  <2>1. Queued(table) \in SUBSET Jobs /\ Queued(table) # {}
      BY <1>2 DEF TakeNext, Queued
  <2>2. j \in Jobs
      BY <2>1, OldestType
  <2>3. table[j].result \in Nat /\ table[j].result <= transcripts[j]
        /\ transcripts[j] \in Nat
      BY <1>t, <2>2 DEF ResultsSaved, TypeOK, Table, Row
  <2>4. /\ \A e \in Drains \ {d} : drain'[e] = drain[e]
        /\ drain'[d].pc = IF table[j].result # 0 THEN "normalize" ELSE "claim"
        /\ drain'[d].job = j /\ drain'[d].seen = table[j].result
      BY <1>2, <1>d DEF TakeNext
  <2>5. UNCHANGED <<table, transcripts>>
      BY <1>2 DEF TakeNext
  <2>6. /\ drain'[d].pc \in Working => table'[drain'[d].job].result = 0
        /\ drain'[d].pc \in {"normalize", "finish"} =>
              drain'[d].seen \in 1..transcripts'[drain'[d].job]
        /\ drain'[d].pc \notin {"commit", "finish", "write", "catch"}
      BY <2>3, <2>4, <2>5 DEF Working, InProcessOne
  <2> QED
      BY <1>h, <1>k, <2>4, <2>5, <2>6 DEF DecisionsSound, DecisionSound, Kept
<1>3. CASE NothingQueued(d)
  <2>1. /\ \A e \in Drains \ {d} : drain'[e] = drain[e]
        /\ drain'[d].pc \notin Working \cup {"normalize", "finish", "write", "catch"}
      BY <1>3, <1>d DEF NothingQueued, GoTo, OffDrain, DrainState, Working, InProcessOne
  <2> QED
      BY <1>3, <1>q, <1>k, <2>1 DEF NothingQueued
<1>4. CASE Normalize(d)
  <2>1. drain[d].job \in Jobs /\ drain[d].seen \in 1..transcripts[drain[d].job]
      BY <1>4, <1>j, <1>s DEF Normalize, Runs, DecisionSound
  <2>2. ResultsSaved'
      BY <1>4, <1>d, <1>t, <2>1, CompletesSoundly DEF Normalize
  <2>3. /\ \A e \in Drains \ {d} : drain'[e] = drain[e]
        /\ drain'[d].pc = "next"
      BY <1>4, <1>d DEF Normalize, GoTo, DrainState
  <2>4. \A e \in Drains \ {d} : drain[e].pc \notin UnderLock
      BY <1>4, <1>t DEF Normalize, Runs, LockHeld, UnderLock
  <2>5. \A e \in Drains : drain'[e].pc \notin Working \cup {"normalize", "finish", "write", "catch"}
      BY <2>3, <2>4 DEF UnderLock, InProcessOne, Working
  <2> QED
      BY <2>2, <2>5 DEF DecisionsSound, DecisionSound, Working, InProcessOne
<1>5. CASE Claim(d)
    BY <1>5, <1>g, <1>w, <1>k, <1>o DEF Claim, Runs, Working, InProcessOne
<1>6. CASE MarkProcessing(d)
  <2>1. drain[d].job \in Jobs /\ table[drain[d].job].result = 0
      BY <1>6, <1>j, <1>s DEF MarkProcessing, Runs, DecisionSound, Working, InProcessOne
  <2>2. Harmless(table, table')
      BY <1>6, <1>d, <2>1, HarmlessStatements DEF MarkProcessing
  <2> QED
      BY <1>6, <1>g, <1>w, <1>o, <2>2 DEF MarkProcessing, Runs, Working, InProcessOne
<1>7. CASE PublishRuntime(d)
    BY <1>7, <1>g, <1>k DEF PublishRuntime, Runs, Working, InProcessOne
<1>8. CASE Prepare(d)
    BY <1>8, <1>g, <1>w, <1>k, <1>o DEF Prepare, Runs, Working, InProcessOne
<1>9. CASE StartExtraction(d)
    BY <1>9, <1>g, <1>w, <1>k, <1>o DEF StartExtraction, Runs, Working, InProcessOne
<1>10. CASE ExtractionCompletes(d)
    BY <1>10, <1>g, <1>k DEF ExtractionCompletes, Runs, Working, InProcessOne
<1>11. CASE ExtractionFails(d)
    BY <1>11, <1>g, <1>w, <1>k, <1>o DEF ExtractionFails, Runs, Working, InProcessOne
<1>12. CASE CheckPrepared(d)
  <2>1. drain[d].job \in Jobs
      BY <1>12, <1>j DEF CheckPrepared, Runs, InProcessOne
  <2>2. CASE table' = table
      BY <1>12, <1>g, <1>w, <1>k, <1>o, <2>2 DEF CheckPrepared, Runs, Working, InProcessOne
  <2>3. CASE table' = SetPreparedInput(table, drain[d].job) /\ GoTo(d, "load")
    <3>1. Harmless(table, table')
        BY <1>d, <2>1, <2>3, HarmlessStatements
    <3> QED
        BY <1>12, <1>g, <2>3, <3>1 DEF CheckPrepared, Runs, Working, InProcessOne
  <2> QED
      BY <1>12, <2>2, <2>3 DEF CheckPrepared
<1>13. CASE LoadModel(d)
    BY <1>13, <1>g, <1>w, <1>k, <1>o DEF LoadModel, Runs, Working, InProcessOne
<1>14. CASE NextWindow(d)
    BY <1>14, <1>g, <1>w, <1>k, <1>o DEF NextWindow, Runs, Working, InProcessOne
<1>15. CASE WindowEnds(d)
  <2>1. CASE \E op \in {"retry", "cancel", "fail"} : CatchNext(d, op)
      BY <1>15, <2>1, <1>w DEF WindowEnds, Runs, Working, InProcessOne
  <2>2. ASSUME NEW pc \in {"progress", "loop"},
               drain' = [drain EXCEPT ![d].pc = pc, ![d].left = @ - 1]
        PROVE  ResultsSaved' /\ DecisionsSound'
    <3>1. /\ drain'[d].pc = pc /\ drain'[d].job = drain[d].job
          /\ \A e \in Drains \ {d} : drain'[e] = drain[e]
        BY <2>2, <1>d DEF DrainState
    <3>2. drain[d].pc \in Working /\ UNCHANGED <<table, transcripts>>
        BY <1>15 DEF WindowEnds, Runs, Working, InProcessOne
    <3> QED
        BY <1>h, <1>k, <3>1, <3>2 DEF DecisionsSound, DecisionSound, Kept
  <2> QED
      BY <1>15, <1>o, <2>1, <2>2 DEF WindowEnds
<1>16. CASE ReportProgress(d)
  <2>1. drain[d].job \in Jobs /\ table[drain[d].job].result = 0
      BY <1>16, <1>j, <1>s DEF ReportProgress, Runs, DecisionSound, Working, InProcessOne
  <2>2. Harmless(table, table')
      BY <1>16, <1>d, <2>1, HarmlessStatements DEF ReportProgress
  <2> QED
      BY <1>16, <1>g, <1>w, <1>o, <2>2 DEF ReportProgress, Runs, Working, InProcessOne
<1>17. CASE CommitTranscript(d)
  <2> DEFINE n == transcripts[drain[d].job] + 1
  <2>1. CASE CatchNext(d, OutcomeOp(drain[d].job, "fail"))
             /\ UNCHANGED <<table, transcripts>>
      BY <1>17, <2>1, <1>w, <1>o DEF CommitTranscript, Runs, Working, InProcessOne
  <2>2. CASE /\ transcripts' = [transcripts EXCEPT ![drain[d].job] = n]
             /\ table' = Complete(table, drain[d].job, n)
             /\ drain' = [drain EXCEPT ![d].pc = "finish", ![d].seen = n]
    <3>1. drain[d].job \in Jobs /\ n \in Nat /\ n \in 1..n /\ transcripts \in [Jobs -> Nat]
        BY <1>17, <1>j, <1>t DEF CommitTranscript, Runs, InProcessOne, TypeOK
    <3>2. ResultsSaved'
        BY <1>d, <1>t, <2>2, <3>1, CommitsSoundly
    <3>3. /\ \A e \in Drains \ {d} : drain'[e] = drain[e]
          /\ drain'[d].pc = "finish" /\ drain'[d].seen = n
          /\ drain'[d].job = drain[d].job /\ drain'[d].left = drain[d].left
        BY <1>d, <2>2 DEF DrainState
    <3>4. \A e \in Drains \ {d} : drain[e].pc \notin UnderLock
        BY <1>17, <1>t DEF CommitTranscript, Runs, LockHeld, UnderLock, InProcessOne
    <3>5. \A e \in Drains \ {d} :
              drain'[e].pc \notin Working \cup {"normalize", "finish", "write", "catch"}
        BY <3>3, <3>4 DEF UnderLock, InProcessOne, Working
    <3>6. drain'[d].seen \in 1..transcripts'[drain'[d].job]
        BY <2>2, <3>1, <3>3
    <3>7. KeptNext(drain'[d])
      <4>1. table[drain[d].job].result = 0 /\ drain[d].left = 0
          BY <1>17, <1>s DEF CommitTranscript, Runs, DecisionSound, Working, InProcessOne
      <4>2. \/ table'[drain[d].job] = table[drain[d].job]
            \/ /\ table'[drain[d].job].status = "COMPLETED"
               /\ table'[drain[d].job].result = n
          BY <1>d, <2>2, <3>1 DEF Complete, Update, Table, Row
      <4> QED
          BY <3>3, <4>1, <4>2
    <3> QED
        BY <3>2, <3>3, <3>5, <3>6, <3>7
        DEF DecisionsSound, DecisionSound, Kept, Working, InProcessOne
  <2> QED
      BY <1>17, <2>1, <2>2 DEF CommitTranscript
<1>18. CASE Finish(d)
    BY <1>18, <1>w, <1>o DEF Finish, Runs
<1>24. CASE StatementThrows(d)
    BY <1>24, <1>w, <1>o DEF StatementThrows, Runs, Working, InProcessOne
<1>19. CASE WriteOutcome(d)
  <2>1. drain[d].job \in Jobs /\ drain[d].op \in RowWrites /\ UNCHANGED transcripts
      BY <1>19, <1>d, <1>j DEF WriteOutcome, Runs, InProcessOne, DrainState
  <2>2. /\ \A e \in Drains \ {d} : drain'[e] = drain[e]
        /\ drain'[d].pc = "finally"
      BY <1>19, <1>d DEF WriteOutcome, GoTo, DrainState
  <2>3. \A e \in Drains \ {d} : drain[e].pc \notin UnderLock
      BY <1>19, <1>t DEF WriteOutcome, Runs, LockHeld, UnderLock, InProcessOne
  <2>4. \A e \in Drains : drain'[e].pc \notin Working \cup {"normalize", "finish", "write", "catch"}
      BY <2>2, <2>3 DEF UnderLock, InProcessOne, Working
  <2>5. CASE drain[d].op = "complete"
    <3>1. drain[d].seen \in 1..transcripts[drain[d].job]
        BY <1>19, <1>s, <2>5 DEF WriteOutcome, Runs, DecisionSound
    <3>2. table' = Complete(table, drain[d].job, drain[d].seen)
        BY <1>19, <2>5 DEF WriteOutcome
    <3> QED
        BY <1>d, <1>t, <2>1, <2>4, <3>1, <3>2, CompletesSoundly
        DEF DecisionsSound, DecisionSound, Working, InProcessOne
  <2>6. CASE drain[d].op \in {"retry", "cancel"}
    <3>1. Harmless(table, table')
        BY <1>19, <1>d, <2>1, <2>6, HarmlessStatements DEF WriteOutcome
    <3> QED
        BY <1>q, <2>1, <2>2, <3>1 DEF Working, InProcessOne
  <2>7. CASE drain[d].op = "fail"
    <3>1. table' = UpdateState(table, drain[d].job, "FAILED")
        BY <1>19, <2>7 DEF WriteOutcome
    <3>2. ResultsSaved'
        BY <1>d, <1>t, <2>1, <3>1, FailsSoundly
    <3> QED
        BY <2>4, <3>2 DEF DecisionsSound, DecisionSound, Working, InProcessOne
  <2>8. drain[d].op # "none"
      BY <1>19, <1>s DEF WriteOutcome, Runs, DecisionSound
  <2> QED
      BY <2>1, <2>5, <2>6, <2>7, <2>8 DEF RowWrites
<1>20. CASE Finally(d)
  <2>1. /\ \A e \in Drains \ {d} : drain'[e] = drain[e]
        /\ drain'[d].pc \notin Working \cup {"normalize", "finish", "write", "catch"}
      BY <1>20, <1>d DEF Finally, GoTo, OffDrain, DrainState, Working, InProcessOne
  <2> QED
      BY <1>20, <1>q, <1>k, <2>1 DEF Finally
<1>21. CASE CheckLeftOver(d)
  <2>1. /\ \A e \in Drains \ {d} : drain'[e] = drain[e]
        /\ drain'[d].pc \notin Working \cup {"normalize", "finish", "write", "catch"}
      BY <1>21, <1>d DEF CheckLeftOver, GoTo, OffDrain, DrainState, Working, InProcessOne
  <2> QED
      BY <1>21, <1>q, <1>k, <2>1 DEF CheckLeftOver
<1>22. CASE StopSelf(d)
  <2>1. /\ \A e \in Drains \ {d} : drain'[e] = drain[e]
        /\ drain'[d].pc \notin Working \cup {"normalize", "finish", "write", "catch"}
      BY <1>22, <1>d DEF StopSelf, GoTo, OffDrain, DrainState, Working, InProcessOne
  <2> QED
      BY <1>22, <1>q, <1>k, <2>1 DEF StopSelf
<1>23. CASE Unwind(d)
  <2>1. /\ \A e \in Drains \ {d} : drain'[e] = drain[e]
        /\ drain'[d].pc \notin Working \cup {"normalize", "finish", "write", "catch"}
      BY <1>23, <1>d DEF Unwind, GoTo, OffDrain, DrainState, Working, InProcessOne
  <2> QED
      BY <1>23, <1>q, <1>k, <2>1 DEF Unwind
<1> QED
    BY <1>1, <1>2, <1>3, <1>4, <1>5, <1>6, <1>7, <1>8, <1>9, <1>10, <1>11, <1>12, <1>13,
        <1>14, <1>15, <1>16, <1>17, <1>18, <1>19, <1>20, <1>21, <1>22, <1>23, <1>24
    DEF DrainStep

\* So does everybody else, whose statements are the harmless ones.
LEMMA OtherStepResults ==
    ASSUME IInv, [Next]_vars, \A d \in Drains : ~DrainStep(d)
    PROVE  ResultsSaved' /\ DecisionsSound'
<1>t. TypeOK /\ JobInHand /\ ResultsSaved /\ DecisionsSound
    BY DEF IInv
<1>d. drain \in [Drains -> DrainState] /\ table \in Table
    BY <1>t DEF TypeOK
<1>p. table' \in Table
    BY <1>t, OtherStepType DEF TypeOK
\* What a drain keeps of its decision when another process moves it.
<1>h. ASSUME Harmless(table, table'), UNCHANGED transcripts,
             \A d \in Drains :
                \/ drain'[d].pc \notin Working \cup {"normalize", "finish", "write", "catch"}
                \/ /\ drain'[d].job = drain[d].job /\ drain'[d].seen = drain[d].seen
                   /\ drain'[d].op = drain[d].op /\ drain'[d].left = drain[d].left
                   /\ \/ drain'[d].pc = drain[d].pc
                      \/ drain[d].pc \in Working /\ drain'[d].pc \in Working \ {"commit"}
      PROVE  ResultsSaved' /\ DecisionsSound'
  <2>1. ResultsSaved'
      BY <1>h, <1>t, <1>p, HarmlessStep
  <2>2. ASSUME NEW d \in Drains PROVE DecisionSound(drain[d])
      BY <1>t DEF DecisionsSound
  <2>3. \A d \in Drains :
          drain[d].pc \in InProcessOne \cup {"normalize"} => drain[d].job \in Jobs
      BY <1>t DEF JobInHand
  <2> QED
      BY <1>h, <2>1, <2>2, <2>3
      DEF Harmless, DecisionsSound, DecisionSound, Kept, Working, InProcessOne
<1>k. Harmless(table, table)
    BY <1>d, HarmlessStatements
<1>u. ASSUME Harmless(table, table'), UNCHANGED <<transcripts, drain>>
      PROVE  ResultsSaved' /\ DecisionsSound'
    BY <1>u, <1>h
<1>c. ASSUME NEW where, drain' = CancelPreparation(where),
             UNCHANGED <<table, transcripts>>
      PROVE  ResultsSaved' /\ DecisionsSound'
  <2>1. Harmless(table, table')
      BY <1>c, <1>k
  <2> QED
      BY <1>c, <1>d, <1>h, <2>1, CancelPreparationIs DEF Working, InProcessOne
<1> USE DEF store
<1>1. CASE OnStartCommand
  <2>1. \A e \in Drains : drain'[e] = drain[e]
                           \/ drain'[e].pc \notin Working \cup {"normalize", "finish", "write", "catch"}
      BY <1>1, <1>d DEF OnStartCommand, OffDrain, Working, InProcessOne
  <2>2. Harmless(table, table') /\ UNCHANGED transcripts
      BY <1>1, <1>k DEF OnStartCommand
  <2> QED
      BY <1>h, <2>1, <2>2
<1>2. CASE OnDestroyBegins
    BY <1>2, <1>c, <1>k, <1>u DEF OnDestroyBegins
<1>3. CASE OnDestroyEnds
    BY <1>3, <1>k, <1>u DEF OnDestroyEnds
<1>4. CASE OnTimeout
    BY <1>4, <1>k, <1>u DEF OnTimeout
<1>5. CASE TimeoutReads
    BY <1>5, <1>k, <1>u DEF TimeoutReads
<1>6. CASE TimeoutFlags
    BY <1>6, <1>c, <1>k, <1>u DEF TimeoutFlags
<1>7. CASE TimeoutRequeues
    BY <1>7, <1>d, <1>t, <1>u, HarmlessStatements DEF TimeoutRequeues, JobInHand
<1>8. CASE TimeoutStops
    BY <1>8, <1>k, <1>u DEF TimeoutStops
<1>9. CASE Enqueue
  <2>1. inserted + 1 \in Jobs
      BY <1>9, <1>t, MaxJobsAssumption DEF Enqueue, TypeOK, Jobs
  <2> QED
      BY <1>9, <1>d, <1>u, <2>1, HarmlessStatements DEF Enqueue
<1>10. CASE StartService
    BY <1>10, <1>k, <1>u DEF StartService
<1>11. CASE ModelDownloaded
    BY <1>11, <1>k, <1>u DEF ModelDownloaded
<1>12. CASE ClearFinished
    BY <1>12, <1>d, <1>u, HarmlessStatements DEF ClearFinished
<1>13. CASE BecomeVisible
    BY <1>13, <1>k, <1>u DEF BecomeVisible
<1>14. CASE ResumeRecovers
    BY <1>14, <1>d, <1>u, HarmlessStatements DEF ResumeRecovers
<1>15. CASE ResumeChecks
    BY <1>15, <1>k, <1>u DEF ResumeChecks
<1>16. CASE ApplicationRecovers
    BY <1>16, <1>d, <1>u, HarmlessStatements DEF ApplicationRecovers
<1>17. CASE ProcessDeath
  <2>1. \A e \in Drains : drain'[e] = drain[e]
                           \/ drain'[e].pc \notin Working \cup {"normalize", "finish", "write", "catch"}
      BY <1>17, <1>d DEF ProcessDeath, OffDrain, Working, InProcessOne
  <2>2. Harmless(table, table') /\ UNCHANGED transcripts
      BY <1>17, <1>k DEF ProcessDeath
  <2> QED
      BY <1>h, <2>1, <2>2
<1>18. ASSUME NEW j \in Jobs, Retry(j)
      PROVE  ResultsSaved' /\ DecisionsSound'
    BY <1>18, <1>d, <1>u, HarmlessStatements DEF Retry
<1>19. ASSUME NEW c \in Callers, CancelNative(c)
      PROVE  ResultsSaved' /\ DecisionsSound'
    BY <1>19, <1>c, <1>k, <1>u DEF CancelNative
<1>20. ASSUME NEW c \in Callers, CancelWrites(c)
      PROVE  ResultsSaved' /\ DecisionsSound'
    BY <1>20, <1>d, <1>t, <1>u, HarmlessStatements DEF CancelWrites, JobInHand
<1>21. ASSUME NEW j \in Jobs, PressCancel(j)
      PROVE  ResultsSaved' /\ DecisionsSound'
    BY <1>21, <1>k, <1>u DEF PressCancel
<1>23. CASE OnCancelCommand
    BY <1>23, <1>k, <1>u DEF OnCancelCommand
<1>24. CASE TapCancel
    BY <1>24, <1>k, <1>u DEF TapCancel
<1>25. CASE NotificationReads
    BY <1>25, <1>k, <1>u DEF NotificationReads
<1>22. CASE UNCHANGED vars
    BY <1>22, <1>k, <1>u DEF vars
<1> QED
    BY <1>1, <1>2, <1>3, <1>4, <1>5, <1>6, <1>7, <1>8, <1>9, <1>10, <1>11, <1>12, <1>13,
        <1>14, <1>15, <1>16, <1>17, <1>18, <1>19, <1>20, <1>21, <1>22, <1>23, <1>24, <1>25
    DEF Next, MainThreadStep, TimeoutStep, ResumeStep, CallerStep

\* Only the commit of a working drain adds a transcript.
LEMMA TranscriptNeedsNoResult ==
    ASSUME IInv, [Next]_vars
    PROVE  \A j \in Jobs : transcripts'[j] > transcripts[j] => table[j].result = 0
<1>t. transcripts \in [Jobs -> Nat]
    BY DEF IInv, TypeOK
<1>1. ASSUME UNCHANGED transcripts
      PROVE  \A j \in Jobs : ~(transcripts'[j] > transcripts[j])
    BY <1>1, <1>t
<1>2. ASSUME NEW d \in Drains, CommitTranscript(d)
      PROVE  \A j \in Jobs : transcripts'[j] > transcripts[j] => table[j].result = 0
  <2>1. table[drain[d].job].result = 0
      BY <1>2 DEF CommitTranscript, Runs, IInv, DecisionsSound, DecisionSound,
                  Working, InProcessOne
  <2>2. ASSUME NEW j \in Jobs, j # drain[d].job PROVE ~(transcripts'[j] > transcripts[j])
      BY <1>2, <1>t, <2>2 DEF CommitTranscript
  <2> QED
      BY <2>1, <2>2
<1>3. ASSUME NEW d \in Drains, DrainStep(d) PROVE CommitTranscript(d) \/ UNCHANGED transcripts
    BY <1>3 DEF DrainStep, store, Acquire, TakeNext, NothingQueued, Normalize, Claim,
       MarkProcessing, PublishRuntime, Prepare, StartExtraction, ExtractionCompletes,
       ExtractionFails, CheckPrepared, LoadModel, NextWindow, WindowEnds,
       ReportProgress, Finish, StatementThrows, WriteOutcome, Finally, CheckLeftOver, StopSelf, Unwind
<1>4. ASSUME Next, \A d \in Drains : ~DrainStep(d) PROVE UNCHANGED transcripts
    BY <1>4 DEF Next, store, MainThreadStep, TimeoutStep, ResumeStep, CallerStep,
       OnStartCommand, OnDestroyBegins, OnDestroyEnds, OnTimeout, TimeoutReads,
       TimeoutFlags, TimeoutRequeues, TimeoutStops, Enqueue, Retry, StartService,
       ModelDownloaded, ClearFinished, OnCancelCommand, TapCancel, PressCancel,
       NotificationReads, CancelNative, CancelWrites,
       BecomeVisible, ResumeRecovers, ResumeChecks, ApplicationRecovers, ProcessDeath
<1>5. ASSUME UNCHANGED vars PROVE UNCHANGED transcripts
    BY <1>5 DEF vars, store
<1> QED
    BY <1>1, <1>2, <1>3, <1>4, <1>5

\* The invariant is inductive,
LEMMA Inductive == IInv /\ [Next]_vars => IInv'
BY DrainStepType, DrainStepJob, DrainStepLock, DrainStepResults,
   OtherStepType, OtherStepJob, OtherStepLock, OtherStepResults DEF IInv

\* and holds at the start.
LEMMA InitInv == Init => IInv
<1> SUFFICES ASSUME Init PROVE IInv
    OBVIOUS
<1>1. TypeOK /\ JobInHand
    BY InitType
<1>2. LockHeld
    BY QueueAssumption DEF Init, LockHeld, OffDrain, UnderLock, InProcessOne
<1>3. ResultsSaved
    BY DEF Init, ResultsSaved, CompletedHasTranscript, NoRow
<1>4. DecisionsSound
    BY DEF Init, DecisionsSound, DecisionSound, OffDrain, Working, InProcessOne
<1> QED
    BY <1>1, <1>2, <1>3, <1>4 DEF IInv

\* The queue is in an IInv state at every moment.
THEOREM Invariance == Spec => []IInv
BY InitInv, Inductive, PTL DEF Spec

\* Whatever interleaving of drains, stops, cancels, retries and process deaths
\* led there: a COMPLETED row names a saved transcript.
THEOREM CompletedRows == Spec => []CompletedHasTranscript
<1>1. IInv => CompletedHasTranscript
    BY DEF IInv, ResultsSaved
<1> QED
    BY <1>1, Invariance, PTL

\* No row fails by this statement.
NoFailure(t, u) == \A j \in Jobs : u[j].status = "FAILED" => t[j].status = "FAILED"

\* Only the FAILED update makes a row fail.
LEMMA NoFailureStatements ==
    ASSUME NEW t \in Table
    PROVE  /\ NoFailure(t, t)
           /\ \A j \in Jobs : \A s \in {"PROCESSING", "CANCELLED"} :
                 NoFailure(t, UpdateState(t, j, s))
           /\ \A j \in Jobs : \A n \in Nat : NoFailure(t, Complete(t, j, n))
           /\ \A j \in Jobs : NoFailure(t, RetryRow(t, j))
           /\ \A j \in Jobs : NoFailure(t, SetPreparedInput(t, j))
           /\ \A j \in Jobs : NoFailure(t, Insert(t, j))
           /\ NoFailure(t, RecoverInterrupted(t))
           /\ NoFailure(t, ClearFinishedHistory(t))
<1> USE DEF NoFailure, Table, Row
<1>1. NoFailure(t, t)
    OBVIOUS
<1>2. ASSUME NEW j \in Jobs, NEW s \in {"PROCESSING", "CANCELLED"}
      PROVE  NoFailure(t, UpdateState(t, j, s))
    BY DEF UpdateState, Update
<1>3. ASSUME NEW j \in Jobs, NEW n \in Nat PROVE NoFailure(t, Complete(t, j, n))
    BY DEF Complete, Update
<1>4. ASSUME NEW j \in Jobs
      PROVE  NoFailure(t, RetryRow(t, j)) /\ NoFailure(t, SetPreparedInput(t, j))
    BY DEF RetryRow, SetPreparedInput, Update
<1>5. ASSUME NEW j \in Jobs PROVE NoFailure(t, Insert(t, j))
    BY DEF Insert
<1>6. NoFailure(t, RecoverInterrupted(t)) /\ NoFailure(t, ClearFinishedHistory(t))
    BY DEF RecoverInterrupted, ClearFinishedHistory, NoRow
<1> HIDE DEF NoFailure, Table, Row
<1> QED
    BY <1>1, <1>2, <1>3, <1>4, <1>5, <1>6

\* A row fails by the final update of the drain that has it in hand.
LEMMA FailsInHand ==
    ASSUME IInv, [Next]_vars, NEW j \in Jobs,
           table[j].status # "FAILED", table'[j].status = "FAILED"
    PROVE  \E d \in Drains :
              drain[d].pc \in {"write", "catch"} /\ drain[d].job = j
<1>t. TypeOK /\ JobInHand /\ table \in Table
    BY DEF IInv, TypeOK
<1>n. ~NoFailure(table, table')
    BY DEF NoFailure
<1>u. ~(table' = table)
    BY <1>t, <1>n, NoFailureStatements
<1>1. ASSUME NEW d \in Drains, DrainStep(d) PROVE WriteOutcome(d)
  <2>j. /\ drain[d].pc \in InProcessOne \cup {"normalize"} => drain[d].job \in Jobs
        /\ drain[d].seen \in Nat
      BY <1>t DEF JobInHand, TypeOK, DrainState
  <2>1. ~Normalize(d)
      BY <1>t, <1>n, <2>j, NoFailureStatements DEF Normalize, Runs
  <2>2. ~MarkProcessing(d) /\ ~ReportProgress(d)
      BY <1>t, <1>n, <2>j, NoFailureStatements
      DEF MarkProcessing, ReportProgress, Runs, InProcessOne
  <2>3. ~CheckPrepared(d)
      BY <1>t, <1>n, <1>u, <2>j, NoFailureStatements DEF CheckPrepared, Runs, InProcessOne
  <2>4. ~CommitTranscript(d)
    <3>1. transcripts \in [Jobs -> Nat]
        BY <1>t DEF TypeOK
    <3> QED
        BY <1>t, <1>n, <1>u, <2>j, <3>1, NoFailureStatements
        DEF CommitTranscript, Runs, InProcessOne
  <2> QED
      BY <1>1, <1>u, <2>1, <2>2, <2>3, <2>4
      DEF DrainStep, store, Acquire, TakeNext, NothingQueued, Claim, PublishRuntime,
          Prepare, StartExtraction, ExtractionCompletes, ExtractionFails, LoadModel,
          NextWindow, WindowEnds, Finish, StatementThrows, Finally, CheckLeftOver,
          StopSelf, Unwind
<1>2. ASSUME NEW d \in Drains, WriteOutcome(d)
      PROVE  drain[d].pc \in {"write", "catch"} /\ drain[d].job = j
  <2>1. drain[d].pc \in {"write", "catch"} /\ drain[d].job \in Jobs
      BY <1>2, <1>t DEF WriteOutcome, Runs, JobInHand, InProcessOne
  <2>2. \A k \in Jobs \ {drain[d].job} : table'[k] = table[k]
      BY <1>2, <1>t, <2>1
      DEF WriteOutcome, Complete, RetryRow, UpdateState, Update, Table
  <2> QED
      BY <2>1, <2>2
<1>3. ASSUME Next, \A d \in Drains : ~DrainStep(d) PROVE FALSE
  <2>1. ~TimeoutRequeues
      BY <1>t, <1>n, NoFailureStatements DEF TimeoutRequeues, JobInHand
  <2>2. ~Enqueue
    <3>1. Enqueue => inserted + 1 \in Jobs
        BY <1>t, MaxJobsAssumption DEF Enqueue, TypeOK, Jobs
    <3> QED
        BY <1>t, <1>n, <3>1, NoFailureStatements DEF Enqueue
  <2>3. ~ClearFinished /\ ~ResumeRecovers /\ ~ApplicationRecovers
      BY <1>t, <1>n, NoFailureStatements
      DEF ClearFinished, ResumeRecovers, ApplicationRecovers
  <2>4. \A k \in Jobs : ~Retry(k)
      BY <1>t, <1>n, NoFailureStatements DEF Retry
  <2>5. \A c \in Callers : ~CancelWrites(c)
      BY <1>t, <1>n, NoFailureStatements DEF CancelWrites, JobInHand
  <2> QED
      BY <1>3, <1>u, <2>1, <2>2, <2>3, <2>4, <2>5
      DEF Next, store, MainThreadStep, TimeoutStep, ResumeStep, CallerStep,
          OnStartCommand, OnCancelCommand, OnDestroyBegins, OnDestroyEnds, OnTimeout,
          TimeoutReads, TimeoutFlags, TimeoutStops, StartService, TapCancel,
          NotificationReads, PressCancel, ModelDownloaded, CancelNative, BecomeVisible,
          ResumeChecks, ProcessDeath
<1>4. ~UNCHANGED vars
    BY <1>u DEF vars, store
<1> QED
    BY <1>1, <1>2, <1>3, <1>4

\* Of the failures that leave a row pointing at a transcript there is one kind:
\* the drain that has just committed it could not write the row once more.
THEOREM FailuresAfterCommit == Spec => OnlyTheCommitterFails
<1> DEFINE ByCommitter(j) ==
        (table[j].result # 0 /\ table[j].status # "FAILED"
                             /\ table'[j].status = "FAILED")
            => \E d \in Drains : /\ drain[d].job = j
                                 /\ drain[d].left = 0
                                 /\ drain[d].seen = table[j].result
<1>1. IInv /\ [Next]_vars => [\A j \in Jobs : ByCommitter(j)]_vars
  <2> SUFFICES ASSUME IInv, [Next]_vars, NEW j \in Jobs, table[j].result # 0,
                      table[j].status # "FAILED", table'[j].status = "FAILED"
               PROVE  \E d \in Drains : /\ drain[d].job = j
                                        /\ drain[d].left = 0
                                        /\ drain[d].seen = table[j].result
      OBVIOUS
  <2>1. PICK d \in Drains : drain[d].pc \in {"write", "catch"} /\ drain[d].job = j
      BY FailsInHand
  <2>2. Kept(drain[d])
      BY <2>1 DEF IInv, DecisionsSound, DecisionSound
  <2> QED
      BY <2>1, <2>2 DEF Kept
<1> QED
    BY <1>1, Invariance, PTL DEF Spec, OnlyTheCommitterFails

\* No step saves a transcript for a row that has one.
THEOREM SecondResultExcluded == Spec => NoSecondResult
<1>1. IInv /\ [Next]_vars =>
        [\A j \in Jobs : transcripts'[j] > transcripts[j] => table[j].result = 0]_vars
    BY TranscriptNeedsNoResult
<1> QED
    BY <1>1, Invariance, PTL DEF Spec, NoSecondResult

-----------------------------------------------------------------------------
(* Cancelled jobs.  CancelInv adds to IInv that no number is used before   *)
(* its row is inserted, that only the holder of the mutex has a job and    *)
(* requeues it for a system stop alone, and that a job whose cancel() was  *)
(* carried out has ended by the time its drain can write no more.          *)

\* A row that no drain will take.
Ended(j) == table[j].status \notin {"QUEUED", "PROCESSING"}

\* Rows, and whoever names one, are among those inserted.
OnlyInserted ==
    /\ \A j \in Jobs : j > inserted => table[j].status = "NONE"
    /\ \A d \in Drains : drain[d].job <= inserted
    /\ runtime <= inserted
    /\ \A c \in Callers : caller[c].job <= inserted
    /\ \A j \in settled : j <= inserted

\* Only the holder of the mutex has a job; until it has written the outcome the
\* row has not failed, and it requeues the row only for a system stop.
InHand ==
    /\ \A d \in Drains : drain[d].job # NoJob => drain[d].pc \in UnderLock
    /\ \A d \in Drains :
          drain[d].pc \in (InProcessOne \ {"finally"}) \cup {"normalize"}
              => table[drain[d].job].status # "FAILED"
    /\ \A d \in Drains :
          drain[d].pc \in {"write", "catch"} /\ drain[d].op = "retry"
              => drain[d].job \in systemRequeue

\* A settled job is not to be requeued, and its row has ended when its drain
\* is about to let go of it or can no longer write.
SettledInHand ==
    /\ settled \cap systemRequeue = {}
    /\ \A d \in Drains :
          /\ drain[d].job \in settled
          /\ drain[d].pc \in {"finally", "next"} \/ Killed(d)
          => Ended(drain[d].job)

CancelInv == OnlyInserted /\ InHand /\ SettledInHand /\ CancelSticks

\* Every step of a drain keeps what a carried out cancel() relies on.
LEMMA DrainStepCancel ==
    ASSUME IInv, CancelInv, NEW d \in Drains, DrainStep(d)
    PROVE  CancelInv'
<1>t. TypeOK /\ JobInHand /\ LockHeld
    BY DEF IInv
<1>d. /\ drain \in [Drains -> DrainState] /\ table \in Table
      /\ drain' \in [Drains -> DrainState] /\ table' \in Table
    BY <1>t, DrainStepType DEF TypeOK
<1>j. /\ Jobs \subseteq Nat /\ NoJob \notin Jobs
      /\ settled \subseteq Jobs /\ inserted \in Nat
    BY <1>t, MaxJobsAssumption DEF TypeOK, Jobs, NoJob
<1>i. OnlyInserted /\ InHand /\ SettledInHand /\ CancelSticks
    BY DEF CancelInv
<1>h. \A e \in Drains :
         /\ drain[e].pc \in InProcessOne \cup {"normalize"} => drain[e].job \in Jobs
         /\ drain[e].pc \in UnderLock <=> holder = e
    BY <1>t DEF JobInHand, LockHeld
<1>w. /\ AbortOp(drain[d].job) = "retry" => drain[d].job \in systemRequeue
      /\ \A op \in {"fail", "complete"} :
            OutcomeOp(drain[d].job, op) = "retry" => drain[d].job \in systemRequeue
    BY DEF AbortOp, OutcomeOp
<1> USE DEF Runs, Killed, DrainState, Table, Row, store, flags, service, screens, manager, ghosts
\* A move inside processOne that writes nothing to the store.
<1>m. ASSUME \A e \in Drains \ {d} : drain'[e] = drain[e],
             drain'[d].job = drain[d].job,
             drain[d].pc \in InProcessOne \ {"finally"},
             drain'[d].pc \in InProcessOne \ {"finally"},
             drain'[d].pc \in {"write", "catch"} /\ drain'[d].op = "retry"
                 => drain[d].job \in systemRequeue,
             runtime' \in {runtime, drain[d].job},
             UNCHANGED <<store, flags, service, screens, ghosts>>
      PROVE  CancelInv'
  <2>0. \A e \in Drains : drain'[e].job = drain[e].job
      BY <1>m
  <2>1. OnlyInserted'
      BY <1>m, <1>i, <2>0 DEF OnlyInserted
  <2>2. InHand'
      BY <1>m, <1>i, <2>0 DEF InHand, UnderLock, InProcessOne
  <2>3. SettledInHand'
      BY <1>m, <1>i, <2>0 DEF SettledInHand, InProcessOne, Ended
  <2>4. CancelSticks'
      BY <1>m, <1>i, <2>0 DEF CancelSticks, Held
  <2> QED
      BY <2>1, <2>2, <2>3, <2>4 DEF CancelInv
<1>g. ASSUME NEW pc \in InProcessOne \ {"finally", "write", "catch"}, GoTo(d, pc),
             drain[d].pc \in InProcessOne \ {"finally"},
             runtime' \in {runtime, drain[d].job},
             UNCHANGED <<store, flags, service, screens, ghosts>>
      PROVE  CancelInv'
  <2>1. /\ \A e \in Drains \ {d} : drain'[e] = drain[e]
        /\ drain'[d].pc = pc /\ drain'[d].job = drain[d].job
      BY <1>g, <1>d DEF GoTo
  <2> QED
      BY <1>g, <1>m, <2>1
<1>o. ASSUME NEW op, WriteNext(d, op) \/ CatchNext(d, op),
             op = "retry" => drain[d].job \in systemRequeue,
             drain[d].pc \in InProcessOne \ {"finally"},
             UNCHANGED <<store, flags, service, screens, ghosts, runtime>>
      PROVE  CancelInv'
  <2>1. /\ \A e \in Drains \ {d} : drain'[e] = drain[e]
        /\ drain'[d].pc \in {"write", "catch"} /\ drain'[d].op = op
        /\ drain'[d].job = drain[d].job
      BY <1>o, <1>d, Decided DEF Decides
  <2> QED
      BY <1>o, <1>m, <2>1 DEF InProcessOne
<1>1. CASE Acquire(d)
  BY <1>1, <1>d, <1>j, <1>i, <1>h DEF Acquire, GoTo, CancelInv, OnlyInserted,
     NoJob, InHand, SettledInHand, CancelSticks, Held, Ended, UnderLock,
     InProcessOne
<1>2. CASE TakeNext(d)
  <2> DEFINE j == Oldest(Queued(table))
  <2>0. j \in Jobs /\ table[j].status = "QUEUED"
    <3>1. Queued(table) \in SUBSET Jobs /\ Queued(table) # {}
      BY <1>2 DEF TakeNext, Queued
    <3>2. j \in Queued(table)
      BY <3>1, OldestType
    <3> QED
      BY <3>2 DEF Queued
  <2>r. /\ drain' = [drain EXCEPT ![d] = drain'[d]]
        /\ drain'[d].job = j /\ drain'[d].pc \in {"normalize", "claim"}
        /\ drain[d].pc = "next" /\ ~Killed(d)
        /\ UNCHANGED <<store, flags, service, screens, manager, ghosts>>
    BY <1>2, <1>d DEF TakeNext
  <2> HIDE DEF j
  <2>1. OnlyInserted'
    <3>1. j <= inserted
      <4>1. table[j].status # "NONE" /\ j \in Nat
        BY <1>j, <2>0
      <4>2. j > inserted => table[j].status = "NONE"
        BY <1>i, <2>0 DEF OnlyInserted
      <4> QED
        BY <1>j, <4>1, <4>2
    <3>2. inserted' = inserted /\ UNCHANGED <<table, runtime, caller, settled>>
          /\ \A e \in Drains : drain'[e].job = drain[e].job \/ drain'[e].job = j
      BY <1>d, <2>r
    <3> QED
      BY <1>i, <3>1, <3>2 DEF OnlyInserted
  <2>2. InHand'
    BY <1>d, <1>i, <1>h, <2>0, <2>r DEF InHand, UnderLock, InProcessOne
  <2>3. SettledInHand'
    BY <1>d, <1>i, <1>h, <2>0, <2>r DEF SettledInHand, InHand, UnderLock, InProcessOne, Ended
  <2>4. CancelSticks'
    BY <1>d, <1>j, <1>i, <1>h, <2>0, <2>r DEF CancelSticks, SettledInHand, InHand, Held, Ended
  <2> QED
    BY <2>1, <2>2, <2>3, <2>4 DEF CancelInv
<1>3. CASE NothingQueued(d)
  BY <1>3, <1>d, <1>j, <1>i, <1>h DEF NothingQueued, Queued, OffDrain,
     CancelInv, OnlyInserted, NoJob, InHand, SettledInHand, CancelSticks,
     Held, Ended, UnderLock, InProcessOne
<1>4. CASE Normalize(d)
  BY SMTT(40), <1>4, <1>d, <1>j, <1>i, <1>h DEF Normalize, GoTo, Complete, Update,
     CancelInv, OnlyInserted, NoJob, InHand, SettledInHand, CancelSticks,
     Held, Ended, UnderLock, InProcessOne
<1>5. CASE Claim(d)
  BY <1>5, <1>g, <1>o, <1>w DEF Claim, InProcessOne
<1>6. CASE MarkProcessing(d)
  BY SMTT(40), <1>6, <1>d, <1>j, <1>i, <1>h DEF MarkProcessing, GoTo, UpdateState,
     Update, CancelInv, OnlyInserted, NoJob, InHand, SettledInHand,
     CancelSticks, Held, Ended, UnderLock, InProcessOne
<1>7. CASE PublishRuntime(d)
  BY <1>7, <1>g, <1>o, <1>w DEF PublishRuntime, InProcessOne
<1>8. CASE Prepare(d)
  BY <1>8, <1>g, <1>o, <1>w DEF Prepare, InProcessOne
<1>9. CASE StartExtraction(d)
  BY <1>9, <1>g, <1>o, <1>w DEF StartExtraction, InProcessOne
<1>10. CASE ExtractionCompletes(d)
  BY <1>10, <1>g, <1>o, <1>w DEF ExtractionCompletes, InProcessOne
<1>11. CASE ExtractionFails(d)
  BY <1>11, <1>g, <1>o, <1>w DEF ExtractionFails, InProcessOne
<1>12. CASE CheckPrepared(d)
  <2>1. OnlyInserted'
    <3>1. inserted' = inserted /\ UNCHANGED <<runtime, caller, settled>>
          /\ \A e \in Drains : drain'[e].job = drain[e].job
      BY <1>12, <1>d DEF CheckPrepared, GoTo, WriteNext
    <3>2. \A k \in Jobs : table[k].status = "NONE" => table'[k].status = "NONE"
      BY <1>12, <1>d, <1>h DEF CheckPrepared, SetPreparedInput, Update
    <3> QED
      BY <1>i, <3>1, <3>2 DEF OnlyInserted
  <2>2. InHand'
    <3>1. /\ \A e \in Drains \ {d} : drain'[e] = drain[e]
          /\ drain'[d].job = drain[d].job /\ drain[d].job \in Jobs
          /\ drain[d].pc \in InProcessOne \ {"finally"} /\ drain'[d].pc \in InProcessOne
          /\ drain'[d].pc \in {"write", "catch"} /\ drain'[d].op = "retry"
                => drain[d].job \in systemRequeue
          /\ UNCHANGED systemRequeue
      BY <1>12, <1>d, <1>h, <1>w DEF CheckPrepared, GoTo, WriteNext, InProcessOne
    <3>2. \A k \in Jobs : table'[k].status = "FAILED" => table[k].status = "FAILED"
      BY <1>12, <1>d, <3>1 DEF CheckPrepared, SetPreparedInput, Update
    <3> QED
      BY <1>i, <1>h, <3>1, <3>2 DEF InHand, UnderLock, InProcessOne
  <2>3. SettledInHand'
    BY <1>12, <1>d, <1>j, <1>i, <1>h DEF CheckPrepared, GoTo, WriteNext,
       AbortOp, Cancelled, SetPreparedInput, Update, SettledInHand, InHand,
       UnderLock, InProcessOne, Ended
  <2>4. CancelSticks'
    BY <1>12, <1>d, <1>j, <1>i, <1>h DEF CheckPrepared, GoTo, WriteNext,
       AbortOp, Cancelled, SetPreparedInput, Update, CancelSticks,
       SettledInHand, InHand, Held, Ended, UnderLock, InProcessOne
  <2> QED
    BY <2>1, <2>2, <2>3, <2>4 DEF CancelInv
<1>13. CASE LoadModel(d)
  BY <1>13, <1>g, <1>o, <1>w DEF LoadModel, InProcessOne
<1>14. CASE NextWindow(d)
  BY <1>14, <1>g, <1>o, <1>w DEF NextWindow, InProcessOne
<1>15. CASE WindowEnds(d)
  <2>1. CASE \E op : CatchNext(d, op) /\ (op = "retry" => drain[d].job \in systemRequeue)
    BY <1>15, <1>o, <2>1 DEF WindowEnds, InProcessOne
  <2>2. ASSUME NEW pc \in {"progress", "loop"},
               drain' = [drain EXCEPT ![d].pc = pc, ![d].left = @ - 1]
        PROVE  CancelInv'
    <3>1. /\ \A e \in Drains \ {d} : drain'[e] = drain[e]
          /\ drain'[d].pc = pc /\ drain'[d].job = drain[d].job
      BY <1>d, <2>2
    <3> QED
      BY <1>15, <1>m, <3>1 DEF WindowEnds, InProcessOne
  <2> QED
    BY <1>15, <1>w, <2>1, <2>2 DEF WindowEnds
<1>16. CASE ReportProgress(d)
  BY SMTT(40), <1>16, <1>d, <1>j, <1>i, <1>h DEF ReportProgress, GoTo, UpdateState,
     Update, CancelInv, OnlyInserted, NoJob, InHand, SettledInHand,
     CancelSticks, Held, Ended, UnderLock, InProcessOne
<1>17. CASE CommitTranscript(d)
  <2>1. OnlyInserted'
    <3>1. inserted' = inserted /\ UNCHANGED <<runtime, caller, settled>>
          /\ \A e \in Drains : drain'[e].job = drain[e].job
      BY <1>17, <1>d DEF CommitTranscript, CatchNext
    <3>2. \A k \in Jobs : table[k].status = "NONE" => table'[k].status = "NONE"
      BY <1>17, <1>d, <1>h DEF CommitTranscript, Complete, Update, InProcessOne
    <3> QED
      BY <1>i, <3>1, <3>2 DEF OnlyInserted
  <2>2. InHand'
    <3>1. /\ \A e \in Drains \ {d} : drain'[e] = drain[e]
          /\ drain'[d].job = drain[d].job /\ drain[d].job \in Jobs
          /\ drain[d].pc \in InProcessOne \ {"finally"} /\ drain'[d].pc \in InProcessOne
          /\ drain'[d].pc \in {"write", "catch"} /\ drain'[d].op = "retry"
                => drain[d].job \in systemRequeue
          /\ UNCHANGED systemRequeue
      BY <1>17, <1>d, <1>h, <1>w DEF CommitTranscript, CatchNext, InProcessOne
    <3>2. \A k \in Jobs : table'[k].status = "FAILED" => table[k].status = "FAILED"
      <4>1. \/ table' = table
            \/ table' = Complete(table, drain[d].job, transcripts[drain[d].job] + 1)
        BY <1>17 DEF CommitTranscript
      <4> QED
        BY ZenonT(60), <1>d, <3>1, <4>1 DEF Complete, Update
    <3> QED
      BY <1>i, <1>h, <3>1, <3>2 DEF InHand, UnderLock, InProcessOne
  <2>3. SettledInHand'
    BY <1>17, <1>d, <1>j, <1>i, <1>h DEF CommitTranscript, CatchNext,
       OutcomeOp, Complete, Update, SettledInHand, InHand, UnderLock,
       InProcessOne, Ended
  <2>4. CancelSticks'
    BY <1>17, <1>d, <1>j, <1>i, <1>h DEF CommitTranscript, CatchNext,
       OutcomeOp, Complete, Update, CancelSticks, SettledInHand, InHand,
       Held, Ended, UnderLock, InProcessOne
  <2> QED
    BY <2>1, <2>2, <2>3, <2>4 DEF CancelInv
<1>18. CASE Finish(d)
  BY <1>18, <1>g, <1>o, <1>w DEF Finish, InProcessOne
<1>19. CASE WriteOutcome(d)
  <2> DEFINE j == drain[d].job
  <2>0. /\ drain' = [drain EXCEPT ![d] = drain'[d]]
        /\ drain'[d].job = j /\ drain'[d].pc = "finally"
        /\ drain[d].pc \in {"write", "catch"} /\ ~Killed(d)
        /\ UNCHANGED <<transcripts, inserted, flags, service, screens, manager, ghosts>>
    BY <1>19, <1>d DEF WriteOutcome, GoTo
  <2>1. j \in Jobs
    BY <1>h, <2>0 DEF InProcessOne
  <2> HIDE DEF j
  <2>2. /\ \A k \in Jobs \ {j} : table'[k] = table[k]
        /\ table[j].status = "NONE" => table' = table
        /\ drain[d].op # "retry" => table'[j].status \notin {"QUEUED", "PROCESSING"}
    <3>0. ASSUME NEW row, table' = Update(table, j, row),
                 drain[d].op # "retry" => row.status \notin {"QUEUED", "PROCESSING"}
          PROVE  /\ \A k \in Jobs \ {j} : table'[k] = table[k]
                 /\ table[j].status = "NONE" => table' = table
                 /\ drain[d].op # "retry" => table'[j].status \notin {"QUEUED", "PROCESSING"}
      <4>1. CASE table[j].status = "NONE"
        BY <3>0, <4>1 DEF Update, Ended
      <4>2. CASE table[j].status # "NONE"
        <5>1. table' = [table EXCEPT ![j] = row]
          BY <3>0, <4>2 DEF Update
        <5>2. table'[j] = row /\ \A k \in Jobs \ {j} : table'[k] = table[k]
          BY <1>d, <2>1, <5>1
        <5> QED
          BY <3>0, <4>2, <5>2 DEF Ended
      <4> QED
        BY <4>1, <4>2
    <3>1. CASE drain[d].op = "complete"
      <4>1. table' = Update(table, j, [table[j] EXCEPT !.status = "COMPLETED",
                                                       !.result = drain[d].seen])
        BY <1>19, <3>1 DEF WriteOutcome, Complete, j
      <4>2. [table[j] EXCEPT !.status = "COMPLETED", !.result = drain[d].seen].status = "COMPLETED"
        BY <1>d, <2>1
      <4> QED
        BY <3>0, <4>1, <4>2
    <3>2. CASE drain[d].op = "retry"
      <4>1. table' = Update(table, j, [table[j] EXCEPT !.status = "QUEUED", !.result = 0])
        BY <1>19, <3>2 DEF WriteOutcome, RetryRow, j
      <4> QED
        BY <3>0, <3>2, <4>1
    <3>3. CASE drain[d].op \notin {"complete", "retry"}
      <4>1. PICK state \in {"CANCELLED", "FAILED"} :
                table' = Update(table, j, [table[j] EXCEPT !.status = state])
        BY <1>19, <3>3 DEF WriteOutcome, UpdateState, j
      <4>2. [table[j] EXCEPT !.status = state].status = state
        BY <1>d, <2>1
      <4> QED
        BY <3>0, <4>1, <4>2
    <3> QED
      BY <3>1, <3>2, <3>3
  <2>3. \A e \in Drains \ {d} : drain'[e] = drain[e]
    BY <1>d, <2>0
  <2>4. \A e \in Drains \ {d} : drain[e].job # j
    <3>1. drain[d].pc \in UnderLock /\ \A e \in Drains : drain[e].pc \in UnderLock => holder = e
      BY <1>h, <2>0 DEF UnderLock, InProcessOne
    <3>2. \A e \in Drains : drain[e].job \in Jobs => drain[e].pc \in UnderLock
      BY <1>j, <1>i DEF InHand
    <3> QED
      BY <2>1, <3>1, <3>2
  <2>5. j \in settled => table'[j].status \notin {"QUEUED", "PROCESSING"}
    <3>1. j \in settled => drain[d].op # "retry"
      BY <1>i, <2>0 DEF InHand, SettledInHand, j
    <3> QED
      BY <2>2, <3>1
  <2>6. OnlyInserted'
    <3>1. inserted' = inserted /\ UNCHANGED <<runtime, caller, settled>>
          /\ \A e \in Drains : drain'[e].job = drain[e].job
      BY <1>d, <2>0, <2>3 DEF j
    <3>2. \A k \in Jobs : table[k].status = "NONE" => table'[k].status = "NONE"
      BY <2>2
    <3> QED
      BY <1>i, <3>1, <3>2 DEF OnlyInserted
  <2>7. InHand'
    <3>1. drain'[d].pc \notin (InProcessOne \ {"finally"}) \cup {"normalize", "write", "catch"}
      BY <2>0 DEF InProcessOne
    <3>2. \A e \in Drains \ {d} :
             drain'[e].pc \in (InProcessOne \ {"finally"}) \cup {"normalize"}
               => table'[drain'[e].job].status # "FAILED"
      BY <1>i, <1>h, <2>0, <2>3 DEF InHand, UnderLock, InProcessOne
    <3>3. UNCHANGED systemRequeue /\ drain'[d].pc \in UnderLock
      BY <2>0 DEF UnderLock, InProcessOne
    <3> QED
      BY <1>i, <2>3, <3>1, <3>2, <3>3 DEF InHand
  <2>8. SettledInHand'
    <3>1. UNCHANGED <<settled, systemRequeue>> /\ \A e \in Drains : Killed(e)' <=> Killed(e)
      BY <2>0 DEF Killed
    <3>2. ASSUME NEW e \in Drains \ {d}, drain[e].job \in settled, Ended(drain[e].job)
          PROVE  table'[drain[e].job].status \notin {"QUEUED", "PROCESSING"}
      <4>1. drain[e].job \in Jobs \ {j}
        BY <1>j, <2>4, <3>2
      <4> QED
        BY <2>2, <3>2, <4>1 DEF Ended
    <3>3. drain'[d].job \in settled => table'[drain'[d].job].status \notin {"QUEUED", "PROCESSING"}
      BY <2>0, <2>5
    <3>4. ASSUME NEW e \in Drains \ {d}, drain'[e].job \in settled,
                 drain'[e].pc \in {"finally", "next"} \/ Killed(e)
          PROVE  table'[drain'[e].job].status \notin {"QUEUED", "PROCESSING"}
      <4>1. drain'[e] = drain[e]
        BY <2>3
      <4>2. Ended(drain[e].job)
        BY <1>i, <3>4, <4>1 DEF SettledInHand
      <4> QED
        BY <3>2, <3>4, <4>1, <4>2
    <3>5. ASSUME NEW e \in Drains, drain'[e].job \in settled,
                 drain'[e].pc \in {"finally", "next"} \/ Killed(e)
          PROVE  table'[drain'[e].job].status \notin {"QUEUED", "PROCESSING"}
      BY <3>3, <3>4, <3>5
    <3> QED
      BY <1>i, <3>1, <3>5 DEF SettledInHand, Ended
  <2>9. CancelSticks'
    <3>1. UNCHANGED settled /\ \A k : Held(k)' <=> Held(k)
      BY <1>d, <2>0, <2>3 DEF Held, j
    <3>2. ASSUME NEW k \in settled, ~Held(k) PROVE table'[k] = table[k]
      <4>1. k \in Jobs \ {j}
        BY <1>j, <3>2 DEF Held, j
      <4> QED
        BY <2>2, <4>1
    <3> QED
      BY <1>i, <3>1, <3>2 DEF CancelSticks
  <2> QED
    BY <2>6, <2>7, <2>8, <2>9 DEF CancelInv
<1>24. CASE StatementThrows(d)
  BY <1>24, <1>o, <1>w DEF StatementThrows, InProcessOne
<1>20. CASE Finally(d)
  BY <1>20, <1>d, <1>j, <1>i, <1>h DEF Finally, ForgetCurrent, OffDrain,
     CancelInv, OnlyInserted, NoJob, InHand, SettledInHand, CancelSticks,
     Held, Ended, UnderLock, InProcessOne
<1>21. CASE CheckLeftOver(d)
  BY SMTT(40), <1>21, <1>d, <1>j, <1>i, <1>h DEF CheckLeftOver, GoTo, Unfinished,
     CancelInv, OnlyInserted, NoJob, InHand, SettledInHand, CancelSticks,
     Held, Ended, UnderLock, InProcessOne
<1>22. CASE StopSelf(d)
  BY <1>22, <1>d, <1>j, <1>i, <1>h DEF StopSelf, GoTo, CancelInv,
     OnlyInserted, NoJob, InHand, SettledInHand, CancelSticks, Held, Ended,
     UnderLock, InProcessOne
<1>23. CASE Unwind(d)
  BY <1>23, <1>d, <1>j, <1>i, <1>h DEF Unwind, ForgetCurrent, OffDrain,
     CancelInv, OnlyInserted, NoJob, InHand, SettledInHand, CancelSticks,
     Held, Ended, UnderLock, InProcessOne
<1> QED
  BY <1>1, <1>2, <1>3, <1>4, <1>5, <1>6, <1>7, <1>8, <1>9, <1>10, <1>11,
     <1>12, <1>13, <1>14, <1>15, <1>16, <1>17, <1>18, <1>19, <1>20, <1>21,
     <1>22, <1>23, <1>24 DEF DrainStep

\* So does every step of the services, the screens, the callers and a death.
LEMMA OtherStepCancel ==
    ASSUME IInv, CancelInv, [Next]_vars, \A d \in Drains : ~DrainStep(d)
    PROVE  CancelInv'
<1>t. TypeOK /\ JobInHand /\ LockHeld
    BY DEF IInv
<1>d. /\ drain \in [Drains -> DrainState] /\ table \in Table
      /\ drain' \in [Drains -> DrainState] /\ table' \in Table
      /\ caller \in [Callers -> CallerState]
    BY <1>t, OtherStepType DEF TypeOK
<1>j. /\ Jobs \subseteq Nat /\ NoJob \notin Jobs
      /\ settled \subseteq Jobs /\ inserted \in Nat
    BY <1>t, MaxJobsAssumption DEF TypeOK, Jobs, NoJob
<1>i. OnlyInserted /\ InHand /\ SettledInHand /\ CancelSticks
    BY DEF CancelInv
<1>h. /\ \A e \in Drains :
            /\ drain[e].pc \in InProcessOne \cup {"normalize"} => drain[e].job \in Jobs
            /\ drain[e].pc \in UnderLock <=> holder = e
      /\ timeout.pc \in {"flag", "retry"} => timeout.job \in Jobs
      /\ \A c \in Callers : caller[c].pc \in {"native", "write"} => caller[c].job \in Jobs
    BY <1>t DEF JobInHand, LockHeld
<1> USE DEF Killed, DrainState, CallerState, Table, Row, store, flags, service, screens, manager, ghosts
<1>1. CASE OnStartCommand
  <2>0. \/ UNCHANGED <<drain, mine>>
        \/ /\ mine = None \/ mine \in Free
           /\ \E e \in Drains :
                 /\ drain[e].pc = "off" /\ mine' = e
                 /\ drain' = [drain EXCEPT ![e] = [OffDrain EXCEPT !.pc = "lock"]]
    BY <1>1 DEF OnStartCommand, Free
  <2>n. /\ \A e \in Drains : 
                 \/ drain'[e] = drain[e]
                 \/ drain[e].pc = "off" /\ drain'[e].pc = "lock" /\ drain'[e].job = NoJob
        /\ \A e \in Drains : Killed(e)' => Killed(e) \/ drain[e].pc = "off"
        /\ UNCHANGED <<store, flags, screens, manager, ghosts>>
    <3>1. UNCHANGED <<store, flags, screens, manager, ghosts>>
      BY <1>1 DEF OnStartCommand
    <3>2. CASE UNCHANGED <<drain, mine>>
      BY <3>1, <3>2
    <3>3. ASSUME mine = None \/ mine \in Free, NEW x \in Drains, drain[x].pc = "off", mine' = x,
                 drain' = [drain EXCEPT ![x] = [OffDrain EXCEPT !.pc = "lock"]]
          PROVE  /\ \A e \in Drains : 
                        \/ drain'[e] = drain[e]
                        \/ drain[e].pc = "off" /\ drain'[e].pc = "lock" /\ drain'[e].job = NoJob
                 /\ \A e \in Drains : Killed(e)' => Killed(e) \/ drain[e].pc = "off"
      <4>1. \A e \in Drains : 
                 \/ drain'[e] = drain[e]
                 \/ drain[e].pc = "off" /\ drain'[e].pc = "lock" /\ drain'[e].job = NoJob
        BY <1>d, <3>3 DEF OffDrain
      <4>2. \A e \in Drains : Killed(e) \/ drain[e].pc = "off"
        BY <3>3, QueueAssumption DEF Free
      <4> QED
        BY <4>1, <4>2
    <3> QED
      BY <2>0, <3>1, <3>2, <3>3
  <2>1. OnlyInserted'
    BY <1>d, <1>j, <1>i, <2>n DEF OnlyInserted, NoJob
  <2>2. InHand'
    BY <1>d, <1>j, <1>i, <2>n DEF InHand, UnderLock, InProcessOne
  <2>3. SettledInHand'
    <3>1. \A e \in Drains : drain'[e].job \in settled => drain'[e] = drain[e] /\ drain[e].pc # "off"
      BY ZenonT(60), <1>d, <1>j, <1>i, <2>n DEF InHand, UnderLock, InProcessOne
    <3>2. UNCHANGED <<settled, systemRequeue, table>>
      BY <2>n
    <3> QED
      BY <1>i, <2>n, <3>1, <3>2 DEF SettledInHand, Ended
  <2>4. CancelSticks'
    BY <1>d, <1>j, <1>i, <2>n DEF CancelSticks, InHand, Held, UnderLock, InProcessOne
  <2> QED
    BY <2>1, <2>2, <2>3, <2>4 DEF CancelInv
<1>2. CASE OnDestroyBegins
  <2>n. /\ \A e \in Drains :
             /\ drain'[e].job = drain[e].job /\ drain'[e].op = drain[e].op
             /\ \/ drain'[e].pc = drain[e].pc
                \/ drain[e].pc \in Working /\ drain'[e].pc \in Working
        /\ settled' \cap systemRequeue' = {} /\ settled' \subseteq settled
        /\ systemRequeue \subseteq systemRequeue'
        /\ UNCHANGED <<table, inserted, mine, runtime, caller>>
    BY <1>2, <1>d, <1>i, CancelPreparationIs
    DEF OnDestroyBegins, SettledInHand, Working, InProcessOne
  <2>1. OnlyInserted'
    BY <1>d, <1>i, <2>n DEF OnlyInserted
  <2>2. InHand'
    BY <1>d, <1>i, <2>n DEF InHand, UnderLock, Working, InProcessOne
  <2>3. SettledInHand'
    BY <1>d, <1>i, <2>n DEF SettledInHand, Working, InProcessOne, Ended
  <2>4. CancelSticks'
    BY <1>d, <1>i, <2>n DEF CancelSticks, Held
  <2> QED
    BY <2>1, <2>2, <2>3, <2>4 DEF CancelInv
<1>3. CASE OnDestroyEnds
  BY <1>3, <1>d, <1>j, <1>i, <1>h DEF OnDestroyEnds, IdleCaller, CancelInv,
     OnlyInserted, NoJob, InHand, SettledInHand, CancelSticks, Held, Ended,
     UnderLock, InProcessOne
<1>4. CASE OnTimeout
  BY <1>4, <1>d, <1>j, <1>i, <1>h DEF OnTimeout, Spend, CancelInv,
     OnlyInserted, NoJob, InHand, SettledInHand, CancelSticks, Held, Ended,
     UnderLock, InProcessOne
<1>5. CASE TimeoutReads
  BY <1>5, <1>d, <1>j, <1>i, <1>h DEF TimeoutReads, CancelInv, OnlyInserted,
     NoJob, InHand, SettledInHand, CancelSticks, Held, Ended, UnderLock,
     InProcessOne
<1>6. CASE TimeoutFlags
  BY <1>6, <1>d, <1>j, <1>i, <1>h DEF TimeoutFlags, CancelPreparation,
     CancelInv, OnlyInserted, NoJob, InHand, SettledInHand, CancelSticks,
     Held, Ended, UnderLock, InProcessOne
<1>7. CASE TimeoutRequeues
  BY <1>7, <1>d, <1>j, <1>i, <1>h DEF TimeoutRequeues, RetryRow, Update,
     CancelInv, OnlyInserted, NoJob, InHand, SettledInHand, CancelSticks,
     Held, Ended, UnderLock, InProcessOne
<1>8. CASE TimeoutStops
  BY <1>8, <1>d, <1>j, <1>i, <1>h DEF TimeoutStops, CancelInv, OnlyInserted,
     NoJob, InHand, SettledInHand, CancelSticks, Held, Ended, UnderLock,
     InProcessOne
<1>9. CASE Enqueue
  <2>0. /\ inserted' = inserted + 1 /\ inserted + 1 \in Jobs /\ inserted + 1 \notin settled
        /\ \A k \in Jobs : k # inserted + 1 => table'[k] = table[k]
        /\ \A e \in Drains : drain[e].job # inserted + 1
        /\ UNCHANGED <<drain, mine, runtime, caller, settled, systemRequeue>>
    BY <1>9, <1>t, <1>d, <1>j, <1>i, MaxJobsAssumption
    DEF Enqueue, Insert, OnlyInserted, TypeOK, Jobs
  <2>1. OnlyInserted'
    <3>1. \A k \in Jobs : k > inserted + 1 => k > inserted /\ k # inserted + 1
      BY <1>j
    <3>2. \A k \in Jobs : k > inserted' => table'[k].status = "NONE"
      BY <1>i, <2>0, <3>1 DEF OnlyInserted
    <3>3. \A n \in Nat : n <= inserted => n <= inserted'
      BY <1>j, <2>0
    <3>4. runtime \in Nat /\ \A e \in Drains : drain[e].job \in Nat
      BY <1>t, <1>j, <1>d DEF TypeOK, NoJob, Jobs
    <3>5. \A c \in Callers : caller[c].job \in Nat
      BY <1>j, <1>d DEF NoJob, Jobs
    <3> QED
      BY <1>i, <1>j, <2>0, <3>2, <3>3, <3>4, <3>5 DEF OnlyInserted
  <2>2. InHand'
    BY <1>9, <1>d, <1>j, <1>i, <1>h DEF Enqueue, Insert, InHand, UnderLock,
       InProcessOne
  <2>3. SettledInHand'
    BY <1>d, <1>j, <1>i, <2>0 DEF SettledInHand, Ended
  <2>4. CancelSticks'
    BY <1>d, <1>j, <1>i, <2>0 DEF CancelSticks, Held
  <2> QED
    BY <2>1, <2>2, <2>3, <2>4 DEF CancelInv
<1>10. CASE StartService
  BY <1>10, <1>d, <1>j, <1>i, <1>h DEF StartService, CancelInv, OnlyInserted,
     NoJob, InHand, SettledInHand, CancelSticks, Held, Ended, UnderLock,
     InProcessOne
<1>11. CASE ModelDownloaded
  BY <1>11, <1>d, <1>j, <1>i, <1>h DEF ModelDownloaded, Unfinished, CancelInv,
     OnlyInserted, NoJob, InHand, SettledInHand, CancelSticks, Held, Ended,
     UnderLock, InProcessOne
<1>12. CASE ClearFinished
  BY <1>12, <1>d, <1>j, <1>i, <1>h DEF ClearFinished, Spend,
     ClearFinishedHistory, NoRow, CancelInv, OnlyInserted, NoJob, InHand,
     SettledInHand, CancelSticks, Held, Ended, UnderLock, InProcessOne
<1>13. CASE BecomeVisible
  BY <1>13, <1>d, <1>j, <1>i, <1>h DEF BecomeVisible, CancelInv, OnlyInserted,
     NoJob, InHand, SettledInHand, CancelSticks, Held, Ended, UnderLock,
     InProcessOne
<1>14. CASE ResumeRecovers
  BY <1>14, <1>d, <1>j, <1>i, <1>h DEF ResumeRecovers, RecoverInterrupted,
     CancelInv, OnlyInserted, NoJob, InHand, SettledInHand, CancelSticks,
     Held, Ended, UnderLock, InProcessOne
<1>15. CASE ResumeChecks
  BY <1>15, <1>d, <1>j, <1>i, <1>h DEF ResumeChecks, Unfinished, CancelInv,
     OnlyInserted, NoJob, InHand, SettledInHand, CancelSticks, Held, Ended,
     UnderLock, InProcessOne
<1>16. CASE ApplicationRecovers
  BY <1>16, <1>d, <1>j, <1>i, <1>h DEF ApplicationRecovers,
     RecoverInterrupted, CancelInv, OnlyInserted, NoJob, InHand,
     SettledInHand, CancelSticks, Held, Ended, UnderLock, InProcessOne
<1>17. CASE ProcessDeath
  BY <1>17, <1>d, <1>j, <1>i, <1>h DEF ProcessDeath, Spend, OffDrain,
     IdleCaller, CancelInv, OnlyInserted, NoJob, InHand, SettledInHand,
     CancelSticks, Held, Ended, UnderLock, InProcessOne
<1>18. ASSUME NEW j \in Jobs, Retry(j) PROVE CancelInv'
  BY <1>18, <1>d, <1>j, <1>i, <1>h DEF Retry, RetryRow, Spend, Update,
     CancelInv, OnlyInserted, NoJob, InHand, SettledInHand, CancelSticks,
     Held, Ended, UnderLock, InProcessOne
<1>19. ASSUME NEW c \in Callers, CancelNative(c) PROVE CancelInv'
  BY <1>19, <1>d, <1>j, <1>i, <1>h DEF CancelNative, CancelPreparation,
     CancelInv, OnlyInserted, NoJob, InHand, SettledInHand, CancelSticks,
     Held, Ended, UnderLock, InProcessOne
<1>20. ASSUME NEW c \in Callers, CancelWrites(c) PROVE CancelInv'
  BY <1>20, <1>d, <1>j, <1>i, <1>h DEF CancelWrites, UpdateState, IdleCaller,
     Update, CancelInv, OnlyInserted, NoJob, InHand, SettledInHand,
     CancelSticks, Held, Ended, UnderLock, InProcessOne
<1>b. ASSUME NEW c \in Callers, NEW j \in Jobs, j <= inserted, CancelBegins(c, j),
             UNCHANGED <<store, systemRequeue, service, manager, drain, settled>>
      PROVE  CancelInv'
  <2>1. \A e \in Callers : caller'[e].job \in {caller[e].job, j}
    BY <1>b, <1>d DEF CancelBegins
  <2> QED
    BY <1>b, <1>i, <2>1
    DEF CancelInv, OnlyInserted, InHand, SettledInHand, CancelSticks, Held, Ended
<1>21. ASSUME NEW j \in Jobs, PressCancel(j) PROVE CancelInv'
  <2>1. j <= inserted
    BY <1>21, <1>i, <1>j DEF PressCancel, Unfinished, OnlyInserted
  <2> QED
    BY <1>21, <1>b, <2>1 DEF PressCancel, Callers
<1>23. CASE OnCancelCommand
  <2>1. \A c \in Callers : caller'[c].job \in {caller[c].job, NoJob}
    BY <1>23, <1>d DEF OnCancelCommand
  <2>2. OnlyInserted'
    BY <1>23, <1>i, <1>j, <2>1 DEF OnCancelCommand, OnlyInserted, NoJob
  <2>3. InHand' /\ SettledInHand' /\ CancelSticks'
    BY <1>23, <1>i
    DEF OnCancelCommand, InHand, SettledInHand, CancelSticks, Held, Ended
  <2> QED
    BY <2>2, <2>3 DEF CancelInv
<1>24. CASE TapCancel
  BY <1>24, <1>i
  DEF TapCancel, CancelInv, OnlyInserted, InHand, SettledInHand, CancelSticks, Held,
      Ended
<1>25. CASE NotificationReads
  <2>1. CASE runtime = NoJob
    <3>1. \A c \in Callers : caller'[c].job \in {caller[c].job, NoJob}
      BY <1>25, <1>d, <2>1 DEF NotificationReads, IdleCaller
    <3> QED
      BY <1>25, <1>i, <1>j, <2>1, <3>1
      DEF NotificationReads, CancelInv, OnlyInserted, NoJob, InHand, SettledInHand,
          CancelSticks, Held, Ended
  <2>2. CASE runtime # NoJob
    <3>1. runtime \in Jobs /\ runtime <= inserted
      BY <1>t, <1>i, <2>2 DEF TypeOK, OnlyInserted
    <3> QED
      BY <1>25, <1>b, <2>2, <3>1 DEF NotificationReads, Callers
  <2> QED
    BY <2>1, <2>2
<1>22. CASE UNCHANGED vars
  BY <1>22, <1>i DEF vars, CancelInv, OnlyInserted, InHand, SettledInHand, CancelSticks, Ended, Held
<1> QED
  BY <1>1, <1>2, <1>3, <1>4, <1>5, <1>6, <1>7, <1>8, <1>9, <1>10, <1>11,
     <1>12, <1>13, <1>14, <1>15, <1>16, <1>17, <1>18, <1>19, <1>20, <1>21,
     <1>22, <1>23, <1>24, <1>25 DEF Next, MainThreadStep, TimeoutStep, ResumeStep, CallerStep

\* Nothing is cancelled when the application starts.
LEMMA InitCancel == Init => CancelInv
<1> SUFFICES ASSUME Init PROVE CancelInv
  OBVIOUS
<1>1. OnlyInserted
  BY QueueAssumption, MaxJobsAssumption
  DEF Init, OnlyInserted, NoRow, OffDrain, IdleCaller, NoJob, Jobs
<1>2. InHand /\ SettledInHand /\ CancelSticks
  BY DEF Init, InHand, SettledInHand, CancelSticks, OffDrain, UnderLock, InProcessOne
<1> QED
  BY <1>1, <1>2 DEF CancelInv

\* A cancel() that was carried out stays carried out: whatever the drain that
\* has the job in hand still writes, and whatever stops, recoveries, retries and
\* process deaths happen around it.
THEOREM CancelsStick == Spec => []CancelSticks
<1>1. CancelInv => CancelSticks
  BY DEF CancelInv
<1>2. IInv /\ CancelInv /\ [Next]_vars => CancelInv'
  BY DrainStepCancel, OtherStepCancel
<1> QED
  BY <1>1, <1>2, InitCancel, Invariance, PTL DEF Spec

-----------------------------------------------------------------------------
(* The life cycle of a job.                                                *)

\* What the life cycle sees of the store stays the same.
LEMMA SameToUser ==
    ASSUME \A k \in Jobs : /\ Stage(table'[k]) = Stage(table[k])
                           /\ table'[k].result = table[k].result,
           UNCHANGED transcripts
    PROVE  UNCHANGED Lifecycle!vars
BY DEF Lifecycle!vars

\* A statement that changes one row sets the stage and the result of its job.
LEMMA RowStep ==
    ASSUME NEW j \in Jobs, \A k \in Jobs \ {j} : table'[k] = table[k]
    PROVE  /\ [k \in Jobs |-> Stage(table'[k])]
                  = [[k \in Jobs |-> Stage(table[k])] EXCEPT ![j] = Stage(table'[j])]
           /\ [k \in Jobs |-> table'[k].result]
                  = [[k \in Jobs |-> table[k].result] EXCEPT ![j] = table'[j].result]
OBVIOUS

\* UPDATE ... SET status = 'CANCELLED', 'QUEUED' or 'PROCESSING'
LEMMA CancelStep ==
    ASSUME TypeOK, NEW j \in Jobs, table' = UpdateState(table, j, "CANCELLED"),
           UNCHANGED transcripts
    PROVE  [Lifecycle!Next]_(Lifecycle!vars)
<1>t. table \in Table
  BY DEF TypeOK
<1>1. CASE table[j].status = "NONE"
  <2>1. table' = table
    BY <1>1 DEF UpdateState, Update
  <2> QED
    BY <2>1, SameToUser
<1>2. CASE table[j].status # "NONE"
  <2>1. /\ \A k \in Jobs \ {j} : table'[k] = table[k]
        /\ table'[j].status = "CANCELLED" /\ table'[j].result = table[j].result
    BY <1>t, <1>2 DEF UpdateState, Update, Table, Row
  <2>2. Stage(table[j]) # "absent" /\ Stage(table'[j]) = "cancelled"
    BY <1>t, <1>2, <2>1 DEF Stage, Table, Row, Statuses
  <2>3. Lifecycle!Cancel(j)
    BY <2>1, <2>2, RowStep DEF Lifecycle!Cancel, Lifecycle!Set
  <2> QED
    BY <2>3 DEF Lifecycle!Next
<1> QED
  BY <1>1, <1>2

\* RetryRow, of the user or of a system stop; and a row that goes back from
\* CANCELLED to PROCESSING because its drain did not hear of it yet.
LEMMA RestartStep ==
    ASSUME TypeOK, NEW j \in Jobs, UNCHANGED transcripts,
           \/ table' = RetryRow(table, j)
           \/ table' = UpdateState(table, j, "PROCESSING") /\ table[j].result = 0
    PROVE  [Lifecycle!Next]_(Lifecycle!vars)
<1>t. table \in Table
  BY DEF TypeOK
<1>1. CASE table[j].status = "NONE"
  <2>1. table' = table
    BY <1>1 DEF RetryRow, UpdateState, Update
  <2> QED
    BY <2>1, SameToUser
<1>2. CASE table[j].status # "NONE"
  <2>1. /\ \A k \in Jobs \ {j} : table'[k] = table[k]
        /\ table'[j].status \in {"QUEUED", "PROCESSING"} /\ table'[j].result = 0
    BY ZenonT(60), <1>t, <1>2 DEF RetryRow, UpdateState, Update, Table, Row
  <2>2. Stage(table[j]) # "absent" /\ Stage(table'[j]) = "waiting"
    BY <1>t, <1>2, <2>1 DEF Stage, Table, Row, Statuses
  <2>3. Lifecycle!Restart(j)
    BY <2>1, <2>2, RowStep DEF Lifecycle!Restart, Lifecycle!Set
  <2> QED
    BY <2>3 DEF Lifecycle!Next
<1> QED
  BY <1>1, <1>2

\* complete() with a transcript that was saved before.
LEMMA RelinkStep ==
    ASSUME TypeOK, NEW j \in Jobs, NEW n \in 1..transcripts[j], UNCHANGED transcripts,
           table' = Complete(table, j, n), table[j].status # "FAILED"
    PROVE  [Lifecycle!Next]_(Lifecycle!vars)
<1>t. table \in Table
  BY DEF TypeOK
<1>1. CASE table[j].status = "NONE"
  <2>1. table' = table
    BY <1>1 DEF Complete, Update
  <2> QED
    BY <2>1, SameToUser
<1>2. CASE table[j].status # "NONE"
  <2>1. /\ \A k \in Jobs \ {j} : table'[k] = table[k]
        /\ table'[j].status = "COMPLETED" /\ table'[j].result = n
    BY <1>t, <1>2 DEF Complete, Update, Table, Row
  <2>2. Stage(table[j]) \in {"waiting", "cancelled", "done"} /\ Stage(table'[j]) = "done"
    BY <1>t, <1>2, <2>1 DEF Stage, Table, Row, Statuses
  <2>3. Lifecycle!Relink(j)
    BY <2>1, <2>2, RowStep DEF Lifecycle!Relink, Lifecycle!Set
  <2> QED
    BY <2>3 DEF Lifecycle!Next
<1> QED
  BY <1>1, <1>2

\* The transaction of the commit.
LEMMA SaveStep ==
    ASSUME TypeOK, NEW j \in Jobs, table[j].result = 0,
           transcripts' = [transcripts EXCEPT ![j] = transcripts[j] + 1],
           table' = Complete(table, j, transcripts[j] + 1)
    PROVE  Lifecycle!Next
<1>t. table \in Table
  BY DEF TypeOK
<1>1. CASE table[j].status = "NONE"
  <2>1. table' = table /\ Stage(table[j]) = "absent"
    BY <1>1 DEF Complete, Update, Stage
  <2>2. Lifecycle!Save(j)
    BY <2>1 DEF Lifecycle!Save
  <2> QED
    BY <2>2 DEF Lifecycle!Next
<1>2. CASE table[j].status # "NONE"
  <2>1. /\ \A k \in Jobs \ {j} : table'[k] = table[k]
        /\ table'[j].status = "COMPLETED" /\ table'[j].result = transcripts[j] + 1
    BY <1>t, <1>2 DEF Complete, Update, Table, Row
  <2>2. Stage(table[j]) # "absent" /\ Stage(table'[j]) = "done"
    BY <1>t, <1>2, <2>1 DEF Stage, Table, Row, Statuses
  <2>3. Lifecycle!Save(j)
    BY <2>1, <2>2, RowStep DEF Lifecycle!Save, Lifecycle!Set
  <2> QED
    BY <2>3 DEF Lifecycle!Next
<1> QED
  BY <1>1, <1>2

\* The FAILED update of a row that waits without a result, or that has ended.
LEMMA FailStep ==
    ASSUME TypeOK, NEW j \in Jobs, UNCHANGED transcripts,
           table' = UpdateState(table, j, "FAILED"), table[j].status # "FAILED",
           table[j].result # 0 => table[j].status \in {"COMPLETED", "CANCELLED"}
    PROVE  [Lifecycle!Next]_(Lifecycle!vars)
<1>t. table \in Table
  BY DEF TypeOK
<1>1. CASE table[j].status = "NONE"
  <2>1. table' = table
    BY <1>1 DEF UpdateState, Update
  <2> QED
    BY <2>1, SameToUser
<1>2. CASE table[j].status # "NONE"
  <2>1. /\ \A k \in Jobs \ {j} : table'[k] = table[k]
        /\ table'[j].status = "FAILED" /\ table'[j].result = table[j].result
    BY <1>t, <1>2 DEF UpdateState, Update, Table, Row
  <2>2. Stage(table[j]) \in {"waiting", "cancelled", "done"} /\ Stage(table'[j]) = "failed"
    BY <1>t, <1>2, <2>1 DEF Stage, Table, Row, Statuses
  <2>3. Stage(table[j]) = "waiting" => table[j].result = 0
    BY DEF Stage
  <2>4. Lifecycle!Fail(j)
    BY <2>1, <2>2, <2>3, RowStep DEF Lifecycle!Fail, Lifecycle!Set
  <2> QED
    BY <2>4 DEF Lifecycle!Next
<1> QED
  BY <1>1, <1>2

\* INSERT of a row that was never there.
LEMMA SubmitStep ==
    ASSUME TypeOK, NEW j \in Jobs, table[j].status = "NONE", UNCHANGED transcripts,
           table' = Insert(table, j)
    PROVE  Lifecycle!Next
<1>1. /\ \A k \in Jobs \ {j} : table'[k] = table[k]
      /\ table'[j].status = "QUEUED" /\ table'[j].result = 0
  BY DEF TypeOK, Insert, Table
<1>2. Stage(table[j]) = "absent" /\ Stage(table'[j]) = "waiting"
  BY <1>1 DEF Stage
<1>3. Lifecycle!Submit(j)
  BY <1>1, <1>2, RowStep DEF Lifecycle!Submit, Lifecycle!Set
<1> QED
  BY <1>3 DEF Lifecycle!Next

\* setPreparedInput and the recovery of interrupted rows, which nobody sees.
LEMMA UnseenStep ==
    ASSUME TypeOK, UNCHANGED transcripts,
           \/ table' = RecoverInterrupted(table)
           \/ \E j \in Jobs : table' = SetPreparedInput(table, j)
    PROVE  UNCHANGED Lifecycle!vars
<1>t. table \in Table
  BY DEF TypeOK
<1>1. ASSUME table' = RecoverInterrupted(table), NEW k \in Jobs
      PROVE  Stage(table'[k]) = Stage(table[k]) /\ table'[k].result = table[k].result
  BY <1>t, <1>1 DEF RecoverInterrupted, Stage, Table, Row
<1>2. ASSUME NEW j \in Jobs, table' = SetPreparedInput(table, j), NEW k \in Jobs
      PROVE  Stage(table'[k]) = Stage(table[k]) /\ table'[k].result = table[k].result
  <2>1. table'[k].status = table[k].status /\ table'[k].result = table[k].result
    <3>1. CASE table[j].status = "NONE"
      BY <1>2, <3>1 DEF SetPreparedInput, Update
    <3>2. CASE table[j].status # "NONE" /\ k = j
      BY <1>t, <1>2, <3>2 DEF SetPreparedInput, Update, Table, Row
    <3>3. CASE table[j].status # "NONE" /\ k # j
      BY <1>t, <1>2, <3>3 DEF SetPreparedInput, Update, Table, Row
    <3> QED
      BY <3>1, <3>2, <3>3
  <2> QED
    BY <2>1 DEF Stage
<1> QED
  BY <1>1, <1>2, SameToUser

\* DELETE of the finished rows.
LEMMA ForgetStep ==
    ASSUME TypeOK, table' = ClearFinishedHistory(table), UNCHANGED transcripts
    PROVE  Lifecycle!Next
<1> DEFINE S == {j \in Jobs : table[j].status \in {"COMPLETED", "CANCELLED"}}
<1>t. table \in Table
  BY DEF TypeOK
<1>1. \A k \in Jobs : IF k \in S
                      THEN /\ Stage(table[k]) \in {"done", "cancelled"}
                           /\ Stage(table'[k]) = "absent" /\ table'[k].result = 0
                      ELSE table'[k] = table[k]
  BY <1>t DEF ClearFinishedHistory, NoRow, Stage
<1> HIDE DEF S
<1>2. Lifecycle!Forget(S)
  <2>1. /\ [k \in Jobs |-> Stage(table'[k])]
             = [k \in Jobs |-> IF k \in S THEN "absent" ELSE Stage(table[k])]
        /\ [k \in Jobs |-> table'[k].result]
             = [k \in Jobs |-> IF k \in S THEN 0 ELSE table[k].result]
    BY <1>1
  <2>2. S \subseteq Jobs
    BY DEF S
  <2> QED
    BY <1>1, <2>1, <2>2 DEF Lifecycle!Forget
<1>3. S \in SUBSET Jobs
  BY DEF S
<1> QED
  BY <1>2, <1>3 DEF Lifecycle!Next, Lifecycle!Forget

\* The statements of a drain.
LEMMA DrainStepLifecycle ==
    ASSUME IInv, CancelInv, NEW d \in Drains, DrainStep(d)
    PROVE  [Lifecycle!Next]_(Lifecycle!vars)
<1>t. TypeOK /\ CompletedHasTranscript
  BY DEF IInv, ResultsSaved
<1>h. /\ drain[d].pc \in InProcessOne \cup {"normalize"} => drain[d].job \in Jobs
      /\ DecisionSound(drain[d])
      /\ drain[d].pc \in (InProcessOne \ {"finally"}) \cup {"normalize"}
            => table[drain[d].job].status # "FAILED"
  BY DEF IInv, JobInHand, DecisionsSound, CancelInv, InHand
<1> USE DEF Runs
<1>1. CASE Normalize(d)
  <2>1. drain[d].seen \in 1..transcripts[drain[d].job]
    BY <1>1, <1>h DEF Normalize, DecisionSound
  <2> QED
    BY <1>1, <1>t, <1>h, <2>1, RelinkStep DEF Normalize
<1>2. CASE MarkProcessing(d)
  <2>1. table[drain[d].job].result = 0
    BY <1>2, <1>h DEF MarkProcessing, DecisionSound, Working, InProcessOne
  <2> QED
    BY <1>2, <1>t, <1>h, <2>1, RestartStep DEF MarkProcessing, InProcessOne
<1>3. CASE ReportProgress(d)
  <2>1. table[drain[d].job].result = 0
    BY <1>3, <1>h DEF ReportProgress, DecisionSound, Working, InProcessOne
  <2> QED
    BY <1>3, <1>t, <1>h, <2>1, RestartStep DEF ReportProgress, InProcessOne
<1>4. CASE CheckPrepared(d)
  <2>1. UNCHANGED transcripts /\ (table' = table \/ table' = SetPreparedInput(table, drain[d].job))
    BY <1>4 DEF CheckPrepared
  <2>2. drain[d].job \in Jobs
    BY <1>4, <1>h DEF CheckPrepared, InProcessOne
  <2> QED
    BY <1>t, <2>1, <2>2, UnseenStep, SameToUser
<1>5. CASE CommitTranscript(d)
  <2>1. \/ UNCHANGED <<table, transcripts>>
        \/ /\ transcripts' = [transcripts EXCEPT ![drain[d].job] = transcripts[drain[d].job] + 1]
           /\ table' = Complete(table, drain[d].job, transcripts[drain[d].job] + 1)
    BY <1>5 DEF CommitTranscript
  <2>2. drain[d].job \in Jobs /\ table[drain[d].job].result = 0
    BY <1>5, <1>h DEF CommitTranscript, DecisionSound, Working, InProcessOne
  <2> QED
    BY <1>t, <2>1, <2>2, SaveStep, SameToUser
<1>6. CASE WriteOutcome(d)
  <2>1. drain[d].pc \in {"write", "catch"} /\ drain[d].job \in Jobs /\ UNCHANGED transcripts
    BY <1>6, <1>h DEF WriteOutcome, InProcessOne
  <2>2. table[drain[d].job].status # "FAILED"
    BY <1>h, <2>1 DEF InProcessOne
  <2>3. drain[d].op \in RowWrites \ {"none"}
    BY <1>t, <1>h, <2>1 DEF TypeOK, DrainState, DecisionSound
  <2>4. CASE drain[d].op = "complete"
    <3>1. drain[d].seen \in 1..transcripts[drain[d].job]
      BY <1>h, <2>1, <2>4 DEF DecisionSound
    <3>2. table' = Complete(table, drain[d].job, drain[d].seen)
      BY <1>6, <2>4 DEF WriteOutcome
    <3> QED
      BY <1>t, <2>1, <2>2, <3>1, <3>2, RelinkStep
  <2>5. CASE drain[d].op = "retry"
    BY <1>6, <1>t, <2>1, <2>5, RestartStep DEF WriteOutcome
  <2>6. CASE drain[d].op = "cancel"
    BY <1>6, <1>t, <2>1, <2>6, CancelStep DEF WriteOutcome
  <2>7. CASE drain[d].op = "fail"
    <3>1. table[drain[d].job].result # 0
              => table[drain[d].job].status \in {"COMPLETED", "CANCELLED"}
      BY <1>h, <2>1 DEF DecisionSound, Kept
    <3>2. table' = UpdateState(table, drain[d].job, "FAILED")
      BY <1>6, <2>7 DEF WriteOutcome
    <3> QED
      BY <1>t, <2>1, <2>2, <3>1, <3>2, FailStep
  <2> QED
    BY <2>3, <2>4, <2>5, <2>6, <2>7 DEF RowWrites
<1>7. CASE UNCHANGED <<table, transcripts>>
  BY <1>7, SameToUser
<1> QED
  BY <1>1, <1>2, <1>3, <1>4, <1>5, <1>6, <1>7
  DEF DrainStep, store, Acquire, TakeNext, NothingQueued, Claim, PublishRuntime, Prepare,
      StartExtraction, ExtractionCompletes, ExtractionFails, LoadModel, NextWindow,
      WindowEnds, Finish, StatementThrows, Finally, CheckLeftOver, StopSelf, Unwind

\* The statements of everyone else.
LEMMA OtherStepLifecycle ==
    ASSUME IInv, CancelInv, [Next]_vars, \A d \in Drains : ~DrainStep(d)
    PROVE  [Lifecycle!Next]_(Lifecycle!vars)
<1>t. TypeOK /\ JobInHand /\ OnlyInserted
  BY DEF IInv, CancelInv
<1>1. CASE TimeoutRequeues
  BY <1>1, <1>t, RestartStep DEF TimeoutRequeues, JobInHand
<1>2. CASE Enqueue
  <2>1. inserted + 1 \in Jobs
    BY <1>2, <1>t, MaxJobsAssumption DEF Enqueue, TypeOK, Jobs
  <2>2. inserted + 1 > inserted
    BY <1>t DEF TypeOK
  <2>3. table[inserted + 1].status = "NONE"
    BY <1>t, <2>1, <2>2 DEF OnlyInserted
  <2> QED
    BY <1>2, <1>t, <2>1, <2>3, SubmitStep DEF Enqueue
<1>3. CASE ClearFinished
  BY <1>3, <1>t, ForgetStep DEF ClearFinished
<1>4. CASE ResumeRecovers \/ ApplicationRecovers
  BY <1>4, <1>t, UnseenStep DEF ResumeRecovers, ApplicationRecovers
<1>5. ASSUME NEW j \in Jobs, Retry(j) PROVE [Lifecycle!Next]_(Lifecycle!vars)
  BY <1>5, <1>t, RestartStep DEF Retry
<1>6. ASSUME NEW c \in Callers, CancelWrites(c) PROVE [Lifecycle!Next]_(Lifecycle!vars)
  BY <1>6, <1>t, CancelStep DEF CancelWrites, JobInHand
<1>7. CASE UNCHANGED <<table, transcripts>>
  BY <1>7, SameToUser
<1>8. ASSUME UNCHANGED vars PROVE UNCHANGED <<table, transcripts>>
  BY <1>8 DEF vars, store
<1> QED
  BY <1>1, <1>2, <1>3, <1>4, <1>5, <1>6, <1>7, <1>8
  DEF Next, store, MainThreadStep, TimeoutStep, ResumeStep, CallerStep, OnStartCommand,
      OnDestroyBegins, OnDestroyEnds, OnTimeout, TimeoutReads, TimeoutFlags, TimeoutStops,
      StartService, OnCancelCommand, TapCancel, PressCancel, NotificationReads, ModelDownloaded, CancelNative, BecomeVisible,
      ResumeChecks, ProcessDeath

\* The initial rows are those of the life cycle.
LEMMA InitLifecycle == Init => Lifecycle!Init
<1> SUFFICES ASSUME Init PROVE Lifecycle!Init
  OBVIOUS
<1>1. \A j \in Jobs : /\ Stage(table[j]) = IF j \in 1..LegacyRows THEN "waiting" ELSE "absent"
                      /\ table[j].result = IF j \in 1..LegacyRows THEN 1 ELSE 0
                      /\ transcripts[j] = IF j \in 1..LegacyRows THEN 1 ELSE 0
  BY QueueAssumption, MaxJobsAssumption DEF Init, Stage, NoRow, Jobs
<1>2. transcripts = [j \in Jobs |-> IF j \in 1..LegacyRows THEN 1 ELSE 0]
  BY QueueAssumption, MaxJobsAssumption DEF Init, Jobs
<1> QED
  BY <1>1, <1>2 DEF Lifecycle!Init

\* The queue implements the life cycle of its jobs: every step of a drain, a
\* stop, a recovery, a screen or a death is one that the life cycle allows for
\* one job, the clearing of the history, or nothing the user can see.
THEOREM RefinesLifecycle == Spec => ImplementsLifecycle
<1>1. IInv /\ CancelInv /\ [Next]_vars => [Lifecycle!Next]_(Lifecycle!vars)
  BY DrainStepLifecycle, OtherStepLifecycle
<1>2. IInv /\ CancelInv /\ [Next]_vars => CancelInv'
  BY DrainStepCancel, OtherStepCancel
<1> QED
  BY <1>1, <1>2, InitLifecycle, InitCancel, Invariance, PTL
  DEF Spec, ImplementsLifecycle, Lifecycle!Spec
=============================================================================
