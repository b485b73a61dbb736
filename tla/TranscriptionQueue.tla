------------------------- MODULE TranscriptionQueue -------------------------
(***************************************************************************)
(* The transcription queue: TranscriptionQueueManager, the life cycle of   *)
(* TranscriptionForegroundService that drains it, the status columns it    *)
(* keeps in Room (module JobStore), and the screens that enqueue, cancel   *)
(* and retry jobs.                                                         *)
(*                                                                         *)
(* Processes: the drain coroutines (one per service instance, the one of a *)
(* destroyed instance may still be unwinding), the main thread handling    *)
(* service messages, the coroutine of onTimeout, the callers of cancel()   *)
(* (a screen and the notification action), the coroutines of onStart and   *)
(* Application.onCreate.  A step is what happens between two points where  *)
(* another process can run: a Room statement, a suspension or a callback.  *)
(* Process death can happen between any two steps.                         *)
(***************************************************************************)
EXTENDS JobStore, Sequences

CONSTANTS
    Drains,             \* identities of drain coroutines
    None,               \* no drain, no caller
    Windows,            \* whisper windows of one recording
    ModelMayBeMissing,  \* whether processOne may find no valid model
    StatementsMayThrow, \* whether a Room statement of processOne may fail
    LegacyRows,         \* jobs 1..LegacyRows were left QUEUED with a result
                        \* by an earlier build (TranscriptionQueueRetryTest)
    MaxMessages,        \* bound on pending service messages
    Budgets             \* the ways the disturbances may be handed out

Disturbances == {"cancel", "retry", "timeout", "death", "clear"}

ASSUME QueueAssumption ==
    /\ None \notin Drains
    /\ Windows \in Nat \ {0}
    /\ ModelMayBeMissing \in BOOLEAN
    /\ StatementsMayThrow \in BOOLEAN
    /\ LegacyRows \in 0..MaxJobs
    /\ MaxMessages \in Nat
    /\ Budgets \subseteq [Disturbances -> Nat]

NoJob == 0

VARIABLES
    table,          \* transcription_jobs
    transcripts,    \* transcripts[j]: transcripts saved for job j so far
    inserted,       \* rows inserted so far
    \* TranscriptionQueueManager
    holder,         \* who holds drainMutex
    currentJob,     \* currentJobId
    userCancelled,
    systemRequeue,
    runtime,        \* job of QueueRuntimeState.Running, NoJob when Idle
    abort,          \* WhisperEngine.isCancelledFlag
    drain,          \* the drain coroutines
    \* TranscriptionForegroundService
    alive,          \* an instance exists
    mine,           \* drainJob of that instance
    messages,       \* onStartCommand (two actions) and onDestroy calls that
                    \* are pending on the main thread
    destroying,     \* main thread is inside onDestroy
    timeout,        \* the coroutine launched by onTimeout
    \* callers
    caller,         \* progress of the two callers of cancel()
    starters,       \* callers about to call BackgroundTranscriptionStarter.start
    resume,         \* the coroutine of MainActivity.onStart
    recovering,     \* Application.onCreate has not recovered the queue yet
    \* observation only
    settled,        \* jobs whose cancellation was carried out and not
                    \* overtaken by a retry, a system stop or a process death
    budget

store    == <<table, transcripts, inserted>>
flags    == <<userCancelled, systemRequeue>>
service  == <<alive, mine, messages, destroying, timeout>>
screens  == <<caller, starters, resume, recovering>>
manager  == <<holder, currentJob, runtime, abort>>
ghosts   == <<settled, budget>>

vars == <<store, flags, service, screens, manager, ghosts, drain>>

InProcessOne == {"claim", "mark", "publish", "prepare", "starting",
                 "extract", "extractLost", "extractBroken", "check", "load",
                 "whisper", "progress", "loop", "commit", "finish", "write",
                 "catch", "finally"}

UnderLock == InProcessOne \cup {"next", "normalize"}

DrainPc == UnderLock \cup {"off", "lock", "fin", "stop"}

RowWrites == {"none", "complete", "retry", "cancel", "fail"}

\* seen is resultTranscriptId of the row read by nextQueued, then the id that
\* execute() returned; ready is preparedInputUri != null in the row read; op
\* is the final row update that processOne has decided on, to be issued inside
\* the try block ("write") or by one of the catch blocks ("catch"); left counts
\* the whisper windows not transcribed yet.
DrainState == [pc : DrainPc, job : Jobs \cup {NoJob}, seen : Nat,
               ready : BOOLEAN, op : RowWrites, left : 0..Windows]

OffDrain == [pc |-> "off", job |-> NoJob, seen |-> 0, ready |-> FALSE,
             op |-> "none", left |-> 0]

Callers == {"screen", "notification"}

CallerState == [pc : {"idle", "read", "native", "write"}, job : Jobs \cup {NoJob}]

IdleCaller == [pc |-> "idle", job |-> NoJob]

\* current is false once a newer start makes stopSelf(startId) void.
TimeoutState == [pc : {"off", "read", "flag", "retry", "stop"},
                 job : Jobs \cup {NoJob}, current : BOOLEAN]

NoTimeout == [pc |-> "off", job |-> NoJob, current |-> FALSE]

TypeOK ==
    /\ table \in Table
    /\ transcripts \in [Jobs -> Nat]
    /\ inserted \in 0..MaxJobs
    /\ holder \in Drains \cup {None}
    /\ currentJob \in Jobs \cup {NoJob}
    /\ userCancelled \in SUBSET Jobs
    /\ systemRequeue \in SUBSET Jobs
    /\ runtime \in Jobs \cup {NoJob}
    /\ abort \in BOOLEAN
    /\ drain \in [Drains -> DrainState]
    /\ alive \in BOOLEAN
    /\ mine \in Drains \cup {None}
    /\ messages \in Seq({"start", "cancel", "destroy"})
    /\ destroying \in BOOLEAN
    /\ timeout \in TimeoutState
    /\ caller \in [Callers -> CallerState]
    /\ starters \in Nat
    /\ resume \in {"off", "recover", "check"}
    /\ recovering \in BOOLEAN
    /\ settled \in SUBSET Jobs
    /\ budget \in [Disturbances -> Nat]

Init ==
    /\ table = [j \in Jobs |-> IF j <= LegacyRows
                               THEN [status |-> "QUEUED", result |-> 1,
                                     prepared |-> TRUE]
                               ELSE NoRow]
    /\ transcripts = [j \in Jobs |-> IF j <= LegacyRows THEN 1 ELSE 0]
    /\ inserted = LegacyRows
    /\ holder = None
    /\ currentJob = NoJob
    /\ userCancelled = {}
    /\ systemRequeue = {}
    /\ runtime = NoJob
    /\ abort = FALSE
    /\ drain = [d \in Drains |-> OffDrain]
    /\ alive = FALSE
    /\ mine = None
    /\ messages = <<>>
    /\ destroying = FALSE
    /\ timeout = NoTimeout
    /\ caller = [c \in Callers |-> IdleCaller]
    /\ starters = 0
    /\ resume = "off"
    /\ recovering = TRUE
    /\ settled = {}
    /\ budget \in Budgets

-----------------------------------------------------------------------------
(* Helpers. *)

Spend(kind) ==
    /\ budget[kind] > 0
    /\ budget' = [budget EXCEPT ![kind] = @ - 1]

Cancelled(j) == j \in userCancelled \cup systemRequeue

\* onDestroy cancelled the scope this drain was launched in: its next
\* suspending call throws CancellationException instead of doing anything.
Killed(d) == d # mine

Runs(d, pc) == drain[d].pc = pc /\ ~Killed(d)

GoTo(d, pc) == drain' = [drain EXCEPT ![d].pc = pc]

WriteNext(d, op) == drain' = [drain EXCEPT ![d].pc = "write", ![d].op = op]

\* Something threw: what the catch block decides to write.
CatchNext(d, op) == drain' = [drain EXCEPT ![d].pc = "catch", ![d].op = op]

\* Faulty: an abort is always taken for a system stop.
AbortOpRequeue(j) == "retry"

\* handleAbort(): the row update it issues.
AbortOp(j) == IF j \in systemRequeue THEN "retry" ELSE "cancel"

\* The decision after execute() and in catch (t: Throwable).
OutcomeOp(j, otherwise) ==
    CASE j \in systemRequeue -> "retry"
      [] j \in userCancelled /\ j \notin systemRequeue -> "cancel"
      [] OTHER -> otherwise

\* inputPreparer.cancelCurrentPreparation().  On the main thread Transformer
\* is cancelled and neither callback ever comes; off the main thread it
\* refuses (runCatching hides that), runs on without its output file and
\* ends in onError.
CancelPreparation(where) ==
    [d \in Drains |->
        IF drain[d].pc = "extract"
        THEN [drain[d] EXCEPT !.pc = IF where = "main" THEN "extractLost"
                                                       ELSE "extractBroken"]
        ELSE drain[d]]

\* Calls that the main thread makes without yielding.
MainThreadFree == ~destroying /\ caller["screen"].pc # "native"

(* One pass of the drain coroutine: runUntilIdle and processOne.           *)

\* drainMutex.withLock
Acquire(d) ==
    /\ Runs(d, "lock")
    /\ holder = None
    /\ holder' = d
    /\ GoTo(d, "next")
    /\ UNCHANGED <<store, flags, service, screens, ghosts,
                   currentJob, runtime, abort>>

\* Faulty: processOne without the test of resultTranscriptId.
TakeNextUnchecked(d) ==
    /\ Runs(d, "next")
    /\ Queued(table) # {}
    /\ LET j == Oldest(Queued(table)) IN
       drain' = [drain EXCEPT ![d] =
                    [pc |-> "claim", job |-> j, seen |-> table[j].result,
                     ready |-> table[j].prepared, op |-> "none",
                     left |-> Windows]]
    /\ UNCHANGED <<store, flags, service, screens, manager, ghosts>>

\* nextQueued() returned a row; processOne looks at its result first.
TakeNext(d) ==
    /\ Runs(d, "next")
    /\ Queued(table) # {}
    /\ LET j == Oldest(Queued(table)) IN
       drain' = [drain EXCEPT ![d] =
                    [pc |-> IF table[j].result # 0 THEN "normalize" ELSE "claim",
                     job |-> j, seen |-> table[j].result,
                     ready |-> table[j].prepared, op |-> "none",
                     left |-> Windows]]
    /\ UNCHANGED <<store, flags, service, screens, manager, ghosts>>

\* nextQueued() returned null: leave the loop, report Idle, unlock.
NothingQueued(d) ==
    /\ Runs(d, "next")
    /\ Queued(table) = {}
    /\ runtime' = NoJob
    /\ holder' = None
    /\ drain' = [drain EXCEPT ![d] = [OffDrain EXCEPT !.pc = "fin"]]
    /\ UNCHANGED <<store, flags, service, screens, ghosts, currentJob, abort>>

\* The job already has its transcript: only the status is put right.
Normalize(d) ==
    /\ Runs(d, "normalize")
    /\ table' = Complete(table, drain[d].job, drain[d].seen)
    /\ GoTo(d, "next")
    /\ UNCHANGED <<transcripts, inserted, flags, service, screens, manager,
                   ghosts>>

\* currentJobId = job.id, the userCancelled test and the choice of a model.
Claim(d) ==
    /\ Runs(d, "claim")
    /\ currentJob' = drain[d].job
    /\ IF drain[d].job \in userCancelled
       THEN WriteNext(d, "cancel")
       ELSE \/ GoTo(d, "mark")
            \/ ModelMayBeMissing /\ WriteNext(d, "fail")
    /\ UNCHANGED <<store, flags, service, screens, ghosts,
                   holder, runtime, abort>>

MarkProcessing(d) ==
    /\ Runs(d, "mark")
    /\ table' = UpdateState(table, drain[d].job, "PROCESSING")
    /\ GoTo(d, "publish")
    /\ UNCHANGED <<transcripts, inserted, flags, service, screens, manager,
                   ghosts>>

\* publishRuntime(): queuedCount() suspends before the state is replaced.
PublishRuntime(d) ==
    /\ Runs(d, "publish")
    /\ runtime' = drain[d].job
    /\ GoTo(d, "prepare")
    /\ UNCHANGED <<store, flags, service, screens, ghosts,
                   holder, currentJob, abort>>

\* prepare() returns at once unless a video has to be extracted first.
Prepare(d) ==
    /\ Runs(d, "prepare")
    /\ LET j == drain[d].job IN
       CASE drain[d].ready \/ j \notin VideoJobs -> GoTo(d, "check")
         [] ~drain[d].ready /\ j \in VideoJobs /\ Cancelled(j) ->
                CatchNext(d, AbortOp(j))
         [] OTHER -> GoTo(d, "starting")
    /\ UNCHANGED <<store, flags, service, screens, manager, ghosts>>

\* extractor.extract() on the main thread; it may refuse for want of storage.
StartExtraction(d) ==
    /\ Runs(d, "starting")
    /\ MainThreadFree
    /\ \/ GoTo(d, "extract")
       \/ CatchNext(d, OutcomeOp(drain[d].job, "fail"))
    /\ UNCHANGED <<store, flags, service, screens, manager, ghosts>>

\* Transformer.Listener.onCompleted with its output file in place.
ExtractionCompletes(d) ==
    /\ Runs(d, "extract")
    /\ MainThreadFree
    /\ GoTo(d, "check")
    /\ UNCHANGED <<store, flags, service, screens, manager, ghosts>>

\* onError, or onCompleted after cancel() has taken the output file away.
ExtractionFails(d) ==
    /\ Runs(d, "extract") \/ Runs(d, "extractBroken")
    /\ MainThreadFree
    /\ CatchNext(d, OutcomeOp(drain[d].job, "fail"))
    /\ UNCHANGED <<store, flags, service, screens, manager, ghosts>>

\* The cancellation test after prepare(), then setPreparedInput if it is news.
CheckPrepared(d) ==
    /\ Runs(d, "check")
    /\ LET j == drain[d].job IN
       IF Cancelled(j)
       THEN WriteNext(d, AbortOp(j)) /\ UNCHANGED table
       ELSE /\ GoTo(d, "load")
            /\ table' = IF drain[d].ready THEN table
                                           ELSE SetPreparedInput(table, j)
    /\ UNCHANGED <<transcripts, inserted, flags, service, screens, manager,
                   ghosts>>

\* execute() up to the window loop: model, PCM, checkpoint.  Any of them may
\* fail (the PCM and the checkpoint are module PcmCheckpoint).
LoadModel(d) ==
    /\ Runs(d, "load")
    /\ LET j == drain[d].job IN
       IF Cancelled(j)
       THEN CatchNext(d, AbortOp(j))
       ELSE \/ GoTo(d, "loop")
            \/ CatchNext(d, OutcomeOp(j, "fail"))
    /\ UNCHANGED <<store, flags, service, screens, manager, ghosts>>

\* Head of the window loop, and the last cancellation test behind it.
NextWindow(d) ==
    /\ Runs(d, "loop")
    /\ LET j == drain[d].job IN
       CASE Cancelled(j) -> CatchNext(d, AbortOp(j)) /\ UNCHANGED abort
         [] ~Cancelled(j) /\ drain[d].left = 0 ->
                GoTo(d, "commit") /\ UNCHANGED abort
         [] OTHER -> GoTo(d, "whisper") /\ abort' = FALSE
    /\ UNCHANGED <<store, flags, service, screens, ghosts,
                   holder, currentJob, runtime>>

\* transcribe() returns.  A raised abort flag makes the window a failure.
WindowEnds(d) ==
    /\ Runs(d, "whisper")
    /\ LET j == drain[d].job IN
       IF Cancelled(j)
       THEN CatchNext(d, AbortOp(j))
       ELSE \/ CatchNext(d, OutcomeOp(j, "fail"))
            \/ /\ ~abort
               /\ \E pc \in {"progress", "loop"} :
                    drain' = [drain EXCEPT ![d].pc = pc, ![d].left = @ - 1]
    /\ UNCHANGED <<store, flags, service, screens, manager, ghosts>>

\* repository.progress(): isCancelled was tested before the statement runs.
ReportProgress(d) ==
    /\ Runs(d, "progress")
    /\ table' = UpdateState(table, drain[d].job, "PROCESSING")
    /\ runtime' = drain[d].job
    /\ GoTo(d, "loop")
    /\ UNCHANGED <<transcripts, inserted, flags, service, screens, ghosts,
                   holder, currentJob, abort>>

\* Faulty: the row is completed outside the transaction of the insert, which
\* is then rolled back.
CommitRowAlone(d) ==
    /\ Runs(d, "commit")
    /\ LET n == transcripts[drain[d].job] + 1 IN
       /\ table' = Complete(table, drain[d].job, n)
       /\ drain' = [drain EXCEPT ![d].pc = "finish", ![d].seen = n]
    /\ UNCHANGED <<transcripts, inserted, flags, service, screens, manager,
                   ghosts>>

\* The transaction that inserts the transcript and completes the row.
CommitTranscript(d) ==
    /\ Runs(d, "commit")
    /\ LET j == drain[d].job
           n == transcripts[j] + 1
       IN
       \/ /\ transcripts' = [transcripts EXCEPT ![j] = n]
          /\ table' = Complete(table, j, n)
          /\ drain' = [drain EXCEPT ![d].pc = "finish", ![d].seen = n]
       \/ /\ CatchNext(d, OutcomeOp(j, "fail"))
          /\ UNCHANGED <<table, transcripts>>
    /\ UNCHANGED <<inserted, flags, service, screens, manager, ghosts>>

\* The three-way decision after execute() has returned.
Finish(d) ==
    /\ Runs(d, "finish")
    /\ WriteNext(d, OutcomeOp(drain[d].job, "complete"))
    /\ UNCHANGED <<store, flags, service, screens, manager, ghosts>>

\* Faulty: the normalisation is inside the try block as well.
StatementThrowsAnywhere(d) ==
    /\ StatementsMayThrow
    /\ \E pc \in {"normalize", "mark", "publish", "check", "progress", "write"} :
           Runs(d, pc)
    /\ CatchNext(d, OutcomeOp(drain[d].job, "fail"))
    /\ UNCHANGED <<store, flags, service, screens, manager, ghosts>>

\* A Room statement inside the try block throws, the final update after the
\* commit included: nothing is written, and catch (t: Throwable) decides anew.
\* A statement that throws in a catch block, in nextQueued() or in the
\* normalisation leaves the coroutine and ends the process (ProcessDeath).
StatementThrows(d) ==
    /\ StatementsMayThrow
    /\ \E pc \in {"mark", "publish", "check", "progress", "write"} : Runs(d, pc)
    /\ CatchNext(d, OutcomeOp(drain[d].job, "fail"))
    /\ UNCHANGED <<store, flags, service, screens, manager, ghosts>>

\* The final row update, from the try block or from a catch block.
WriteOutcome(d) ==
    /\ Runs(d, "write") \/ Runs(d, "catch")
    /\ LET j == drain[d].job IN
       table' = CASE drain[d].op = "complete" -> Complete(table, j, drain[d].seen)
                  [] drain[d].op = "retry"    -> RetryRow(table, j)
                  [] drain[d].op = "cancel"   -> UpdateState(table, j, "CANCELLED")
                  [] OTHER                    -> UpdateState(table, j, "FAILED")
    /\ GoTo(d, "finally")
    /\ UNCHANGED <<transcripts, inserted, flags, service, screens, manager,
                   ghosts>>

\* Faulty: finally clears the flags and leaves currentJobId.
ForgetFlagsOnly(j) ==
    /\ userCancelled' = userCancelled \ {j}
    /\ systemRequeue' = systemRequeue \ {j}
    /\ UNCHANGED currentJob

ForgetCurrent(j) ==
    /\ currentJob' = NoJob
    /\ userCancelled' = userCancelled \ {j}
    /\ systemRequeue' = systemRequeue \ {j}

Finally(d) ==
    /\ Runs(d, "finally")
    /\ ForgetCurrent(drain[d].job)
    /\ drain' = [drain EXCEPT ![d] = [OffDrain EXCEPT !.pc = "next"]]
    /\ UNCHANGED <<store, service, screens, ghosts, holder, runtime, abort>>

\* finally of startDrainIfNeeded: look for work left over ...
CheckLeftOver(d) ==
    /\ Runs(d, "fin")
    /\ GoTo(d, IF Unfinished(table) = {} THEN "stop" ELSE "off")
    /\ UNCHANGED <<store, flags, service, screens, manager, ghosts>>

\* stopSelf(): onDestroy is scheduled unless it already is.
StopService ==
    messages' = IF alive /\ \A i \in DOMAIN messages : messages[i] # "destroy"
                THEN Append(messages, "destroy")
                ELSE messages

\* ... and stop the service when there is none.
StopSelf(d) ==
    /\ Runs(d, "stop")
    /\ StopService
    /\ GoTo(d, "off")
    /\ UNCHANGED <<store, flags, screens, manager, ghosts,
                   alive, mine, destroying, timeout>>

\* A drain whose scope was cancelled: the exception leaves through finally of
\* processOne (its own row updates throw as well), the mutex and the launch.
Unwind(d) ==
    /\ Killed(d)
    /\ drain[d].pc # "off"
    /\ IF drain[d].pc \in InProcessOne
       THEN ForgetCurrent(drain[d].job)
       ELSE UNCHANGED <<currentJob, flags>>
    /\ holder' = IF drain[d].pc \in UnderLock THEN None ELSE holder
    /\ drain' = [drain EXCEPT ![d] = OffDrain]
    /\ UNCHANGED <<store, service, screens, ghosts, runtime, abort>>

DrainStep(d) ==
    \/ Acquire(d) \/ TakeNext(d) \/ NothingQueued(d) \/ Normalize(d)
    \/ Claim(d) \/ MarkProcessing(d) \/ PublishRuntime(d) \/ Prepare(d)
    \/ StartExtraction(d) \/ ExtractionCompletes(d) \/ ExtractionFails(d)
    \/ CheckPrepared(d) \/ LoadModel(d) \/ NextWindow(d) \/ WindowEnds(d)
    \/ ReportProgress(d) \/ CommitTranscript(d) \/ Finish(d)
    \/ StatementThrows(d) \/ WriteOutcome(d) \/ Finally(d) \/ CheckLeftOver(d) \/ StopSelf(d)
    \/ Unwind(d)
-----------------------------------------------------------------------------
(* The foreground service.                                                 *)

Free == {d \in Drains : drain[d].pc = "off"}

\* onStartCommand(ACTION_DRAIN_QUEUE), after onCreate when there is no
\* instance: startDrainIfNeeded launches a drain unless drainJob is active.
OnStartCommand ==
    /\ MainThreadFree
    /\ messages # <<>> /\ Head(messages) = "start"
    /\ messages' = Tail(messages)
    /\ alive' = TRUE
    /\ IF mine # None /\ mine \notin Free
       THEN UNCHANGED <<drain, mine>>
       ELSE \E d \in Free :
                /\ mine' = d
                /\ drain' = [drain EXCEPT ![d] = [OffDrain EXCEPT !.pc = "lock"]]
    /\ UNCHANGED <<store, flags, screens, manager, ghosts, destroying, timeout>>

\* onStartCommand(ACTION_CANCEL_CURRENT): launches the coroutine of the
\* notification's caller and no drain, also in an instance that was created to
\* receive it.
OnCancelCommand ==
    /\ MainThreadFree
    /\ messages # <<>> /\ Head(messages) = "cancel"
    /\ messages' = Tail(messages)
    /\ alive' = TRUE
    /\ caller' = [caller EXCEPT !["notification"] = [pc |-> "read", job |-> NoJob]]
    /\ UNCHANGED <<store, flags, manager, ghosts, drain, mine, destroying,
                   timeout, starters, resume, recovering>>

\* onDestroy: cancelNativeWorkForServiceDestroy if the runtime is Running ...
OnDestroyBegins ==
    /\ MainThreadFree
    /\ messages # <<>> /\ Head(messages) = "destroy"
    /\ destroying' = TRUE
    /\ IF runtime # NoJob /\ currentJob # NoJob
       THEN /\ systemRequeue' = systemRequeue \cup {currentJob}
            /\ drain' = CancelPreparation("main")
            /\ abort' = TRUE
            /\ settled' = settled \ {currentJob}
       ELSE UNCHANGED <<systemRequeue, drain, abort, settled>>
    /\ UNCHANGED <<store, screens, userCancelled, holder, currentJob, runtime,
                   alive, mine, messages, timeout, budget>>

\* ... then scope.cancel(): the drain, the timeout coroutine and a pending
\* notification cancel of this instance are cancelled.
OnDestroyEnds ==
    /\ destroying
    /\ destroying' = FALSE
    /\ messages' = Tail(messages)
    /\ alive' = FALSE
    /\ mine' = None
    /\ timeout' = NoTimeout
    /\ caller' = [caller EXCEPT !["notification"] = IdleCaller]
    /\ settled' = settled \ {drain[d].job : d \in Drains}
    /\ UNCHANGED <<store, flags, manager, drain, starters, resume, recovering,
                   budget>>

\* onTimeout launches a coroutine that runs requeueCurrentForSystemStop ...
OnTimeout ==
    /\ MainThreadFree
    /\ alive
    /\ timeout.pc = "off"
    /\ Spend("timeout")
    /\ timeout' = [pc |-> "read", job |-> NoJob, current |-> TRUE]
    /\ UNCHANGED <<store, flags, screens, manager, drain, settled,
                   alive, mine, messages, destroying>>

\* Faulty: requeueCurrentForSystemStop without the null test.
TimeoutReadsAnything ==
    /\ timeout.pc = "read"
    /\ timeout' = [timeout EXCEPT !.job = currentJob, !.pc = "flag"]
    /\ UNCHANGED <<store, flags, screens, manager, ghosts, drain,
                   alive, mine, messages, destroying>>

TimeoutReads ==
    /\ timeout.pc = "read"
    /\ timeout' = [timeout EXCEPT !.job = currentJob,
                       !.pc = IF currentJob = NoJob THEN "stop" ELSE "flag"]
    /\ UNCHANGED <<store, flags, screens, manager, ghosts, drain,
                   alive, mine, messages, destroying>>

TimeoutFlags ==
    /\ timeout.pc = "flag"
    /\ systemRequeue' = systemRequeue \cup {timeout.job}
    /\ drain' = CancelPreparation("worker")
    /\ abort' = TRUE
    /\ settled' = settled \ {timeout.job}
    /\ timeout' = [timeout EXCEPT !.pc = "retry"]
    /\ UNCHANGED <<store, screens, userCancelled, holder, currentJob, runtime,
                   alive, mine, messages, destroying, budget>>

TimeoutRequeues ==
    /\ timeout.pc = "retry"
    /\ table' = RetryRow(table, timeout.job)
    /\ settled' = settled \ {timeout.job}
    /\ timeout' = [timeout EXCEPT !.pc = "stop"]
    /\ UNCHANGED <<transcripts, inserted, flags, screens, manager, drain,
                   alive, mine, messages, destroying, budget>>

\* ... and then stopSelf(startId), void when a newer start was delivered.
TimeoutStops ==
    /\ timeout.pc = "stop"
    /\ IF timeout.current THEN StopService ELSE UNCHANGED messages
    /\ timeout' = NoTimeout
    /\ UNCHANGED <<store, flags, screens, manager, ghosts, drain,
                   alive, mine, destroying>>

MainThreadStep ==
    OnStartCommand \/ OnCancelCommand \/ OnDestroyBegins \/ OnDestroyEnds

TimeoutStep ==
    TimeoutReads \/ TimeoutFlags \/ TimeoutRequeues \/ TimeoutStops

-----------------------------------------------------------------------------
(* Screens, notification action, application start.                        *)

\* EnqueueTranscriptionUseCase and ShareImportCoordinator: insert the row;
\* the service is started only if a model is installed.
Enqueue ==
    /\ inserted < MaxJobs
    /\ inserted' = inserted + 1
    /\ table' = Insert(table, inserted + 1)
    /\ \/ starters' = starters + 1
       \/ ModelMayBeMissing /\ UNCHANGED starters
    /\ UNCHANGED <<transcripts, flags, service, manager, ghosts, drain,
                   caller, resume, recovering>>

\* QueueViewModel.retry, offered on a FAILED row.
Retry(j) ==
    /\ table[j].status = "FAILED"
    /\ Spend("retry")
    /\ userCancelled' = userCancelled \ {j}
    /\ systemRequeue' = systemRequeue \ {j}
    /\ table' = RetryRow(table, j)
    /\ starters' = starters + 1
    /\ settled' = settled \ {j}
    /\ UNCHANGED <<transcripts, inserted, service, manager, drain,
                   caller, resume, recovering>>

Commands == {i \in DOMAIN messages : messages[i] # "destroy"}

\* BackgroundTranscriptionStarter.start
StartService ==
    /\ starters > 0
    /\ Cardinality(Commands) < MaxMessages
    /\ starters' = starters - 1
    /\ messages' = Append(messages, "start")
    /\ timeout' = [timeout EXCEPT !.current = FALSE]
    /\ UNCHANGED <<store, flags, manager, ghosts, drain,
                   caller, resume, recovering, alive, mine, destroying>>

\* ModelManagerViewModel: a finished download starts the queue.
ModelDownloaded ==
    /\ ModelMayBeMissing
    /\ Unfinished(table) # {}
    /\ starters = 0
    /\ starters' = 1
    /\ UNCHANGED <<store, flags, service, manager, ghosts, drain,
                   caller, resume, recovering>>

\* QueueViewModel.clearFinished
ClearFinished ==
    /\ Spend("clear")
    /\ table' = ClearFinishedHistory(table)
    /\ UNCHANGED <<transcripts, inserted, flags, service, screens, manager,
                   drain, settled>>

\* The Cancel action of the notification, which is there as long as the
\* service is.  Like every start it makes an earlier stopSelf(startId) void.
TapCancel ==
    /\ alive
    /\ caller["notification"].pc = "idle"
    /\ Cardinality(Commands) < MaxMessages
    /\ Spend("cancel")
    /\ messages' = Append(messages, "cancel")
    /\ timeout' = [timeout EXCEPT !.current = FALSE]
    /\ UNCHANGED <<store, flags, screens, manager, drain, settled,
                   alive, mine, destroying>>

\* cancel(j) up to the comparison with currentJobId.
CancelBegins(c, j) ==
    /\ userCancelled' = userCancelled \cup {j}
    /\ caller' = [caller EXCEPT ![c] =
                     [pc |-> IF currentJob = j THEN "native" ELSE "write",
                      job |-> j]]

\* The queue screen shows a Cancel button on unfinished rows.
PressCancel(j) ==
    /\ caller["screen"].pc = "idle"
    /\ ~destroying
    /\ j \in Unfinished(table)
    /\ Spend("cancel")
    /\ CancelBegins("screen", j)
    /\ UNCHANGED <<store, systemRequeue, service, manager, drain, settled,
                   starters, resume, recovering>>

\* The notification's caller takes the job of the runtime, if there is one.
NotificationReads ==
    /\ caller["notification"].pc = "read"
    /\ IF runtime = NoJob
       THEN /\ caller' = [caller EXCEPT !["notification"] = IdleCaller]
            /\ UNCHANGED userCancelled
       ELSE CancelBegins("notification", runtime)
    /\ UNCHANGED <<store, systemRequeue, service, manager, drain, ghosts,
                   starters, resume, recovering>>

CancelNative(c) ==
    /\ caller[c].pc = "native"
    /\ drain' = CancelPreparation(IF c = "screen" THEN "main" ELSE "worker")
    /\ abort' = TRUE
    /\ caller' = [caller EXCEPT ![c].pc = "write"]
    /\ UNCHANGED <<store, flags, service, ghosts, holder, currentJob, runtime,
                   starters, resume, recovering>>

CancelWrites(c) ==
    /\ caller[c].pc = "write"
    /\ LET j == caller[c].job IN
       /\ table' = UpdateState(table, j, "CANCELLED")
       /\ settled' = IF j \in systemRequeue THEN settled ELSE settled \cup {j}
    /\ caller' = [caller EXCEPT ![c] = IdleCaller]
    /\ UNCHANGED <<transcripts, inserted, flags, service, manager, drain,
                   starters, resume, recovering, budget>>

\* MainActivity.onStart: resumeIfNeededFromVisibleUi
BecomeVisible ==
    /\ resume = "off"
    /\ starters < MaxMessages
    /\ resume' = "recover"
    /\ UNCHANGED <<store, flags, service, manager, ghosts, drain,
                   caller, starters, recovering>>

ResumeRecovers ==
    /\ resume = "recover"
    /\ table' = RecoverInterrupted(table)
    /\ resume' = "check"
    /\ UNCHANGED <<transcripts, inserted, flags, service, manager, ghosts,
                   drain, caller, starters, recovering>>

ResumeChecks ==
    /\ resume = "check"
    /\ resume' = "off"
    /\ starters' = IF Unfinished(table) # {} THEN starters + 1 ELSE starters
    /\ UNCHANGED <<store, flags, service, manager, ghosts, drain,
                   caller, recovering>>

\* Application.onCreate
ApplicationRecovers ==
    /\ recovering
    /\ recovering' = FALSE
    /\ table' = RecoverInterrupted(table)
    /\ UNCHANGED <<transcripts, inserted, flags, service, manager, ghosts,
                   drain, caller, starters, resume>>

CallerStep(c) == CancelNative(c) \/ CancelWrites(c)

ResumeStep == ResumeRecovers \/ ResumeChecks

\* The process dies and a new one is started later: only Room survives.
ProcessDeath ==
    /\ Spend("death")
    /\ holder' = None
    /\ currentJob' = NoJob
    /\ userCancelled' = {}
    /\ systemRequeue' = {}
    /\ runtime' = NoJob
    /\ abort' = FALSE
    /\ drain' = [d \in Drains |-> OffDrain]
    /\ alive' = FALSE
    /\ mine' = None
    /\ messages' = <<>>
    /\ destroying' = FALSE
    /\ timeout' = NoTimeout
    /\ caller' = [c \in Callers |-> IdleCaller]
    /\ starters' = 0
    /\ resume' = "off"
    /\ recovering' = TRUE
    /\ settled' = settled \ {drain[d].job : d \in Drains}
    /\ UNCHANGED store

Next ==
    \/ \E d \in Drains : DrainStep(d)
    \/ MainThreadStep
    \/ TimeoutStep
    \/ StartService \/ ResumeStep \/ ApplicationRecovers
    \/ \E c \in Callers : CallerStep(c)
    \/ TapCancel \/ NotificationReads
    \/ \E j \in Jobs : PressCancel(j) \/ Retry(j)
    \/ OnTimeout \/ Enqueue \/ ModelDownloaded \/ ClearFinished
    \/ BecomeVisible \/ ProcessDeath

Spec == Init /\ [][Next]_vars

\* Coroutines that can run do run, the main thread handles its messages, and
\* native calls and extractions end.  Nobody has to touch the application.
Fairness ==
    /\ \A d \in Drains : WF_vars(DrainStep(d))
    /\ WF_vars(MainThreadStep)
    /\ WF_vars(TimeoutStep)
    /\ WF_vars(StartService)
    /\ WF_vars(ResumeStep)
    /\ WF_vars(ApplicationRecovers)
    /\ \A c \in Callers : WF_vars(CallerStep(c))
    /\ WF_vars(NotificationReads)

FairSpec == Spec /\ Fairness

\* The user keeps coming back to the application.
ReopeningSpec == FairSpec /\ WF_vars(BecomeVisible)
-----------------------------------------------------------------------------
(* What must be true.                                                      *)

Held(j) == \E d \in Drains : drain[d].job = j

\* drainMutex admits one drain, also while the drain of a destroyed service
\* is still unwinding, and currentJobId, which cancel(), the timeout and
\* onDestroy read without the mutex, always names the job of that drain.
CurrentJobIsHeld ==
    /\ \A d \in Drains : drain[d].pc \in UnderLock <=> holder = d
    /\ currentJob # NoJob => /\ holder # None
                             /\ currentJob = drain[holder].job

\* A COMPLETED row names a transcript that was saved for this job, whichever
\* of the transaction, the final update and the normalisation wrote it.
CompletedHasTranscript ==
    \A j \in Jobs :
        table[j].status = "COMPLETED" => table[j].result \in 1..transcripts[j]

\* A row that points at a transcript fails only by the hand of the drain that
\* has just committed that transcript, when the final complete() throws: no
\* other failure follows a commit, of this run or of an earlier one.
OnlyTheCommitterFails ==
    [][\A j \in Jobs :
        (table[j].result # 0 /\ table[j].status # "FAILED"
                             /\ table'[j].status = "FAILED")
            => \E d \in Drains : /\ drain[d].job = j
                                 /\ drain[d].left = 0
                                 /\ drain[d].seen = table[j].result]_vars

\* A cancel() that was carried out stays carried out once no drain has the
\* job in hand, unless the user retried it or a system stop or the death of
\* the process hit the job in between.
CancelSticks ==
    \A j \in settled :
        ~Held(j) => table[j].status \notin {"QUEUED", "PROCESSING"}

\* No transcript is saved for a job whose row already has one: the commit, the
\* test at the head of processOne and the mutex exclude a second run.
NoSecondResult ==
    [][\A j \in Jobs : transcripts'[j] > transcripts[j] => table[j].result = 0]_vars

\* "if killed between save and complete, recovery re-ran the job and
\* duplicated transcript records": one job, one transcript
\* (docs/IMPLEMENTATION_PROGRESS.md, P1-1).
OneTranscriptPerJob == \A j \in Jobs : transcripts[j] <= 1

\* "Reliable queue lifecycle": a queued job is eventually worked off.
QueuedJobsAreServed ==
    \A j \in Jobs :
        table[j].status = "QUEUED" ~> table[j].status \notin {"QUEUED", "PROCESSING"}

\* The foreground service does not outlive the work.  False: nobody stops the
\* service when the unfinished row that its drain left behind is cancelled, or
\* when a late ACTION_CANCEL_CURRENT has created it.
IdleServiceStops ==
    (alive /\ Unfinished(table) = {}) ~> (~alive \/ Unfinished(table) # {})

-----------------------------------------------------------------------------
(* The queue as an implementation of JobLifecycle.                         *)

Stage(row) ==
    CASE row.status = "NONE"                    -> "absent"
      [] row.status \in {"QUEUED", "PROCESSING"} -> "waiting"
      [] row.status = "COMPLETED"               -> "done"
      [] row.status = "FAILED"                  -> "failed"
      [] row.status = "CANCELLED"               -> "cancelled"

Lifecycle == INSTANCE JobLifecycle WITH
    Jobs      <- Jobs,
    Inherited <- 1..LegacyRows,
    stage     <- [j \in Jobs |-> Stage(table[j])],
    result    <- [j \in Jobs |-> table[j].result],
    saved     <- transcripts

\* Whatever drains, stops, cancels and deaths do to the rows, each of their
\* steps is one that the life cycle of a job allows, or none at all: no row is
\* done without a transcript, fails while it waits with one, or is forgotten
\* while it waits.
ImplementsLifecycle == Lifecycle!Spec
=============================================================================
