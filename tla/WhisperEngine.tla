---------------------------- MODULE WhisperEngine ----------------------------
(***************************************************************************)
(* WhisperEngine.kt under its users: the drain that transcribes the        *)
(* windows of one job after another, cancel() of the queue manager, the    *)
(* destruction of the service, onTrimMemory, and another owner of the      *)
(* lease of HeavyProcessingArbiter.  The native call is that of            *)
(* NativeCall, which whisper.cpp implements (WhisperDecode).               *)
(*                                                                         *)
(* loadModel() and release() hold the engine's mutex from beginning to end *)
(* and are one step each, taken while transcribe() does not hold it.       *)
(***************************************************************************)
EXTENDS Integers, FiniteSets

CONSTANTS
    Jobs,           \* 1..n, claimed in this order
    ModelOf,        \* the model each job asks for
    Windows,        \* windows per job
    MaxLoads,       \* bound on the contexts ever created
    Length,         \* audio in a window, in chunks
    Budget          \* how often each disturbance may happen

ASSUME JobsAssumption ==
    /\ IsFiniteSet(Jobs) /\ Jobs \subseteq Nat \ {0}
    /\ 0 \notin {ModelOf[j] : j \in Jobs}
    /\ Windows \in Nat /\ MaxLoads \in Nat /\ Length \in Nat

ASSUME BudgetAssumption ==
    Budget \in [{"cancel", "destroy", "trim", "other"} -> Nat]

VARIABLES
    row,                            \* what has become of each job
    pc, job, win, answer,           \* the drain, and what transcribe() returned
    current, running, dead,         \* currentJobId, runtime, its scope is cancelled
    cancelled,                      \* userCancelled and systemRequeue
    flag,                           \* isCancelledFlag
    context, path,                  \* contextPtr, currentLoadedModelPath
    alive, loads,                   \* native contexts not freed, and made so far
    lease,                          \* who has the lease of the arbiter
    canceller,                      \* a job whose cancel() has still to call the engine
    trim,                           \* onTrimMemory: "off", or what it is about to do
    at, end, pos, heard, late, code,\* the native call
    stray,                          \* (history) a flag was raised for a job that is over
    trimmed,                        \* (history) a release that was decided before the job
    reports,                        \* (history) reports since cancel() came back
    spent

drainVars == <<row, pc, job, win, answer, current, running, dead>>
modelVars == <<context, path, alive, loads>>
otherVars == <<lease, canceller, trim, spent>>
nativeVars == <<at, end, pos, heard, late, code>>
history == <<stray, trimmed, reports>>
vars == <<drainVars, cancelled, flag, modelVars, otherVars, nativeVars, history>>

None == 0

\* Faulty: the listener asks the engine's flag alone.
AskedFlagOnly == flag

\* The listener's isCancelled(): the flag, or shouldCancel of the job.
Asked == flag \/ job \in cancelled

Native == INSTANCE NativeCall WITH
    Ends <- {Length}, Chunk <- 1, DeltaMin <- 0, MaxNew <- 0, stop <- Asked

Init ==
    /\ row = [j \in Jobs |-> "queued"]
    /\ pc = "off" /\ job = None /\ win = 0 /\ answer = "none"
    /\ current = None /\ running = FALSE /\ dead = FALSE
    /\ cancelled = {}
    /\ flag = FALSE
    /\ context = 0 /\ path = None /\ alive = {} /\ loads = 0
    /\ lease = "free" /\ canceller = None /\ trim = "off"
    /\ at = "over" /\ code = "none" /\ end = 0 /\ pos = 0 /\ heard = 0
    /\ late = FALSE
    /\ stray = FALSE /\ trimmed = FALSE /\ reports = 0
    /\ spent = [b \in DOMAIN Budget |-> 0]

Spend(b) ==
    /\ spent[b] < Budget[b]
    /\ spent' = [spent EXCEPT ![b] = @ + 1]

\* transcribe() holds the engine's mutex.
Transcribing == pc \in {"reset", "lease", "native"}

Queued == {j \in Jobs : row[j] = "queued"}
-----------------------------------------------------------------------------
(* The drain.                                                              *)

Goto(p) == pc' = p /\ UNCHANGED <<row, job, win, answer, current, running, dead>>

EngineIdle == UNCHANGED <<modelVars, nativeVars, lease>>

Claim ==
    /\ pc = "off"
    /\ \E j \in Queued :
         /\ \A k \in Queued : j <= k
         /\ current' = j /\ job' = j
    /\ pc' = "claimed" /\ win' = 1 /\ answer' = "none"
    /\ reports' = 0
    /\ EngineIdle
    /\ UNCHANGED <<row, running, dead, cancelled, flag, canceller, trim,
                   spent, stray, trimmed>>

\* processOne has marked the row and publishes the runtime state.
Publish ==
    /\ pc = "claimed"
    /\ ~dead
    /\ pc' = "load"
    /\ running' = TRUE
    /\ UNCHANGED <<row, job, win, answer, current, dead, cancelled, flag,
                   modelVars, otherVars, nativeVars, history>>

\* Faulty: any loaded model will do.
LoadedAny(m) == context # 0

Loaded(m) == context # 0 /\ path = m

Release == alive' = alive \ {context} /\ context' = 0 /\ path' = None

\* releaseInternal() comes before initContext(), which may return 0.
LoadModel ==
    /\ pc = "load"
    /\ ~dead
    /\ UNCHANGED <<cancelled, flag, otherVars, nativeVars, history>>
    /\ \/ /\ Loaded(ModelOf[job])
          /\ Goto("window") /\ UNCHANGED modelVars
       \/ /\ ~Loaded(ModelOf[job])
          /\ loads < MaxLoads
          /\ context' = loads + 1 /\ loads' = loads + 1
          /\ alive' = (alive \ {context}) \cup {loads + 1}
          /\ path' = ModelOf[job]
          /\ Goto("window")
       \/ /\ ~Loaded(ModelOf[job])
          /\ Release /\ UNCHANGED loads
          /\ pc' = "over" /\ answer' = "failed"
          /\ UNCHANGED <<row, job, win, current, running, dead>>

\* The head of the gateway's window loop; after the last window it commits.
NextWindow ==
    /\ pc = "window"
    /\ ~dead
    /\ \/ job \in cancelled /\ pc' = "over" /\ answer' = "cancelled"
       \/ /\ job \notin cancelled
          /\ IF win > Windows
             THEN pc' = "over" /\ answer' = "done"
             ELSE pc' = "enter" /\ UNCHANGED answer
    /\ EngineIdle
    /\ UNCHANGED <<row, job, win, current, running, dead, cancelled, flag,
                   canceller, trim, spent, history>>

Answer(a) ==
    /\ pc' = "answered" /\ answer' = a
    /\ UNCHANGED <<row, job, win, current, running, dead>>

\* transcribe() has the mutex: its tests before the flag is lowered.
Enter ==
    /\ pc = "enter"
    /\ ~dead
    /\ IF context = 0 THEN Answer("noModel")
       ELSE IF job \in cancelled THEN Answer("aborted")
       ELSE Goto("reset")
    /\ EngineIdle
    /\ UNCHANGED <<cancelled, flag, canceller, trim, spent, history>>

\* Faulty: the flag stays as the last cancel has left it.
ResetNothing == UNCHANGED flag

ResetFlag == flag' = FALSE

LowerFlag ==
    /\ pc = "reset"
    /\ Goto("lease")
    /\ ResetFlag
    /\ EngineIdle
    /\ UNCHANGED <<cancelled, canceller, trim, spent, history>>

TakeLease ==
    /\ pc = "lease"
    /\ ~dead
    /\ lease = "free"
    /\ lease' = "whisper"
    /\ UNCHANGED <<cancelled, flag, modelVars, canceller, trim, spent, history>>
    /\ Goto("native")
    /\ Native!Begin(Length)

NativeReports ==
    /\ pc = "native"
    /\ pos < end
    /\ UNCHANGED <<drainVars, cancelled, flag, modelVars, otherVars,
                   stray, trimmed>>
    /\ Native!Report
    /\ pos' = pos + 1
    /\ reports' = IF job \in cancelled /\ canceller = None
                  THEN reports + 1 ELSE reports

NativeReturns ==
    /\ pc = "native"
    /\ UNCHANGED <<drainVars, cancelled, flag, modelVars, otherVars, history>>
    /\ \E c \in {"ok", "failed"} : Native!Return(c)

\* Faulty: the lease is kept when the call failed.
KeepFailedLease == lease' = IF code = "failed" THEN lease ELSE "free"

GiveLease == lease' = "free"

\* The lease and the mutex are given back with the result.
AfterNative ==
    /\ pc = "native"
    /\ at = "over"
    /\ GiveLease
    /\ Answer(IF Asked THEN "aborted"
              ELSE IF code = "failed" THEN "failed" ELSE "ok")
    /\ UNCHANGED <<cancelled, flag, modelVars, nativeVars, canceller, trim,
                   spent, history>>

\* The gateway asks isCancelled() before it looks at the result.
UseAnswer ==
    /\ pc = "answered"
    /\ ~dead
    /\ IF answer = "ok" /\ job \notin cancelled
       THEN /\ pc' = "window" /\ win' = win + 1 /\ UNCHANGED answer
       ELSE /\ pc' = "over" /\ UNCHANGED win
            /\ answer' = IF job \in cancelled THEN "cancelled" ELSE answer
    /\ EngineIdle
    /\ UNCHANGED <<row, job, current, running, dead, cancelled, flag,
                   canceller, trim, spent, history>>

\* Faulty: currentJobId is left as it is.
ForgetFlags ==
    /\ pc' = "off" /\ job' = None /\ win' = 0 /\ answer' = "none"
    /\ cancelled' = cancelled \ {job}
    /\ UNCHANGED current

\* The finally block of processOne.
Forget ==
    /\ pc' = "off" /\ job' = None /\ win' = 0 /\ answer' = "none"
    /\ cancelled' = cancelled \ {job}
    /\ current' = None

\* The row is written and finally forgets the job; runtime stays Running.
JobOver ==
    /\ pc = "over"
    /\ ~dead
    /\ row' = [row EXCEPT ![job] = answer]
    /\ Forget
    /\ EngineIdle
    /\ UNCHANGED <<running, dead, flag, canceller, trim, spent, history>>

QueueIdle ==
    /\ pc = "off"
    /\ running
    /\ Queued = {}
    /\ running' = FALSE
    /\ EngineIdle
    /\ UNCHANGED <<row, pc, job, win, answer, current, dead, cancelled, flag,
                   canceller, trim, spent, history>>

\* A coroutine whose scope is cancelled leaves at any suspension point; its
\* row is found again by the next recovery.  Native code runs on.
LeaveDead ==
    /\ dead
    /\ pc \in {"claimed", "load", "window", "enter", "lease", "answered",
              "over"}
    /\ Forget
    /\ dead' = FALSE
    /\ EngineIdle
    /\ UNCHANGED <<row, running, flag, canceller, trim, spent, history>>

DrainStep ==
    \/ Claim \/ Publish \/ LoadModel \/ NextWindow \/ Enter \/ LowerFlag
    \/ TakeLease \/ NativeReports \/ NativeReturns \/ AfterNative
    \/ UseAnswer \/ JobOver \/ QueueIdle \/ LeaveDead
-----------------------------------------------------------------------------
(* Everybody else.                                                         *)

\* cancel(): the job is noted, and the engine called only for the current one.
CancelBegins(j) ==
    /\ canceller = None
    /\ row[j] = "queued"
    /\ Spend("cancel")
    /\ cancelled' = cancelled \cup {j}
    /\ canceller' = IF current = j THEN j ELSE None
    /\ row' = IF current = j THEN row ELSE [row EXCEPT ![j] = "cancelled"]
    /\ UNCHANGED <<pc, job, win, answer, current, running, dead, flag,
                   modelVars, nativeVars, lease, trim, history>>

\* cancelCurrent() raises the flag, for whichever job is there by now.
CancelNative ==
    /\ canceller # None
    /\ canceller' = None
    /\ flag' = TRUE
    /\ stray' = (stray \/ canceller \notin cancelled)
    /\ row' = [row EXCEPT ![canceller] = "cancelled"]
    /\ UNCHANGED <<pc, job, win, answer, current, running, dead, cancelled,
                   modelVars, nativeVars, lease, trim, spent, trimmed, reports>>

\* onDestroy: cancelNativeWorkForServiceDestroy(), then scope.cancel().
DestroyService ==
    /\ current # None
    /\ ~dead
    /\ Spend("destroy")
    /\ dead' = TRUE
    /\ cancelled' = cancelled \cup {current}
    /\ flag' = TRUE
    /\ UNCHANGED <<row, pc, job, win, answer, current, running, modelVars,
                   nativeVars, lease, canceller, trim, history>>

\* Faulty: memory is freed whatever is going on.
TrimsAnyway == TRUE

MayTrim == ~running

\* onTrimMemory looks at isProcessing(); (history) "early" if no job had
\* been published yet when it did.
TrimLooks ==
    /\ trim = "off"
    /\ Spend("trim")
    /\ MayTrim
    /\ trim' = IF running THEN "free" ELSE "early"
    /\ UNCHANGED <<drainVars, cancelled, flag, modelVars, nativeVars, lease,
                   canceller, history>>

TrimReleases ==
    /\ trim # "off"
    /\ ~Transcribing
    /\ trim' = "off"
    /\ trimmed' = (trimmed \/ (trim = "early" /\ current # None))
    /\ Release
    /\ UNCHANGED <<drainVars, cancelled, flag, loads, nativeVars, lease,
                   canceller, spent, stray, reports>>

\* Diarization, an export or a restore takes the lease and gives it back.
OtherTakesLease ==
    /\ lease = "free"
    /\ Spend("other")
    /\ lease' = "other"
    /\ UNCHANGED <<drainVars, cancelled, flag, modelVars, nativeVars,
                   canceller, trim, history>>

OtherGivesLease ==
    /\ lease = "other"
    /\ lease' = "free"
    /\ UNCHANGED <<drainVars, cancelled, flag, modelVars, nativeVars,
                   canceller, trim, spent, history>>

Next ==
    \/ DrainStep
    \/ \E j \in Jobs : CancelBegins(j)
    \/ CancelNative \/ DestroyService
    \/ TrimLooks \/ TrimReleases
    \/ OtherTakesLease \/ OtherGivesLease

Spec == Init /\ [][Next]_vars

\* The drain goes on, cancel() is carried through, and whoever has the lease
\* gives it back.
FairSpec ==
    /\ Spec
    /\ WF_vars(DrainStep) /\ WF_vars(CancelNative) /\ WF_vars(OtherGivesLease)
-----------------------------------------------------------------------------
(* What must be true.                                                      *)

TypeOK ==
    /\ row \in [Jobs -> {"queued", "done", "failed", "noModel", "aborted",
                         "cancelled"}]
    /\ pc \in {"off", "claimed", "load", "window", "enter", "reset", "lease",
               "native", "answered", "over"}
    /\ job \in Jobs \cup {None} /\ current \in {job, None}
    /\ win \in 0..Windows + 1
    /\ cancelled \subseteq Jobs
    /\ lease \in {"free", "whisper", "other"}
    /\ canceller \in Jobs \cup {None}
    /\ trim \in {"off", "early", "free"}
    /\ at \in {"running", "over"} /\ pos \in 0..Length
    /\ running \in BOOLEAN /\ dead \in BOOLEAN /\ flag \in BOOLEAN
    /\ late \in BOOLEAN /\ stray \in BOOLEAN /\ trimmed \in BOOLEAN

\* A window is decoded with the model its job asked for, by a context that
\* nobody frees meanwhile, and no context is forgotten without being freed.
ContextIsRight ==
    /\ alive = {context} \ {0}
    /\ at = "running" => context # 0 /\ path = ModelOf[job]

\* "Transcription was cancelled" is answered for a job that was cancelled,
\* not for what a cancel of an earlier job has left behind; the one exception
\* is a cancel() that calls the engine after its job is over.
AbortHasCause ==
    answer = "aborted" => job \in cancelled \/ stray

\* "Whisper cancellation could be lost before inference" (AUDIT_FINDINGS.md,
\* OT-020): once cancel() has called the engine the window in hand reports
\* at most once more.
CancelStopsReports == reports <= 1

\* A job that has loaded its model fails for want of a model only if memory
\* was trimmed on a look at the queue from before the job.
ModelLostOnlyToEarlyTrim ==
    (\E j \in Jobs : row[j] = "noModel") \/ answer = "noModel" => trimmed

\* Every job comes to an end: no window waits for ever for the mutex, the
\* lease or the native code.
JobsEnd == \A j \in Jobs : row[j] = "queued" ~> row[j] # "queued"
=============================================================================
