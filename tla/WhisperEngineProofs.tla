------------------------- MODULE WhisperEngineProofs -------------------------
(***************************************************************************)
(* Proofs about WhisperEngine, for any number of jobs, models, windows and *)
(* disturbances.                                                           *)
(*                                                                         *)
(* The inductive invariant has a part for each of the properties: what the *)
(* drain knows of its job at each of its steps, which model the context    *)
(* holds there, whose cancel() may still be on its way, and what a raised  *)
(* flag means between its lowering and the end of the native call.         *)
(***************************************************************************)
EXTENDS WhisperEngine, TLAPS

\* The model of the job has been loaded and is not yet done with.
UsesModel == {"window", "enter", "reset", "lease", "native", "answered"}

Answers == {"none", "ok", "done", "failed", "noModel", "aborted", "cancelled"}

Types ==
    /\ TypeOK
    /\ answer \in Answers
    /\ loads \in Nat /\ context \in Nat
    /\ end \in 0..Length
    /\ reports \in Nat

\* The drain, its job and what it knows of it at each step.
DrainInv ==
    /\ current = job
    /\ pc = "off" <=> job = None
    /\ pc \in {"claimed", "load", "window"} => win \in 1..Windows + 1
    /\ pc \in UsesModel \ {"window"} => win \in 1..Windows
    /\ pc = "answered" => answer \in {"ok", "failed", "noModel", "aborted"}
    /\ pc = "over" => answer \notin {"none", "ok"}
    /\ at = "running" => pc = "native"

\* One context at most, of the job's model as long as the job uses it.
ModelInv ==
    /\ alive = {context} \ {0}
    /\ pc \in {"reset", "lease", "native"} => context # 0
    /\ pc \in UsesModel /\ context # 0 => path = ModelOf[job]
    /\ trim # "free"
    /\ pc \in UsesModel => context # 0 \/ trimmed

\* A cancel() on its way is either for the job at hand or for one that is
\* over, and a flag raised after it was lowered has one of these two causes.
CancelInv ==
    /\ canceller \in cancelled => canceller = job
    /\ pc \in {"lease", "native"} /\ flag => job \in cancelled \/ stray
    /\ AbortHasCause

\* After a report that came too late the native call reports no more, and no
\* other native call is made for the job.
ReportInv ==
    \/ reports = 0
    \/ /\ reports = 1
       /\ pc # "off" => job \in cancelled
       /\ pc \in {"native", "answered", "over", "off"}
       /\ pc = "native" => late

IInv ==
    /\ Types /\ DrainInv /\ ModelInv /\ CancelInv /\ ReportInv
    /\ ModelLostOnlyToEarlyTrim
-----------------------------------------------------------------------------
(* The invariant is inductive.                                             *)

\* What the proofs need of the assumptions.
LEMMA Constants ==
    /\ 0 \notin Jobs /\ Jobs \subseteq Nat
    /\ Windows \in Nat /\ Length \in Nat
BY JobsAssumption

\* The initial states.
LEMMA InitIInv == Init => IInv
<1> SUFFICES ASSUME Init PROVE IInv
  OBVIOUS
<1> USE Constants DEF Init, None
<1>0. /\ running \in BOOLEAN /\ dead \in BOOLEAN /\ flag \in BOOLEAN
      /\ late \in BOOLEAN /\ stray \in BOOLEAN /\ trimmed \in BOOLEAN
  OBVIOUS
<1>1. Types
  BY <1>0 DEF Types, TypeOK, Answers
<1>2. DrainInv
  BY DEF DrainInv, UsesModel
<1>3. ModelInv
  BY DEF ModelInv, UsesModel
<1>4. CancelInv
  BY DEF CancelInv, AbortHasCause
<1>5. ReportInv
  BY DEF ReportInv
<1>6. ModelLostOnlyToEarlyTrim
  BY DEF ModelLostOnlyToEarlyTrim
<1> QED
  BY <1>1, <1>2, <1>3, <1>4, <1>5, <1>6 DEF IInv

\* Every step of the drain and of everybody else keeps IInv.
LEMMA StepIInv == IInv /\ [Next]_vars => IInv'
<1> SUFFICES ASSUME IInv, [Next]_vars PROVE IInv'
  OBVIOUS
<1> USE Constants DEF IInv, None
<1>1. ASSUME Claim PROVE IInv'
  BY <1>1 DEF Claim, EngineIdle, modelVars, nativeVars, Queued,
     Types, TypeOK, Answers, DrainInv, UsesModel, ModelInv, CancelInv,
     AbortHasCause, ReportInv, ModelLostOnlyToEarlyTrim
<1>2. ASSUME Publish PROVE IInv'
  BY <1>2 DEF Publish, modelVars, otherVars, nativeVars, history,
     Types, TypeOK, Answers, DrainInv, UsesModel, ModelInv, CancelInv,
     AbortHasCause, ReportInv, ModelLostOnlyToEarlyTrim
<1>3. ASSUME LoadModel PROVE IInv'
  <2>0. /\ pc = "load"
        /\ UNCHANGED <<row, job, win, current, running, dead, cancelled, flag, lease,
                       canceller, trim, at, end, pos, late, stray, trimmed, reports>>
    BY <1>3 DEF LoadModel, Goto, otherVars, nativeVars, history
  <2>1. ASSUME Loaded(ModelOf[job]), pc' = "window",
               UNCHANGED <<answer, context, path, alive, loads>>
        PROVE  IInv'
    BY <2>0, <2>1 DEF Loaded,
       Types, TypeOK, Answers, DrainInv, UsesModel, ModelInv, CancelInv,
       AbortHasCause, ReportInv, ModelLostOnlyToEarlyTrim
  <2>2. ASSUME context' = loads + 1, loads' = loads + 1,
               alive' = (alive \ {context}) \cup {loads + 1},
               path' = ModelOf[job], pc' = "window", UNCHANGED answer
        PROVE  IInv'
    BY <2>0, <2>2 DEF
       Types, TypeOK, Answers, DrainInv, UsesModel, ModelInv, CancelInv,
       AbortHasCause, ReportInv, ModelLostOnlyToEarlyTrim
  <2>3. ASSUME alive' = alive \ {context}, context' = 0, path' = None,
               pc' = "over", answer' = "failed", UNCHANGED loads
        PROVE  IInv'
    BY <2>0, <2>3 DEF
       Types, TypeOK, Answers, DrainInv, UsesModel, ModelInv, CancelInv,
       AbortHasCause, ReportInv, ModelLostOnlyToEarlyTrim
  <2> QED
    BY <1>3, <2>1, <2>2, <2>3 DEF LoadModel, Release, Goto, modelVars
<1>4. ASSUME NextWindow PROVE IInv'
  BY <1>4 DEF NextWindow, EngineIdle, modelVars, nativeVars, history,
     Types, TypeOK, Answers, DrainInv, UsesModel, ModelInv, CancelInv,
     AbortHasCause, ReportInv, ModelLostOnlyToEarlyTrim
<1>5. ASSUME Enter PROVE IInv'
  BY <1>5 DEF Enter, Answer, Goto, EngineIdle, modelVars, nativeVars, history,
     Types, TypeOK, Answers, DrainInv, UsesModel, ModelInv, CancelInv,
     AbortHasCause, ReportInv, ModelLostOnlyToEarlyTrim
<1>6. ASSUME LowerFlag PROVE IInv'
  <2>0. flag' \in BOOLEAN
    BY <1>6 DEF LowerFlag, ResetFlag
  <2>1. Types'
    BY <2>0, <1>6 DEF LowerFlag, Goto, ResetFlag, EngineIdle, modelVars, nativeVars, history,
       Types, TypeOK, Answers, DrainInv, UsesModel
  <2>2. DrainInv'
    BY <1>6 DEF LowerFlag, Goto, ResetFlag, EngineIdle, modelVars, nativeVars, history,
       DrainInv, UsesModel, Types, TypeOK, Answers
  <2>3. ModelInv'
    BY <1>6 DEF LowerFlag, Goto, ResetFlag, EngineIdle, modelVars, nativeVars, history,
       ModelInv, DrainInv, UsesModel, Types, TypeOK, Answers
  <2>4. CancelInv'
    BY <1>6 DEF LowerFlag, Goto, ResetFlag, EngineIdle, modelVars, nativeVars, history,
       CancelInv, AbortHasCause, DrainInv, UsesModel, Types, TypeOK, Answers
  <2>5. ReportInv'
    BY <1>6 DEF LowerFlag, Goto, ResetFlag, EngineIdle, modelVars, nativeVars, history,
       ReportInv, DrainInv, UsesModel, Types, TypeOK, Answers
  <2>6. ModelLostOnlyToEarlyTrim'
    BY <1>6 DEF LowerFlag, Goto, ResetFlag, EngineIdle, modelVars, nativeVars, history,
       ModelLostOnlyToEarlyTrim, ModelInv, DrainInv, UsesModel, Types, TypeOK, Answers
  <2> QED
    BY <2>1, <2>2, <2>3, <2>4, <2>5, <2>6
<1>7. ASSUME TakeLease PROVE IInv'
  <2>0. late' \in BOOLEAN
    BY <1>7 DEF TakeLease, Native!Begin
  <2>1. Types'
    BY <2>0, <1>7 DEF TakeLease, Goto, Native!Begin, Asked, modelVars, history,
       Types, TypeOK, Answers, DrainInv, UsesModel
  <2>2. DrainInv'
    BY <1>7 DEF TakeLease, Goto, Native!Begin, Asked, modelVars, history,
       DrainInv, UsesModel, Types, TypeOK, Answers
  <2>3. ModelInv'
    BY <1>7 DEF TakeLease, Goto, Native!Begin, Asked, modelVars, history,
       ModelInv, DrainInv, UsesModel, Types, TypeOK, Answers
  <2>4. CancelInv'
    BY <1>7 DEF TakeLease, Goto, Native!Begin, Asked, modelVars, history,
       CancelInv, AbortHasCause, DrainInv, UsesModel, Types, TypeOK, Answers
  <2>5. ReportInv'
    BY <1>7 DEF TakeLease, Goto, Native!Begin, Asked, modelVars, history,
       ReportInv, DrainInv, UsesModel, Types, TypeOK, Answers
  <2>6. ModelLostOnlyToEarlyTrim'
    BY <1>7 DEF TakeLease, Goto, Native!Begin, Asked, modelVars, history,
       ModelLostOnlyToEarlyTrim, ModelInv, DrainInv, UsesModel, Types, TypeOK, Answers
  <2> QED
    BY <2>1, <2>2, <2>3, <2>4, <2>5, <2>6
<1>8. ASSUME NativeReports PROVE IInv'
  <2>1. Types'
    BY <1>8 DEF NativeReports, Native!Report, Asked, drainVars, modelVars, otherVars,
       Types, TypeOK, Answers, DrainInv, UsesModel
  <2>2. DrainInv'
    BY <1>8 DEF NativeReports, Native!Report, Asked, drainVars, modelVars, otherVars,
       DrainInv, UsesModel, Types, TypeOK, Answers
  <2>3. ModelInv'
    BY <1>8 DEF NativeReports, Native!Report, Asked, drainVars, modelVars, otherVars,
       ModelInv, DrainInv, UsesModel, Types, TypeOK, Answers
  <2>4. CancelInv'
    BY <1>8 DEF NativeReports, Native!Report, Asked, drainVars, modelVars, otherVars,
       CancelInv, AbortHasCause, DrainInv, UsesModel, Types, TypeOK, Answers
  <2>0. ~late /\ (job \in cancelled => late')
    BY <1>8 DEF NativeReports, Native!Report, Asked
  <2>5. ReportInv'
    BY <1>8, <2>0 DEF NativeReports, drainVars, modelVars, otherVars,
       ReportInv, DrainInv, UsesModel, Types, TypeOK, Answers
  <2>6. ModelLostOnlyToEarlyTrim'
    BY <1>8 DEF NativeReports, Native!Report, Asked, drainVars, modelVars, otherVars,
       ModelLostOnlyToEarlyTrim, ModelInv, DrainInv, UsesModel, Types, TypeOK, Answers
  <2> QED
    BY <2>1, <2>2, <2>3, <2>4, <2>5, <2>6
<1>9. ASSUME NativeReturns PROVE IInv'
  BY <1>9 DEF NativeReturns, Native!Return, Asked, drainVars, modelVars, otherVars, history,
     Types, TypeOK, Answers, DrainInv, UsesModel, ModelInv, CancelInv,
     AbortHasCause, ReportInv, ModelLostOnlyToEarlyTrim
<1>10. ASSUME AfterNative PROVE IInv'
  BY <1>10 DEF AfterNative, GiveLease, Answer, Asked, modelVars, nativeVars, history,
     Types, TypeOK, Answers, DrainInv, UsesModel, ModelInv, CancelInv,
     AbortHasCause, ReportInv, ModelLostOnlyToEarlyTrim
<1>11. ASSUME UseAnswer PROVE IInv'
  BY <1>11 DEF UseAnswer, EngineIdle, modelVars, nativeVars, history,
     Types, TypeOK, Answers, DrainInv, UsesModel, ModelInv, CancelInv,
     AbortHasCause, ReportInv, ModelLostOnlyToEarlyTrim
<1>12. ASSUME JobOver PROVE IInv'
  BY <1>12 DEF JobOver, Forget, EngineIdle, modelVars, nativeVars, history,
     Types, TypeOK, Answers, DrainInv, UsesModel, ModelInv, CancelInv,
     AbortHasCause, ReportInv, ModelLostOnlyToEarlyTrim
<1>13. ASSUME QueueIdle PROVE IInv'
  <2>0. running' \in BOOLEAN
    BY <1>13 DEF QueueIdle
  <2>1. Types'
    BY <2>0, <1>13 DEF QueueIdle, EngineIdle, modelVars, nativeVars, history,
       Types, TypeOK, Answers, DrainInv, UsesModel
  <2>2. DrainInv'
    BY <1>13 DEF QueueIdle, EngineIdle, modelVars, nativeVars, history,
       DrainInv, UsesModel, Types, TypeOK, Answers
  <2>3. ModelInv'
    BY <1>13 DEF QueueIdle, EngineIdle, modelVars, nativeVars, history,
       ModelInv, DrainInv, UsesModel, Types, TypeOK, Answers
  <2>4. CancelInv'
    BY <1>13 DEF QueueIdle, EngineIdle, modelVars, nativeVars, history,
       CancelInv, AbortHasCause, DrainInv, UsesModel, Types, TypeOK, Answers
  <2>5. ReportInv'
    BY <1>13 DEF QueueIdle, EngineIdle, modelVars, nativeVars, history,
       ReportInv, DrainInv, UsesModel, Types, TypeOK, Answers
  <2>6. ModelLostOnlyToEarlyTrim'
    BY <1>13 DEF QueueIdle, EngineIdle, modelVars, nativeVars, history,
       ModelLostOnlyToEarlyTrim, ModelInv, DrainInv, UsesModel, Types, TypeOK, Answers
  <2> QED
    BY <2>1, <2>2, <2>3, <2>4, <2>5, <2>6
<1>14. ASSUME LeaveDead PROVE IInv'
  <2>0. dead' \in BOOLEAN
    BY <1>14 DEF LeaveDead
  <2>1. Types'
    BY <2>0, <1>14 DEF LeaveDead, Forget, EngineIdle, modelVars, nativeVars, history,
       Types, TypeOK, Answers, DrainInv, UsesModel
  <2>2. DrainInv'
    BY <1>14 DEF LeaveDead, Forget, EngineIdle, modelVars, nativeVars, history,
       DrainInv, UsesModel, Types, TypeOK, Answers
  <2>3. ModelInv'
    BY <1>14 DEF LeaveDead, Forget, EngineIdle, modelVars, nativeVars, history,
       ModelInv, DrainInv, UsesModel, Types, TypeOK, Answers
  <2>4. CancelInv'
    BY <1>14 DEF LeaveDead, Forget, EngineIdle, modelVars, nativeVars, history,
       CancelInv, AbortHasCause, DrainInv, UsesModel, Types, TypeOK, Answers
  <2>5. ReportInv'
    BY <1>14 DEF LeaveDead, Forget, EngineIdle, modelVars, nativeVars, history,
       ReportInv, DrainInv, UsesModel, Types, TypeOK, Answers
  <2>6. ModelLostOnlyToEarlyTrim'
    BY <1>14 DEF LeaveDead, Forget, EngineIdle, modelVars, nativeVars, history,
       ModelLostOnlyToEarlyTrim, ModelInv, DrainInv, UsesModel, Types, TypeOK, Answers
  <2> QED
    BY <2>1, <2>2, <2>3, <2>4, <2>5, <2>6
<1>15. ASSUME CancelNative PROVE IInv'
  <2>1. Types'
    BY <1>15 DEF CancelNative, modelVars, nativeVars,
       Types, TypeOK, Answers, DrainInv, UsesModel
  <2>2. DrainInv'
    BY <1>15 DEF CancelNative, modelVars, nativeVars,
       DrainInv, UsesModel, Types, TypeOK, Answers
  <2>3. ModelInv'
    BY <1>15 DEF CancelNative, modelVars, nativeVars,
       ModelInv, DrainInv, UsesModel, Types, TypeOK, Answers
  <2>4. CancelInv'
    BY <1>15 DEF CancelNative, modelVars, nativeVars,
       CancelInv, AbortHasCause, DrainInv, UsesModel, Types, TypeOK, Answers
  <2>5. ReportInv'
    BY <1>15 DEF CancelNative, modelVars, nativeVars,
       ReportInv, DrainInv, UsesModel, Types, TypeOK, Answers
  <2>6. ModelLostOnlyToEarlyTrim'
    BY <1>15 DEF CancelNative, modelVars, nativeVars,
       ModelLostOnlyToEarlyTrim, ModelInv, DrainInv, UsesModel, Types, TypeOK, Answers
  <2> QED
    BY <2>1, <2>2, <2>3, <2>4, <2>5, <2>6
<1>16. ASSUME DestroyService PROVE IInv'
  BY <1>16 DEF DestroyService, modelVars, nativeVars, history,
     Types, TypeOK, Answers, DrainInv, UsesModel, ModelInv, CancelInv,
     AbortHasCause, ReportInv, ModelLostOnlyToEarlyTrim
<1>17. ASSUME TrimLooks PROVE IInv'
  BY <1>17 DEF TrimLooks, MayTrim, drainVars, modelVars, nativeVars, history,
     Types, TypeOK, Answers, DrainInv, UsesModel, ModelInv, CancelInv,
     AbortHasCause, ReportInv, ModelLostOnlyToEarlyTrim
<1>18. ASSUME TrimReleases PROVE IInv'
  <2>1. Types'
    BY <1>18 DEF TrimReleases, Release, Transcribing, drainVars, nativeVars,
       Types, TypeOK, Answers, DrainInv, UsesModel
  <2>2. DrainInv'
    BY <1>18 DEF TrimReleases, Release, Transcribing, drainVars, nativeVars,
       DrainInv, UsesModel, Types, TypeOK, Answers
  <2>3. ModelInv'
    BY <1>18 DEF TrimReleases, Release, Transcribing, drainVars, nativeVars,
       ModelInv, DrainInv, UsesModel, Types, TypeOK, Answers
  <2>4. CancelInv'
    BY <1>18 DEF TrimReleases, Release, Transcribing, drainVars, nativeVars,
       CancelInv, AbortHasCause, DrainInv, UsesModel, Types, TypeOK, Answers
  <2>5. ReportInv'
    BY <1>18 DEF TrimReleases, Release, Transcribing, drainVars, nativeVars,
       ReportInv, DrainInv, UsesModel, Types, TypeOK, Answers
  <2>6. ModelLostOnlyToEarlyTrim'
    BY <1>18 DEF TrimReleases, Release, Transcribing, drainVars, nativeVars,
       ModelLostOnlyToEarlyTrim, ModelInv, DrainInv, UsesModel, Types, TypeOK, Answers
  <2> QED
    BY <2>1, <2>2, <2>3, <2>4, <2>5, <2>6
<1>19. ASSUME OtherTakesLease PROVE IInv'
  BY <1>19 DEF OtherTakesLease, drainVars, modelVars, nativeVars, history,
     Types, TypeOK, Answers, DrainInv, UsesModel, ModelInv, CancelInv,
     AbortHasCause, ReportInv, ModelLostOnlyToEarlyTrim
<1>20. ASSUME OtherGivesLease PROVE IInv'
  BY <1>20 DEF OtherGivesLease, drainVars, modelVars, nativeVars, history,
     Types, TypeOK, Answers, DrainInv, UsesModel, ModelInv, CancelInv,
     AbortHasCause, ReportInv, ModelLostOnlyToEarlyTrim
<1>21. ASSUME NEW j \in Jobs, CancelBegins(j) PROVE IInv'
  BY <1>21 DEF CancelBegins, modelVars, nativeVars, history,
     Types, TypeOK, Answers, DrainInv, UsesModel, ModelInv, CancelInv,
     AbortHasCause, ReportInv, ModelLostOnlyToEarlyTrim
<1>22. ASSUME UNCHANGED vars PROVE IInv'
  BY <1>22 DEF vars, drainVars, modelVars, otherVars, nativeVars, history,
     Types, TypeOK, Answers, DrainInv, UsesModel, ModelInv, CancelInv,
     AbortHasCause, ReportInv, ModelLostOnlyToEarlyTrim
<1> QED
  BY <1>1, <1>2, <1>3, <1>4, <1>5, <1>6, <1>7, <1>8, <1>9, <1>10, <1>11, <1>12, <1>13,
      <1>14, <1>15, <1>16, <1>17, <1>18, <1>19, <1>20, <1>21, <1>22
     DEF Next, DrainStep

\* IInv is invariant.
LEMMA IInvInvariant == Spec => []IInv
BY InitIInv, StepIInv, PTL DEF Spec
-----------------------------------------------------------------------------
(* What the engine promises.                                               *)

\* Every variable of the engine and its users keeps its type; currentJobId
\* names the job at hand or none.
THEOREM TypeCorrect == Spec => []TypeOK
<1>1. IInv => TypeOK
  BY DEF IInv, Types
<1> QED
  BY <1>1, IInvInvariant, PTL

\* A native call runs on a context that holds the model of its job, and no
\* context is leaked, whatever trims, cancels or destroys meanwhile: release()
\* waits for the mutex, and nothing but loadModel() makes a context.
THEOREM RightContext == Spec => []ContextIsRight
<1>1. IInv => ContextIsRight
  BY DEF IInv, DrainInv, ModelInv, ContextIsRight, UsesModel
<1> QED
  BY <1>1, IInvInvariant, PTL

\* transcribe() answers "cancelled" only for a job that was cancelled, unless
\* a cancel() called the engine after its job was over.
THEOREM AbortsHaveCause == Spec => []AbortHasCause
<1>1. IInv => AbortHasCause
  BY DEF IInv, CancelInv
<1> QED
  BY <1>1, IInvInvariant, PTL

\* After cancel() has come back, the job at hand reports at most once more,
\* over all of its windows.
THEOREM CancelIsHeard == Spec => []CancelStopsReports
<1>1. IInv => CancelStopsReports
  BY DEF IInv, ReportInv, CancelStopsReports
<1> QED
  BY <1>1, IInvInvariant, PTL

\* A job loses its model only to a trim that was decided before the job.
THEOREM ModelIsKept == Spec => []ModelLostOnlyToEarlyTrim
<1>1. IInv => ModelLostOnlyToEarlyTrim
  BY DEF IInv
<1> QED
  BY <1>1, IInvInvariant, PTL
=============================================================================
