----------------------- MODULE RecordingServiceProofs -----------------------
(***************************************************************************)
(* Proofs about RecordingService, for any number of recordings and deaths  *)
(* of the process and whatever troubles may happen.                        *)
(*                                                                         *)
(* The inductive invariant ties together what is kept in four places: the  *)
(* fields of the service, the session shown, the draft on the disk and the *)
(* threads of the recorder.                                                *)
(***************************************************************************)
EXTENDS RecordingService, TLAPS

\* The service, its recorder and the session it shows.
ServiceInv ==
    /\ isRecording =>
          /\ service = "alive" /\ outputFile # NoFile /\ scope = outputFile
          /\ session.status \in {"RECORDING", "PAUSED"} /\ session.file = outputFile
    /\ session.status \in {"RECORDING", "PAUSED"} => isRecording
    /\ recorder = IF isRecording /\ MainIsFree THEN outputFile ELSE NoFile
    /\ ~isRecording /\ outputFile # NoFile =>
          /\ MainIsFree /\ service = "stopping"
          /\ session = [status |-> "COMPLETED", file |-> outputFile]
          /\ scope = outputFile /\ outputFile \notin failed
    /\ ~isRecording /\ MainIsFree => service # "alive"
    /\ service = "none" => MainIsFree /\ scope = NoFile
    /\ session.status = "IDLE" => session.file = NoFile

\* What the main thread is closing.
CloseInv ==
    /\ main.doing = "nothing" => main.rec = NoFile
    /\ main.doing = "stop" => isRecording /\ main.rec # NoFile
    /\ main.doing = "discard" => session.status # "IDLE"
    /\ main.doing = "error" => isRecording \/ failed # {}
    /\ main.rec # NoFile => isRecording /\ main.rec = outputFile
    /\ ~MainIsFree /\ isRecording /\ main.rec = NoFile => outputFile \in failed

\* The threads of the recorder, and the ticker.
ThreadInv ==
    /\ posted \subseteq failed \intersect {scope}
    /\ capturing \subseteq {recorder}
    /\ recorder # NoFile => recorder \in capturing \union failed
    /\ \A f \in Files : writer[f] = "loop" => isRecording /\ f = outputFile /\ f \notin failed
    /\ \A f \in Files : writer[f] = "failing" => f \in failed
    /\ mic \ failed \subseteq {recorder, main.rec}
    /\ ticker => recorder # NoFile
    /\ io.live => ticker
    /\ io.doing = "halt" => io.live

\* Nothing is known of a recording before it is started.
FutureInv ==
    /\ \A f \in Files : f > started =>
          audio[f] = "absent" /\ fate[f] = "none" /\ writer[f] = "none" /\ f \notin failed
    /\ journal.file <= started /\ session.file <= started /\ screen.card <= started

\* The draft belongs to the session, and the card to the draft.
DraftInv ==
    /\ journal # NoDraft => fate[journal.file] = "none"
    /\ isRecording => journal.file = outputFile
    /\ session.status = "COMPLETED" => journal = NoDraft
    /\ session.status = "ERROR" => journal.file = session.file
    /\ session.status = "IDLE" /\ screen.card # NoFile => journal.file \in {NoFile, screen.card}
    /\ session.status = "IDLE" /\ screen.open /\ screen.card = NoFile =>
          journal = NoDraft \/ audio[journal.file] # "audio"

\* A card that is shown is of the session or of the draft, unless there is
\* nothing to lose.
CardInv ==
    Calm /\ screen.card # NoFile /\ audio[screen.card] = "audio" =>
        IF session.status = "IDLE"
        THEN fate[screen.card] = "none" => journal.file = screen.card
        ELSE screen.card = session.file

IInv ==
    /\ TypeOK /\ ServiceInv /\ CloseInv /\ ThreadInv /\ FutureInv /\ DraftInv
    /\ CardInv /\ AudioIsReachable
-----------------------------------------------------------------------------
(* Types.                                                                  *)

\* What the proofs need of the assumption.
LEMMA Constants == Recordings \in Nat /\ Deaths \in Nat /\ Files \subseteq Nat \ {NoFile}
BY RecordingAssumption DEF Files, NoFile

\* Closing a recorder leaves the main thread and the ticker's work well typed.
LEMMA ClosingTypes ==
    ASSUME TypeOK, NEW handler \in {"stop", "discard", "error"}, BeginClose(handler)
    PROVE  main' \in MainWork /\ io' \in IoWork
<1>1. main' \in MainWork
  BY DEF TypeOK, BeginClose, MainWork
<1>2. io' \in IoWork
  BY DEF TypeOK, BeginClose, IoWork, NoIo
<1> QED
  BY <1>1, <1>2

\* So does closing the screen or its card.
LEMMA ScreenTypes ==
    ASSUME NEW s \in Screens
    PROVE  Closed \in Screens /\ [s EXCEPT !.card = NoFile] \in Screens
<1>1. Closed \in Screens
  BY DEF Closed, Screens
<1>2. [s EXCEPT !.card = NoFile] \in Screens
  BY DEF Screens
<1> QED
  BY <1>1, <1>2

\* Every step preserves the types.
LEMMA StepTypes == ASSUME TypeOK, [Next]_vars PROVE TypeOK'
<1> USE DEF TypeOK, NoDraft, Idle, NotClosing, NoIo, Closed, disk, instance, threads, budget
<1>1. CASE HandleStop
  <2>1. audio' \in [Files -> {"absent", "header", "audio"}]
    BY <1>1 DEF HandleStop, EndClose, PreserveDraft
  <2>2. journal' \in Drafts /\ (journal'.file = NoFile <=> journal' = NoDraft)
    BY <1>1 DEF HandleStop, EndClose, PreserveDraft, Drafts
  <2>3. session' \in Sessions
    BY <1>1 DEF HandleStop, EndClose, PreserveDraft, Sessions
  <2>4. /\ isRecording' \in BOOLEAN /\ isPaused' \in BOOLEAN
        /\ ticker' \in BOOLEAN /\ troubled' \in BOOLEAN
    BY <1>1 DEF HandleStop, EndClose, PreserveDraft
  <2> QED
    BY <1>1, <2>1, <2>2, <2>3, <2>4 DEF HandleStop, EndClose, PreserveDraft,
       MainWork, IoWork, Screens
<1>2. CASE HandleError
  <2>1. audio' \in [Files -> {"absent", "header", "audio"}]
    BY <1>2 DEF HandleError, EndClose, PreserveDraft
  <2>2. journal' \in Drafts /\ (journal'.file = NoFile <=> journal' = NoDraft)
    BY <1>2 DEF HandleError, EndClose, PreserveDraft, Drafts
  <2>3. session' \in Sessions
    BY <1>2 DEF HandleError, EndClose, PreserveDraft, Sessions
  <2>4. /\ isRecording' \in BOOLEAN /\ isPaused' \in BOOLEAN
        /\ ticker' \in BOOLEAN /\ troubled' \in BOOLEAN
    BY <1>2 DEF HandleError, EndClose, PreserveDraft
  <2> QED
    BY <1>2, <2>1, <2>2, <2>3, <2>4 DEF HandleError, EndClose,
       PreserveDraft, MainWork, IoWork, Screens
<1>3. CASE HandleDiscard
  <2>1. audio' \in [Files -> {"absent", "header", "audio"}]
    BY <1>3 DEF HandleDiscard, EndClose, ThrowAway
  <2>2. fate' \in [Files -> {"none", "given", "discarded", "dismissed"}]
    BY <1>3 DEF HandleDiscard, EndClose, ThrowAway
  <2>3. /\ isRecording' \in BOOLEAN /\ isPaused' \in BOOLEAN
        /\ ticker' \in BOOLEAN /\ troubled' \in BOOLEAN
    BY <1>3 DEF HandleDiscard, EndClose, ThrowAway
  <2> QED
    BY <1>3, <2>1, <2>2, <2>3 DEF HandleDiscard, EndClose, ThrowAway,
       Drafts, Sessions, MainWork, IoWork, Screens
<1>4. CASE RecorderReportsError
  <2>1. main' \in MainWork /\ io' \in IoWork
    BY <1>4, ClosingTypes DEF RecorderReportsError
  <2>2. /\ isRecording' \in BOOLEAN /\ isPaused' \in BOOLEAN
        /\ ticker' \in BOOLEAN /\ troubled' \in BOOLEAN
    BY <1>4 DEF RecorderReportsError, BeginClose
  <2> QED
    BY <1>4, <2>1, <2>2 DEF RecorderReportsError, BeginClose, Drafts,
       Sessions, Screens
<1>5. CASE OnDestroy
  BY <1>5 DEF OnDestroy, Drafts, Sessions, MainWork, IoWork, Screens
<1>6. CASE WatchdogHalts
  <2>1. main' \in MainWork /\ io' \in IoWork
    BY <1>6, ClosingTypes DEF WatchdogHalts
  <2>2. /\ isRecording' \in BOOLEAN /\ isPaused' \in BOOLEAN
        /\ ticker' \in BOOLEAN /\ troubled' \in BOOLEAN
    BY <1>6 DEF WatchdogHalts, BeginClose
  <2> QED
    BY <1>6, <2>1, <2>2 DEF WatchdogHalts, BeginClose, Drafts, Sessions,
       Screens
<1>7. CASE Tick
  BY <1>7 DEF Tick, Drafts, Sessions, MainWork, IoWork, Screens
<1>8. CASE UpdateHeartbeat
  <2>1. journal' \in Drafts /\ (journal'.file = NoFile <=> journal' = NoDraft)
    BY <1>8 DEF UpdateHeartbeat, Drafts
  <2>2. io' \in IoWork
    BY <1>8 DEF UpdateHeartbeat, IoWork
  <2>3. /\ isRecording' \in BOOLEAN /\ isPaused' \in BOOLEAN
        /\ ticker' \in BOOLEAN /\ troubled' \in BOOLEAN
    BY <1>8 DEF UpdateHeartbeat
  <2> QED
    BY <1>8, <2>1, <2>2, <2>3 DEF UpdateHeartbeat, Sessions, MainWork,
       Screens
<1>9. CASE Watchdog
  <2>1. io' \in IoWork
    BY <1>9 DEF Watchdog, IoWork
  <2>2. /\ isRecording' \in BOOLEAN /\ isPaused' \in BOOLEAN
        /\ ticker' \in BOOLEAN /\ troubled' \in BOOLEAN
    BY <1>9 DEF Watchdog
  <2> QED
    BY <1>9, <2>1, <2>2 DEF Watchdog, Drafts, Sessions, MainWork, Screens
<1>10. ASSUME NEW f \in Files, Write(f) PROVE TypeOK'
  BY <1>10 DEF Write, Drafts, Sessions, MainWork, IoWork, Screens
<1>11. ASSUME NEW f \in Files, WriteFails(f) PROVE TypeOK'
  BY <1>11 DEF WriteFails, Drafts, Sessions, MainWork, IoWork, Screens
<1>12. ASSUME NEW f \in Files, ReportFailure(f) PROVE TypeOK'
  BY <1>12 DEF ReportFailure, Drafts, Sessions, MainWork, IoWork, Screens
<1>13. ASSUME NEW f \in Files, WriterEnds(f) PROVE TypeOK'
  BY <1>13 DEF WriterEnds, Drafts, Sessions, MainWork, IoWork, Screens
<1>14. CASE HandleStart
  <2>1. started + 1 \in Files /\ started + 1 \in 0..Recordings /\ started + 1 # NoFile
    BY <1>14, Constants DEF HandleStart, MayStart, Files, NoFile
  <2>2. audio' \in [Files -> {"absent", "header", "audio"}]
    BY <1>14, <2>1 DEF HandleStart, MayStart
  <2>3. journal' \in Drafts /\ (journal'.file = NoFile <=> journal' = NoDraft)
    BY <1>14, <2>1 DEF HandleStart, MayStart, Drafts
  <2>4. session' \in Sessions
    BY <1>14, <2>1 DEF HandleStart, MayStart, Sessions
  <2>5. writer' \in [Files -> {"none", "loop", "failing", "ended"}]
    BY <1>14, <2>1 DEF HandleStart, MayStart
  <2>6. /\ isRecording' \in BOOLEAN /\ isPaused' \in BOOLEAN
        /\ ticker' \in BOOLEAN /\ troubled' \in BOOLEAN
    BY <1>14, <2>1 DEF HandleStart, MayStart
  <2> QED
    BY <1>14, <2>1, <2>2, <2>3, <2>4, <2>5, <2>6 DEF HandleStart, MayStart,
       MainWork, IoWork, Screens
<1>15. CASE HandleStartFails
  BY <1>15 DEF HandleStartFails, MayStart, Drafts, Sessions, MainWork, IoWork,
     Screens
<1>16. CASE HandlePause
  <2>1. session' \in Sessions
    BY <1>16 DEF HandlePause, Sessions
  <2>2. /\ isRecording' \in BOOLEAN /\ isPaused' \in BOOLEAN
        /\ ticker' \in BOOLEAN /\ troubled' \in BOOLEAN
    BY <1>16 DEF HandlePause
  <2> QED
    BY <1>16, <2>1, <2>2 DEF HandlePause, Drafts, MainWork, IoWork, Screens
<1>17. CASE HandleResume
  <2>1. session' \in Sessions
    BY <1>17 DEF HandleResume, Sessions
  <2>2. /\ isRecording' \in BOOLEAN /\ isPaused' \in BOOLEAN
        /\ ticker' \in BOOLEAN /\ troubled' \in BOOLEAN
    BY <1>17 DEF HandleResume
  <2> QED
    BY <1>17, <2>1, <2>2 DEF HandleResume, Drafts, MainWork, IoWork, Screens
<1>18. CASE Stop
  <2>1. main' \in MainWork /\ io' \in IoWork
    BY <1>18, ClosingTypes DEF Stop
  <2>2. /\ isRecording' \in BOOLEAN /\ isPaused' \in BOOLEAN
        /\ ticker' \in BOOLEAN /\ troubled' \in BOOLEAN
    BY <1>18 DEF Stop, BeginClose
  <2> QED
    BY <1>18, <2>1, <2>2 DEF Stop, BeginClose, Drafts, Sessions, Screens
<1>19. CASE Discard
  <2>1. main' \in MainWork /\ io' \in IoWork
    BY <1>19, ClosingTypes DEF Discard
  <2>2. /\ isRecording' \in BOOLEAN /\ isPaused' \in BOOLEAN
        /\ ticker' \in BOOLEAN /\ troubled' \in BOOLEAN
    BY <1>19 DEF Discard, BeginClose
  <2> QED
    BY <1>19, <2>1, <2>2 DEF Discard, BeginClose, Drafts, Sessions, Screens
<1>20. CASE OpenScreen
  BY <1>20 DEF OpenScreen, RecoverableDraft, Drafts, Sessions, MainWork,
     IoWork, Screens
<1>21. CASE TranscribeCard
  <2>1. journal' \in Drafts /\ (journal'.file = NoFile <=> journal' = NoDraft)
    BY <1>21 DEF TranscribeCard, GiveToQueue, Drafts
  <2>2. fate' \in [Files -> {"none", "given", "discarded", "dismissed"}]
    BY <1>21 DEF TranscribeCard, GiveToQueue
  <2>3. screen' \in Screens
    <3>1. screen' = Closed \/ screen' = [screen EXCEPT !.card = NoFile]
      BY <1>21 DEF TranscribeCard, GiveToQueue
    <3> QED
      BY <3>1, ScreenTypes
  <2>4. /\ isRecording' \in BOOLEAN /\ isPaused' \in BOOLEAN
        /\ ticker' \in BOOLEAN /\ troubled' \in BOOLEAN
    BY <1>21 DEF TranscribeCard, GiveToQueue
  <2> QED
    BY <1>21, <2>1, <2>2, <2>3, <2>4 DEF TranscribeCard, GiveToQueue,
       Sessions, MainWork, IoWork
<1>22. CASE DiscardCard
  BY <1>22 DEF DiscardCard, Drafts, Sessions, MainWork, IoWork, Screens
<1>23. CASE TranscribeCompleted
  <2>1. fate' \in [Files -> {"none", "given", "discarded", "dismissed"}]
    BY <1>23 DEF TranscribeCompleted, GiveToQueue
  <2>2. screen' \in Screens
    BY <1>23 DEF TranscribeCompleted, GiveToQueue, Screens
  <2>3. /\ isRecording' \in BOOLEAN /\ isPaused' \in BOOLEAN
        /\ ticker' \in BOOLEAN /\ troubled' \in BOOLEAN
    BY <1>23 DEF TranscribeCompleted, GiveToQueue
  <2> QED
    BY <1>23, <2>1, <2>2, <2>3 DEF TranscribeCompleted, GiveToQueue, Drafts,
       Sessions, MainWork, IoWork
<1>24. CASE TranscribePreserved
  <2>1. journal' \in Drafts /\ (journal'.file = NoFile <=> journal' = NoDraft)
    BY <1>24 DEF TranscribePreserved, GiveToQueue, Drafts
  <2>2. session' \in Sessions
    BY <1>24 DEF TranscribePreserved, GiveToQueue, Sessions
  <2>3. fate' \in [Files -> {"none", "given", "discarded", "dismissed"}]
    BY <1>24 DEF TranscribePreserved, GiveToQueue
  <2>4. screen' \in Screens
    BY <1>24 DEF TranscribePreserved, GiveToQueue, Screens
  <2>5. /\ isRecording' \in BOOLEAN /\ isPaused' \in BOOLEAN
        /\ ticker' \in BOOLEAN /\ troubled' \in BOOLEAN
    BY <1>24 DEF TranscribePreserved, GiveToQueue
  <2> QED
    BY <1>24, <2>1, <2>2, <2>3, <2>4, <2>5 DEF TranscribePreserved,
       GiveToQueue, MainWork, IoWork
<1>25. CASE DismissError
  BY <1>25 DEF DismissError, ThrowAway, Drafts, Sessions, MainWork, IoWork,
     Screens
<1>26. CASE StorageChanges
  BY <1>26 DEF StorageChanges, Drafts, Sessions, MainWork, IoWork, Screens
<1>27. CASE ProcessDies
  <2>1. writer' \in [Files -> {"none", "loop", "failing", "ended"}]
    BY <1>27 DEF ProcessDies
  <2>2. deaths' \in 0..Deaths
    BY <1>27, Constants DEF ProcessDies
  <2>3. /\ isRecording' \in BOOLEAN /\ isPaused' \in BOOLEAN
        /\ ticker' \in BOOLEAN /\ troubled' \in BOOLEAN
    BY <1>27 DEF ProcessDies
  <2> QED
    BY <1>27, <2>1, <2>2, <2>3 DEF ProcessDies, Drafts, Sessions, MainWork,
       IoWork, Screens
<1>28. CASE UNCHANGED vars
  BY <1>28 DEF vars
<1> QED
  BY <1>1, <1>2, <1>3, <1>4, <1>5, <1>6, <1>7, <1>8, <1>9, <1>10, <1>11,
     <1>12, <1>13, <1>14, <1>15, <1>16, <1>17, <1>18, <1>19, <1>20, <1>21,
     <1>22, <1>23, <1>24, <1>25, <1>26, <1>27, <1>28 DEF Next, MainStep,
     BackgroundStep, UserStep
-----------------------------------------------------------------------------
(* The invariant is inductive.                                             *)

\* The initial states.
LEMMA InitIInv == Init => IInv
<1> SUFFICES ASSUME Init PROVE IInv
  OBVIOUS
<1> USE Constants DEF Init, NoDraft, Idle, NotClosing, NoIo, Closed
<1>1. isRecording \in BOOLEAN /\ isPaused \in BOOLEAN /\ ticker \in BOOLEAN /\ troubled \in BOOLEAN
  OBVIOUS
<1>2. /\ journal \in Drafts /\ session \in Sessions /\ main \in MainWork /\ io \in IoWork
      /\ screen \in Screens /\ started \in 0..Recordings /\ deaths \in 0..Deaths
  BY DEF Drafts, Sessions, MainWork, IoWork, Screens
<1>3. TypeOK
  BY <1>1, <1>2 DEF TypeOK
<1>4. ServiceInv /\ CloseInv /\ ThreadInv
  BY DEF ServiceInv, CloseInv, ThreadInv, MainIsFree
<1>5. FutureInv /\ DraftInv /\ CardInv /\ AudioIsReachable
  BY DEF FutureInv, DraftInv, CardInv, AudioIsReachable, NoFile
<1> QED
  BY <1>3, <1>4, <1>5 DEF IInv

\* Every step preserves it.
LEMMA StepIInv == ASSUME IInv, [Next]_vars PROVE IInv'
<1> USE Constants DEF IInv, TypeOK, ServiceInv, CloseInv, ThreadInv, MainIsFree,
        Files, NoFile, NoDraft, Idle, NotClosing, NoIo, Closed,
        Drafts, Sessions, MainWork, IoWork, Screens, disk, instance, threads, budget
<1>0. TypeOK'
  BY StepTypes
<1>1. CASE HandleStop
  <2>1. ServiceInv'
    BY <1>0, <1>1 DEF HandleStop, EndClose, PreserveDraft, DraftInv
  <2>2. CloseInv'
    BY <1>0, <1>1 DEF HandleStop, EndClose, PreserveDraft, DraftInv
  <2>3. ThreadInv'
    BY <1>0, <1>1 DEF HandleStop, EndClose, PreserveDraft, DraftInv
  <2>4. FutureInv'
    BY <1>0, <1>1 DEF HandleStop, EndClose, PreserveDraft, FutureInv,
       DraftInv
  <2>5. DraftInv'
    BY <1>0, <1>1 DEF HandleStop, EndClose, PreserveDraft, DraftInv,
       FutureInv
  <2>6. CardInv'
    BY <1>0, <1>1 DEF HandleStop, EndClose, PreserveDraft, CardInv, Calm,
       DraftInv, FutureInv
  <2>7. AudioIsReachable'
    BY <1>0, <1>1 DEF HandleStop, EndClose, PreserveDraft, AudioIsReachable,
       Calm, InHand, CardInv, DraftInv, FutureInv
  <2> QED
    BY <1>0, <2>1, <2>2, <2>3, <2>4, <2>5, <2>6, <2>7
<1>2. CASE HandleError
  <2>1. ServiceInv'
    BY <1>0, <1>2 DEF HandleError, EndClose, PreserveDraft, DraftInv
  <2>2. CloseInv'
    BY <1>0, <1>2 DEF HandleError, EndClose, PreserveDraft, DraftInv
  <2>3. ThreadInv'
    BY <1>0, <1>2 DEF HandleError, EndClose, PreserveDraft, DraftInv
  <2>4. FutureInv'
    BY <1>0, <1>2 DEF HandleError, EndClose, PreserveDraft, FutureInv,
       DraftInv
  <2>5. DraftInv'
    BY <1>0, <1>2 DEF HandleError, EndClose, PreserveDraft, DraftInv,
       FutureInv
  <2>6. CardInv'
    BY <1>0, <1>2 DEF HandleError, EndClose, PreserveDraft, CardInv, Calm,
       DraftInv, FutureInv
  <2>7. AudioIsReachable'
    BY <1>0, <1>2 DEF HandleError, EndClose, PreserveDraft,
       AudioIsReachable, Calm, InHand, CardInv, DraftInv, FutureInv
  <2> QED
    BY <1>0, <2>1, <2>2, <2>3, <2>4, <2>5, <2>6, <2>7
<1>3. CASE HandleDiscard
  <2>1. ServiceInv'
    BY <1>0, <1>3 DEF HandleDiscard, EndClose, ThrowAway
  <2>2. CloseInv'
    BY <1>0, <1>3 DEF HandleDiscard, EndClose, ThrowAway
  <2>3. ThreadInv'
    BY <1>0, <1>3 DEF HandleDiscard, EndClose, ThrowAway
  <2>4. FutureInv'
    BY <1>0, <1>3 DEF HandleDiscard, EndClose, ThrowAway, FutureInv,
       DraftInv
  <2>5. DraftInv'
    BY <1>0, <1>3 DEF HandleDiscard, EndClose, ThrowAway, DraftInv,
       FutureInv
  <2>6. CardInv'
    BY <1>0, <1>3 DEF HandleDiscard, EndClose, ThrowAway, CardInv, Calm,
       DraftInv, FutureInv
  <2>7. AudioIsReachable'
    BY <1>0, <1>3 DEF HandleDiscard, EndClose, ThrowAway, AudioIsReachable,
       Calm, InHand, CardInv, DraftInv, FutureInv
  <2> QED
    BY <1>0, <2>1, <2>2, <2>3, <2>4, <2>5, <2>6, <2>7
<1>4. CASE RecorderReportsError
  BY <1>0, <1>4 DEF RecorderReportsError, BeginClose, FutureInv, DraftInv,
     CardInv, AudioIsReachable, Calm, InHand
<1>5. CASE OnDestroy
  BY <1>0, <1>5 DEF OnDestroy, FutureInv, DraftInv, CardInv, AudioIsReachable,
     Calm, InHand
<1>6. CASE WatchdogHalts
  BY <1>0, <1>6 DEF WatchdogHalts, BeginClose, FutureInv, DraftInv, CardInv,
     AudioIsReachable, Calm, InHand
<1>7. CASE Tick
  BY <1>0, <1>7 DEF Tick, FutureInv, DraftInv, CardInv, AudioIsReachable,
     Calm, InHand
<1>8. CASE UpdateHeartbeat
  BY <1>0, <1>8 DEF UpdateHeartbeat, FutureInv, DraftInv, CardInv,
     AudioIsReachable, Calm, InHand
<1>9. CASE Watchdog
  BY <1>0, <1>9 DEF Watchdog, FutureInv, DraftInv, CardInv, AudioIsReachable,
     Calm, InHand
<1>10. ASSUME NEW f \in Files, Write(f) PROVE IInv'
  BY <1>0, <1>10 DEF Write, FutureInv, DraftInv, CardInv, AudioIsReachable,
     Calm, InHand
<1>11. ASSUME NEW f \in Files, WriteFails(f) PROVE IInv'
  BY <1>0, <1>11 DEF WriteFails, FutureInv, DraftInv, CardInv,
     AudioIsReachable, Calm, InHand
<1>12. ASSUME NEW f \in Files, ReportFailure(f) PROVE IInv'
  BY <1>0, <1>12 DEF ReportFailure, FutureInv, DraftInv, CardInv,
     AudioIsReachable, Calm, InHand
<1>13. ASSUME NEW f \in Files, WriterEnds(f) PROVE IInv'
  BY <1>0, <1>13 DEF WriterEnds, FutureInv, DraftInv, CardInv,
     AudioIsReachable, Calm, InHand
<1>14. CASE HandleStart
  <2>1. ServiceInv'
    BY <1>0, <1>14 DEF HandleStart, MayStart, FutureInv
  <2>2. CloseInv'
    BY <1>0, <1>14 DEF HandleStart, MayStart, FutureInv
  <2>3. ThreadInv'
    BY <1>0, <1>14 DEF HandleStart, MayStart, FutureInv
  <2>4. FutureInv'
    BY <1>0, <1>14 DEF HandleStart, MayStart, FutureInv, FutureInv, DraftInv
  <2>5. DraftInv'
    BY <1>0, <1>14 DEF HandleStart, MayStart, FutureInv, DraftInv, FutureInv
  <2>6. CardInv'
    BY <1>0, <1>14 DEF HandleStart, MayStart, FutureInv, CardInv, Calm,
       DraftInv, FutureInv
  <2>7. AudioIsReachable'
    BY <1>0, <1>14 DEF HandleStart, MayStart, FutureInv, AudioIsReachable,
       Calm, InHand, CardInv, DraftInv, FutureInv
  <2> QED
    BY <1>0, <2>1, <2>2, <2>3, <2>4, <2>5, <2>6, <2>7
<1>15. CASE HandleStartFails
  BY <1>0, <1>15 DEF HandleStartFails, MayStart, FutureInv, DraftInv, CardInv,
     AudioIsReachable, Calm, InHand
<1>16. CASE HandlePause
  BY <1>0, <1>16 DEF HandlePause, FutureInv, DraftInv, CardInv,
     AudioIsReachable, Calm, InHand
<1>17. CASE HandleResume
  BY <1>0, <1>17 DEF HandleResume, FutureInv, DraftInv, CardInv,
     AudioIsReachable, Calm, InHand
<1>18. CASE Stop
  BY <1>0, <1>18 DEF Stop, BeginClose, FutureInv, DraftInv, CardInv,
     AudioIsReachable, Calm, InHand
<1>19. CASE Discard
  BY <1>0, <1>19 DEF Discard, BeginClose, FutureInv, DraftInv, CardInv,
     AudioIsReachable, Calm, InHand
<1>20. CASE OpenScreen
  BY <1>0, <1>20 DEF OpenScreen, RecoverableDraft, FutureInv, DraftInv,
     CardInv, AudioIsReachable, Calm, InHand
<1>21. CASE TranscribeCard
  <2>1. ServiceInv' /\ CloseInv' /\ ThreadInv'
    BY <1>0, <1>21 DEF TranscribeCard
  <2>2. FutureInv'
    BY <1>0, <1>21 DEF TranscribeCard, GiveToQueue, FutureInv, DraftInv
  <2>3. DraftInv'
    BY <1>0, <1>21 DEF TranscribeCard, GiveToQueue, DraftInv
  <2>4. CardInv'
    BY <1>0, <1>21 DEF TranscribeCard, GiveToQueue, CardInv
  <2>5. AudioIsReachable'
    <3> SUFFICES ASSUME Calm', NEW f \in Files, audio[f] = "audio", fate'[f] = "none"
                 PROVE  InHand(f)'
      BY <1>21 DEF TranscribeCard, AudioIsReachable
    <3>1. Calm /\ (audio[screen.card] = "audio" => fate' = [fate EXCEPT ![screen.card] = "given"])
      BY <1>21 DEF TranscribeCard, GiveToQueue, Calm
    <3>2. fate[f] = "none" /\ f # screen.card
      BY <1>21, <3>1 DEF TranscribeCard
    <3>3. journal.file # f /\ session.file # f
      BY <1>21, <3>2 DEF TranscribeCard, DraftInv
    <3> QED
      BY <1>21, <3>1, <3>2, <3>3 DEF TranscribeCard, AudioIsReachable, InHand
  <2> QED
    BY <1>0, <2>1, <2>2, <2>3, <2>4, <2>5
<1>22. CASE DiscardCard
  <2>1. ServiceInv'
    BY <1>0, <1>22 DEF DiscardCard
  <2>2. CloseInv'
    BY <1>0, <1>22 DEF DiscardCard
  <2>3. ThreadInv'
    BY <1>0, <1>22 DEF DiscardCard
  <2>4. FutureInv'
    BY <1>0, <1>22 DEF DiscardCard, FutureInv, DraftInv
  <2>5. DraftInv'
    BY <1>0, <1>22 DEF DiscardCard, DraftInv, FutureInv
  <2>6. CardInv'
    BY <1>0, <1>22 DEF DiscardCard, CardInv, Calm, DraftInv, FutureInv
  <2>7. AudioIsReachable'
    BY <1>0, <1>22 DEF DiscardCard, AudioIsReachable, Calm, InHand, CardInv,
       DraftInv, FutureInv
  <2> QED
    BY <1>0, <2>1, <2>2, <2>3, <2>4, <2>5, <2>6, <2>7
<1>23. CASE TranscribeCompleted
  BY <1>0, <1>23 DEF TranscribeCompleted, GiveToQueue, FutureInv, DraftInv,
     CardInv, AudioIsReachable, Calm, InHand
<1>24. CASE TranscribePreserved
  <2>1. ServiceInv'
    BY <1>0, <1>24 DEF TranscribePreserved, GiveToQueue
  <2>2. CloseInv'
    BY <1>0, <1>24 DEF TranscribePreserved, GiveToQueue
  <2>3. ThreadInv'
    BY <1>0, <1>24 DEF TranscribePreserved, GiveToQueue
  <2>4. FutureInv'
    BY <1>0, <1>24 DEF TranscribePreserved, GiveToQueue, FutureInv, DraftInv
  <2>5. DraftInv'
    BY <1>0, <1>24 DEF TranscribePreserved, GiveToQueue, DraftInv, FutureInv
  <2>6. CardInv'
    BY <1>0, <1>24 DEF TranscribePreserved, GiveToQueue, CardInv, Calm,
       DraftInv, FutureInv
  <2>7. AudioIsReachable'
    <3> SUFFICES ASSUME Calm', NEW f \in Files, audio[f] = "audio", fate'[f] = "none"
                 PROVE  journal'.file = f \/ session'.file = f \/ screen'.card = f \/ InHand(f)'
      BY <1>24 DEF TranscribePreserved, AudioIsReachable
    <3>1. Calm /\ fate' = [fate EXCEPT ![session.file] = "given"]
      BY <1>24 DEF TranscribePreserved, GiveToQueue, Calm
    <3>2. fate[f] = "none" /\ f # session.file
      BY <3>1
    <3>3. f = journal.file \/ f = screen.card \/ InHand(f)
      BY <3>1, <3>2 DEF AudioIsReachable
    <3>4. journal.file = session.file
      BY <1>24 DEF TranscribePreserved, DraftInv
    <3>5. screen.card # f
      BY <1>24, <3>1, <3>2 DEF TranscribePreserved, CardInv
    <3> QED
      BY <1>24, <3>2, <3>3, <3>4, <3>5 DEF TranscribePreserved, InHand
  <2> QED
    BY <1>0, <2>1, <2>2, <2>3, <2>4, <2>5, <2>6, <2>7
<1>25. CASE DismissError
  <2>1. ServiceInv'
    BY <1>0, <1>25 DEF DismissError, ThrowAway
  <2>2. CloseInv'
    BY <1>0, <1>25 DEF DismissError, ThrowAway
  <2>3. ThreadInv'
    BY <1>0, <1>25 DEF DismissError, ThrowAway
  <2>4. FutureInv'
    BY <1>0, <1>25 DEF DismissError, ThrowAway, FutureInv, DraftInv
  <2>5. DraftInv'
    BY <1>0, <1>25 DEF DismissError, ThrowAway, DraftInv, FutureInv
  <2>6. CardInv'
    BY <1>0, <1>25 DEF DismissError, ThrowAway, CardInv, Calm, DraftInv,
       FutureInv
  <2>7. AudioIsReachable'
    BY <1>0, <1>25 DEF DismissError, ThrowAway, AudioIsReachable, Calm,
       InHand, CardInv, DraftInv, FutureInv
  <2> QED
    BY <1>0, <2>1, <2>2, <2>3, <2>4, <2>5, <2>6, <2>7
<1>26. CASE StorageChanges
  BY <1>0, <1>26 DEF StorageChanges, FutureInv, DraftInv, CardInv,
     AudioIsReachable, Calm, InHand
<1>27. CASE ProcessDies
  <2>1. ServiceInv'
    BY <1>0, <1>27 DEF ProcessDies
  <2>2. CloseInv'
    BY <1>0, <1>27 DEF ProcessDies
  <2>3. ThreadInv'
    BY <1>0, <1>27 DEF ProcessDies
  <2>4. FutureInv'
    BY <1>0, <1>27 DEF ProcessDies, FutureInv, DraftInv
  <2>5. DraftInv'
    BY <1>0, <1>27 DEF ProcessDies, DraftInv, FutureInv
  <2>6. CardInv'
    BY <1>0, <1>27 DEF ProcessDies, CardInv, Calm, DraftInv, FutureInv
  <2>7. AudioIsReachable'
    <3> SUFFICES ASSUME Calm', NEW f \in Files, audio[f] = "audio", fate[f] = "none"
                 PROVE  journal'.file = f
      BY <1>27 DEF ProcessDies, AudioIsReachable
    <3>1. Calm /\ session.status # "COMPLETED"
      BY <1>27 DEF ProcessDies, Calm
    <3>2. f = journal.file \/ f = session.file \/ f = screen.card \/ InHand(f)
      BY <3>1 DEF AudioIsReachable
    <3>3. f = session.file \/ InHand(f) => f = journal.file
      BY <3>1 DEF InHand, DraftInv
    <3>4. f = screen.card => f = journal.file
      BY <3>1, <3>3 DEF CardInv
    <3> QED
      BY <1>27, <3>2, <3>3, <3>4 DEF ProcessDies
  <2> QED
    BY <1>0, <2>1, <2>2, <2>3, <2>4, <2>5, <2>6, <2>7
<1>28. CASE UNCHANGED vars
  BY <1>0, <1>28 DEF vars, FutureInv, DraftInv, CardInv, AudioIsReachable, Calm, InHand
<1> QED
  BY <1>1, <1>2, <1>3, <1>4, <1>5, <1>6, <1>7, <1>8, <1>9, <1>10, <1>11,
     <1>12, <1>13, <1>14, <1>15, <1>16, <1>17, <1>18, <1>19, <1>20, <1>21,
     <1>22, <1>23, <1>24, <1>25, <1>26, <1>27, <1>28 DEF Next, MainStep,
     BackgroundStep, UserStep
-----------------------------------------------------------------------------
(* What follows from it.                                                   *)

\* The inductive invariant holds in every reachable state, whatever
\* recordings, deaths and troubles there are.
THEOREM Invariance == Spec => []IInv
<1>1. Init => IInv
  BY InitIInv
<1>2. IInv /\ [Next]_vars => IInv'
  BY StepIInv
<1> QED
  BY <1>1, <1>2, PTL DEF Spec

\* The variables have their types: no handler leaves a draft, a session or a
\* recorder that no reader of it knows.
THEOREM TypeCorrect == Spec => []TypeOK
<1>1. IInv => TypeOK
  BY DEF IInv
<1> QED
  BY <1>1, Invariance, PTL

\* As long as no trouble has happened, audio that the user has not done with is
\* in the draft on the disk, on the screen, or being recorded: whenever the
\* process dies and in whatever order handlers, ticker and writer run.
THEOREM NothingLost == Spec => []AudioIsReachable
<1>1. IInv => AudioIsReachable
  BY DEF IInv
<1> QED
  BY <1>1, Invariance, PTL

\* When nothing is being recorded the microphone is free, but for recorders
\* whose write has failed, and one healthy recorder at most has it.
THEOREM MicIsReleased == Spec => []MicReleased
<1>1. IInv => MicReleased
  BY Constants DEF IInv, TypeOK, ServiceInv, CloseInv, ThreadInv, MicReleased, MainIsFree
<1> QED
  BY <1>1, Invariance, PTL

\* The draft on the disk is never one that the user has done with: no late
\* heartbeat brings it back.
THEOREM DraftsAreOpen == Spec => []DraftIsOpen
<1>1. IInv => DraftIsOpen
  BY DEF IInv, DraftInv, DraftIsOpen
<1> QED
  BY <1>1, Invariance, PTL

\* A step that deletes audio is the user's discarding of that very recording.
LEMMA StepDeletes ==
    ASSUME IInv, [Next]_vars, NEW f \in Files, audio[f] = "audio", audio'[f] = "absent"
    PROVE  fate'[f] = "discarded"
<1> USE Constants DEF IInv, TypeOK, NoFile, disk
<1>1. CASE HandleStop \/ HandleError
  BY <1>1 DEF HandleStop, HandleError, PreserveDraft
<1>2. CASE HandleDiscard
  <2>1. f \in {journal.file, outputFile} /\ main.doing = "discard"
    BY <1>2 DEF HandleDiscard, EndClose
  <2>2. session.status # "IDLE"
    BY <2>1 DEF CloseInv
  <2>3. f = session.file
    BY <2>1, <2>2 DEF ServiceInv, DraftInv, NoDraft, MainIsFree, Files, Sessions
  <2>4. fate[f] = "none"
    BY <2>1, <2>3 DEF ServiceInv, DraftInv, NoDraft, MainIsFree, Files
  <2> QED
    BY <1>2, <2>3, <2>4 DEF HandleDiscard, ThrowAway
<1>3. CASE DiscardCard
  BY <1>3 DEF DiscardCard, DraftInv
<1>4. CASE HandleStart
  BY <1>4 DEF HandleStart
<1>5. ASSUME NEW g \in Files, Write(g) PROVE fate'[f] = "discarded"
  BY <1>5 DEF Write
<1>6. CASE UNCHANGED audio
  BY <1>6
<1> QED
  BY <1>1, <1>2, <1>3, <1>4, <1>5, <1>6
  DEF Next, MainStep, BackgroundStep, UserStep, vars, disk,
      RecorderReportsError, OnDestroy, WatchdogHalts, Tick, UpdateHeartbeat, Watchdog,
      WriteFails, ReportFailure, WriterEnds, HandleStartFails, HandlePause, HandleResume,
      Stop, Discard, OpenScreen, TranscribeCard, TranscribeCompleted,
      TranscribePreserved, DismissError, StorageChanges, ProcessDies

\* Audio is deleted only when the user discards that very recording, although
\* handleDiscard deletes what the journal and outputFile name and the card's
\* button what the journal names: both are the recording on the screen.
THEOREM OnlyDiscarded == Spec => OnlyDiscardedIsDeleted
<1>1. IInv /\ [Next]_vars =>
          [\A f \in Files : audio[f] = "audio" /\ audio'[f] = "absent"
                               => fate'[f] = "discarded"]_vars
  BY StepDeletes
<1> QED
  BY <1>1, Invariance, PTL DEF Spec, OnlyDiscardedIsDeleted
=============================================================================
