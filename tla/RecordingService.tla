-------------------------- MODULE RecordingService --------------------------
(***************************************************************************)
(* Recording: RecordingForegroundService with its CrashSafeAudioRecorder,  *)
(* the RecordingDraftJournal, the session store and the screen that shows  *)
(* them.                                                                   *)
(*                                                                         *)
(* Service, ticker and screen run on the main thread, which blocks while a *)
(* recorder is closed; a writer thread appends to the file; the ticker's   *)
(* heartbeat runs on an I/O thread that cancelling the ticker does not     *)
(* stop.  The disk survives the process.  Durations, amplitudes,           *)
(* notifications and the WAV header, which every reader repairs, are left  *)
(* out.  Every recording has a file of its own, numbered in order.         *)
(***************************************************************************)
EXTENDS Integers

CONSTANTS
    Recordings,     \* how many recordings are started
    Deaths,         \* how often the process may die
    Troubles        \* what may happen besides

AllTroubles ==
    {"writeFails",      \* a write fails, or the file reaches the RIFF limit
     "diesAfterStop",   \* the process dies with a completed recording on screen
     "ignoresCard",     \* a new recording is started in spite of a shown draft
     "queueRefuses"}    \* the queue refuses the file (free limit, database)

ASSUME RecordingAssumption ==
    /\ Recordings \in Nat /\ Deaths \in Nat
    /\ Troubles \subseteq AllTroubles

Files == 1..Recordings

NoFile == 0

VARIABLES
    \* disk
    audio,          \* "absent", "header" or "audio", for every file
    journal,        \* active_recording_draft.json: file and status
    storage,        \* free space: "enough" or "low"
    \* process
    session,        \* RecordingSessionStore: status and file
    service,        \* the service instance: "none", "alive", "stopping"
    isRecording,
    isPaused,
    outputFile,
    recorder,       \* crashSafeRecorder, named by its file
    main,           \* what the main thread is doing, and the recorder it closes
    scope,          \* the recorder whose errors the instance's serviceScope takes
    posted,         \* recorders whose error waits on the main thread
    ticker,         \* tickerJob is active
    io,             \* the ticker's work off the main thread, the isPaused it was
                    \* given, and whether its ticker is not cancelled
    screen,         \* RecordScreen: open, and recoverableDraft
    \* recorders, by file
    capturing,      \* isRecording
    failed,         \* hasWriteError
    mic,            \* AudioRecord not released
    writer,         \* the writer thread
    \* observation only
    fate,           \* what the user has done with a recording
    started, deaths,
    troubled        \* the queue refused, a card was ignored, or a completed
                    \* recording was on the screen when the process died

disk     == <<audio, journal>>
instance == <<service, isRecording, isPaused, outputFile, recorder, scope>>
threads  == <<capturing, failed, mic, writer>>
budget   == <<started, deaths, troubled>>

vars == <<disk, storage, session, instance, main, posted, ticker, io, screen,
          threads, fate, budget>>

NoDraft == [file |-> NoFile, status |-> "NONE"]

Idle == [status |-> "IDLE", file |-> NoFile]

NotClosing == [doing |-> "nothing", rec |-> NoFile]

NoIo == [doing |-> "nothing", paused |-> FALSE, live |-> FALSE]

Closed == [open |-> FALSE, card |-> NoFile]

Drafts == [file : Files \cup {NoFile},
           status : {"NONE", "RECORDING", "PAUSED", "INTERRUPTED"}]

Sessions == [status : {"IDLE", "RECORDING", "PAUSED", "COMPLETED", "ERROR"},
             file : Files \cup {NoFile}]

MainWork == [doing : {"nothing", "stop", "discard", "error"}, rec : Files \cup {NoFile}]

IoWork == [doing : {"nothing", "beat", "watch", "halt"}, paused : BOOLEAN, live : BOOLEAN]

Screens == [open : BOOLEAN, card : Files \cup {NoFile}]

TypeOK ==
    /\ audio \in [Files -> {"absent", "header", "audio"}]
    /\ journal \in Drafts
    /\ journal.file = NoFile <=> journal = NoDraft
    /\ storage \in {"enough", "low"}
    /\ session \in Sessions
    /\ service \in {"none", "alive", "stopping"}
    /\ isRecording \in BOOLEAN
    /\ isPaused \in BOOLEAN
    /\ outputFile \in Files \cup {NoFile}
    /\ recorder \in Files \cup {NoFile}
    /\ main \in MainWork
    /\ scope \in Files \cup {NoFile}
    /\ posted \subseteq Files
    /\ ticker \in BOOLEAN
    /\ io \in IoWork
    /\ screen \in Screens
    /\ capturing \subseteq Files
    /\ failed \subseteq Files
    /\ mic \subseteq Files
    /\ writer \in [Files -> {"none", "loop", "failing", "ended"}]
    /\ fate \in [Files -> {"none", "given", "discarded", "dismissed"}]
    /\ started \in 0..Recordings
    /\ deaths \in 0..Deaths
    /\ troubled \in BOOLEAN

Init ==
    /\ audio = [f \in Files |-> "absent"]
    /\ journal = NoDraft
    /\ storage = "enough"
    /\ session = Idle
    /\ service = "none"
    /\ isRecording = FALSE
    /\ isPaused = FALSE
    /\ outputFile = NoFile
    /\ recorder = NoFile
    /\ scope = NoFile
    /\ main = NotClosing
    /\ posted = {}
    /\ ticker = FALSE
    /\ io = NoIo
    /\ screen = Closed
    /\ capturing = {}
    /\ failed = {}
    /\ mic = {}
    /\ writer = [f \in Files |-> "none"]
    /\ fate = [f \in Files |-> "none"]
    /\ started = 0
    /\ deaths = 0
    /\ troubled = FALSE

MainIsFree == main.doing = "nothing"

\* The user has done with the recording that is shown.
ThrowAway(how) ==
    fate' = [f \in Files |-> IF f = session.file /\ fate[f] = "none"
                             THEN how ELSE fate[f]]
-----------------------------------------------------------------------------
(* Closing a recorder: stop() and release() block the main thread until    *)
(* the writer has ended.                                                   *)

\* The first half of handleStop, handleDiscard and handleError.  stop() of a
\* recorder whose writer has given up fails at once, and handleStop turns to
\* handleError with no recorder left to release.  The ticker is cancelled: what it
\* has under way off the main thread still runs, but does not come back.
BeginClose(handler) ==
    /\ MainIsFree
    /\ main' = IF handler = "stop" /\ recorder \notin capturing
               THEN [doing |-> "error", rec |-> NoFile]
               ELSE [doing |-> handler, rec |-> recorder]
    /\ recorder' = NoFile
    /\ capturing' = capturing \ {recorder}
    /\ ticker' = FALSE
    /\ io' = IF io.doing \in {"beat", "watch"} THEN [io EXCEPT !.live = FALSE] ELSE NoIo

\* The second half: the AudioRecord is released, the stream closed.
EndClose(handler) ==
    /\ main.doing = handler
    /\ main.rec # NoFile => writer[main.rec] = "ended"
    /\ mic' = mic \ {main.rec}
    /\ main' = NotClosing
    /\ isRecording' = FALSE
    /\ isPaused' = FALSE
    /\ service' = "stopping"
    /\ UNCHANGED <<storage, recorder, scope, posted, ticker, io, screen, capturing, failed,
                   writer, budget>>

\* Faulty: a draft is written whatever there is to keep.
PreserveAlways ==
    /\ journal' = [file |-> outputFile, status |-> "INTERRUPTED"]
    /\ session' = [status |-> "ERROR", file |-> outputFile]
    /\ outputFile' = NoFile
    /\ UNCHANGED audio

\* The rest of handleError: keep audio, drop an empty file.
PreserveDraft ==
    LET kept == outputFile # NoFile /\ audio[outputFile] = "audio"
    IN  /\ journal' = IF kept THEN [file |-> outputFile, status |-> "INTERRUPTED"]
                              ELSE NoDraft
        /\ audio' = IF kept \/ outputFile = NoFile THEN audio
                    ELSE [audio EXCEPT ![outputFile] = "absent"]
        /\ session' = [status |-> "ERROR",
                       file |-> IF kept THEN outputFile ELSE NoFile]
        /\ outputFile' = NoFile

HandleError == EndClose("error") /\ PreserveDraft /\ UNCHANGED fate

\* Faulty: complete() leaves the journal.
StopKeepsJournal ==
    /\ EndClose("stop")
    /\ IF main.rec \in failed
       THEN PreserveDraft
       ELSE /\ session' = [status |-> "COMPLETED", file |-> outputFile]
            /\ UNCHANGED <<disk, outputFile>>
    /\ UNCHANGED fate

\* handleStop; outputFile is kept.
HandleStop ==
    /\ EndClose("stop")
    /\ IF main.rec \in failed
       THEN PreserveDraft
       ELSE /\ journal' = NoDraft
            /\ session' = [status |-> "COMPLETED", file |-> outputFile]
            /\ UNCHANGED <<audio, outputFile>>
    /\ UNCHANGED fate

\* Faulty: the recorder is dropped without being released.
DiscardKeepsMic ==
    /\ main.doing = "discard"
    /\ main.rec # NoFile => writer[main.rec] = "ended"
    /\ main' = NotClosing
    /\ isRecording' = FALSE
    /\ isPaused' = FALSE
    /\ service' = "stopping"
    /\ audio' = [f \in Files |->
                    IF f \in {journal.file, outputFile} THEN "absent" ELSE audio[f]]
    /\ journal' = NoDraft
    /\ outputFile' = NoFile
    /\ session' = Idle
    /\ ThrowAway("discarded")
    /\ UNCHANGED <<storage, recorder, scope, posted, ticker, io, screen, threads, budget>>

\* handleDiscard deletes what the journal and outputFile name.
HandleDiscard ==
    /\ EndClose("discard")
    /\ audio' = [f \in Files |->
                    IF f \in {journal.file, outputFile} THEN "absent" ELSE audio[f]]
    /\ journal' = NoDraft
    /\ outputFile' = NoFile
    /\ session' = Idle
    /\ ThrowAway("discarded")
-----------------------------------------------------------------------------
(* The service's other handlers.                                           *)

\* The button is offered on the idle screen.  The intent reaches an instance
\* that is not being destroyed.
MayStart ==
    /\ MainIsFree
    /\ screen.open
    /\ session.status = "IDLE"
    /\ service # "stopping"
    /\ ~isRecording
    /\ "ignoresCard" \notin Troubles => screen.card = NoFile

\* handleStart: the journal is written before capture starts.
HandleStart ==
    LET f == started + 1
    IN  /\ MayStart
        /\ storage = "enough"
        /\ f \in Files
        /\ started' = f
        /\ troubled' = (troubled \/ screen.card # NoFile)
        /\ service' = "alive"
        /\ outputFile' = f
        /\ journal' = [file |-> f, status |-> "RECORDING"]
        /\ audio' = [audio EXCEPT ![f] = "header"]
        /\ capturing' = capturing \cup {f}
        /\ mic' = mic \cup {f}
        /\ writer' = [writer EXCEPT ![f] = "loop"]
        /\ recorder' = f
        /\ scope' = f
        /\ isRecording' = TRUE
        /\ isPaused' = FALSE
        /\ session' = [status |-> "RECORDING", file |-> f]
        /\ ticker' = TRUE
        /\ UNCHANGED <<storage, main, posted, io, screen, failed, fate, deaths>>

\* handleStart fails before or after it has written the journal, and
\* handleError finds no audio: either way no draft is left.
HandleStartFails ==
    /\ MayStart
    /\ troubled' = (troubled \/ screen.card # NoFile)
    /\ service' = "stopping"
    /\ journal' = NoDraft
    /\ session' = [status |-> "ERROR", file |-> NoFile]
    /\ UNCHANGED <<audio, storage, isRecording, isPaused, outputFile, recorder, scope,
                   main, posted, ticker, io, screen, threads, fate, started, deaths>>

HandlePause ==
    /\ MainIsFree
    /\ isRecording /\ ~isPaused
    /\ isPaused' = TRUE
    /\ session' = [session EXCEPT !.status = "PAUSED"]
    /\ UNCHANGED <<disk, storage, service, isRecording, outputFile, recorder, scope,
                   main, posted, ticker, io, screen, threads, fate, budget>>

HandleResume ==
    /\ MainIsFree
    /\ isRecording /\ isPaused
    /\ isPaused' = FALSE
    /\ session' = [session EXCEPT !.status = "RECORDING"]
    /\ UNCHANGED <<disk, storage, service, isRecording, outputFile, recorder, scope,
                   main, posted, ticker, io, screen, threads, fate, budget>>

\* The stop button, the notification's action, or onTimeout.
Stop ==
    /\ isRecording
    /\ BeginClose("stop")
    /\ UNCHANGED <<disk, storage, session, service, isRecording, isPaused, outputFile,
                   scope, posted, screen, failed, mic, writer, fate, budget>>

\* The confirmed dialog; the intent may have to create the service again.
Discard ==
    /\ screen.open
    /\ session.status # "IDLE"
    /\ service # "stopping"
    /\ BeginClose("discard")
    /\ service' = "alive"
    /\ UNCHANGED <<disk, storage, session, isRecording, isPaused, outputFile, scope,
                   posted, screen, failed, mic, writer, fate, budget>>

\* onErrorListener's coroutine on the main thread.
RecorderReportsError ==
    \E f \in posted :
        /\ posted' = posted \ {f}
        /\ BeginClose("error")
        /\ UNCHANGED <<disk, storage, session, service, isRecording, isPaused,
                       outputFile, scope, screen, failed, mic, writer, fate, budget>>

\* onDestroy after stopSelf(); the scope is cancelled with what is posted.
OnDestroy ==
    /\ MainIsFree
    /\ service = "stopping"
    /\ service' = "none"
    /\ outputFile' = NoFile
    /\ scope' = NoFile
    /\ posted' = {}
    /\ UNCHANGED <<disk, storage, session, isRecording, isPaused, recorder, main,
                   ticker, io, screen, threads, fate, budget>>
-----------------------------------------------------------------------------
(* The ticker.                                                             *)

\* Once a second, while it runs, the ticker hands its heartbeat to Dispatchers.IO.
Tick ==
    /\ MainIsFree
    /\ ticker
    /\ io = NoIo
    /\ io' = [doing |-> "beat", paused |-> isPaused, live |-> TRUE]
    /\ UNCHANGED <<disk, storage, session, instance, main, posted, ticker, screen,
                   threads, fate, budget>>

\* Faulty: the draft is written as the ticker knows it.
WriteHeartbeat ==
    /\ io.doing = "beat"
    /\ session.file # NoFile
    /\ journal' = [file |-> session.file,
                   status |-> IF io.paused THEN "PAUSED" ELSE "RECORDING"]
    /\ io' = [io EXCEPT !.doing = "watch"]
    /\ UNCHANGED <<audio, storage, session, instance, main, posted, ticker, screen,
                   threads, fate, budget>>

\* updateHeartbeat rewrites the draft it reads under the lock, if there is one.
UpdateHeartbeat ==
    /\ io.doing = "beat"
    /\ journal' = IF journal = NoDraft THEN journal
                  ELSE [journal EXCEPT !.status = IF io.paused THEN "PAUSED"
                                                               ELSE "RECORDING"]
    /\ io' = [io EXCEPT !.doing = "watch"]
    /\ UNCHANGED <<audio, storage, session, instance, main, posted, ticker, screen,
                   threads, fate, budget>>

\* The watchdog; with the ticker cancelled it cannot return to the main thread.
Watchdog ==
    /\ io.doing = "watch"
    /\ io' = IF storage = "low" /\ outputFile # NoFile /\ io.live
             THEN [io EXCEPT !.doing = "halt"] ELSE NoIo
    /\ UNCHANGED <<disk, storage, session, instance, main, posted, ticker, screen,
                   threads, fate, budget>>

\* "Recording stopped: Storage space exhausted."
WatchdogHalts ==
    /\ io.doing = "halt"
    /\ BeginClose("error")
    /\ UNCHANGED <<disk, storage, session, service, isRecording, isPaused, outputFile,
                   scope, posted, screen, failed, mic, writer, fate, budget>>
-----------------------------------------------------------------------------
(* The writer thread of the recorder of file f.                            *)

\* A write may still be under way when the recorder is being stopped.
Write(f) ==
    /\ writer[f] = "loop"
    /\ ~isPaused
    /\ audio[f] = "header"
    /\ audio' = [audio EXCEPT ![f] = "audio"]
    /\ UNCHANGED <<journal, storage, session, instance, main, posted, ticker, io,
                   screen, threads, fate, budget>>

WriteFails(f) ==
    /\ "writeFails" \in Troubles
    /\ writer[f] = "loop"
    /\ ~isPaused
    /\ failed' = failed \cup {f}
    /\ capturing' = capturing \ {f}
    /\ writer' = [writer EXCEPT ![f] = "failing"]
    /\ UNCHANGED <<disk, storage, session, instance, main, posted, ticker, io, screen,
                   mic, fate, budget>>

\* Faulty: the writer ends without a word.
EndSilently(f) ==
    /\ writer[f] = "failing"
    /\ writer' = [writer EXCEPT ![f] = "ended"]
    /\ UNCHANGED <<disk, storage, session, instance, main, posted, ticker, io, screen,
                   capturing, failed, mic, fate, budget>>

\* onErrorListener launches in the scope of the service, if it still exists.
ReportFailure(f) ==
    /\ writer[f] = "failing"
    /\ writer' = [writer EXCEPT ![f] = "ended"]
    /\ posted' = IF scope = f THEN posted \cup {f} ELSE posted
    /\ UNCHANGED <<disk, storage, session, instance, main, ticker, io, screen,
                   capturing, failed, mic, fate, budget>>

WriterEnds(f) ==
    /\ writer[f] = "loop"
    /\ f \notin capturing
    /\ writer' = [writer EXCEPT ![f] = "ended"]
    /\ UNCHANGED <<disk, storage, session, instance, main, posted, ticker, io, screen,
                   capturing, failed, mic, fate, budget>>
-----------------------------------------------------------------------------
(* The screen.                                                             *)

\* Faulty: only a draft marked as interrupted counts.
InterruptedDraft ==
    IF journal.status = "INTERRUPTED" /\ audio[journal.file] = "audio"
    THEN journal.file ELSE NoFile

\* getRecoverableDraft: a draft in any status, with audio in its file.
RecoverableDraft ==
    IF journal # NoDraft /\ audio[journal.file] = "audio" THEN journal.file ELSE NoFile

\* The draft is read when the screen is composed, and remembered.
OpenScreen ==
    /\ MainIsFree
    /\ screen' = [open |-> TRUE, card |-> RecoverableDraft]
    /\ UNCHANGED <<disk, storage, session, instance, main, posted, ticker, io, threads,
                   fate, budget>>

\* onTranscribe: the screen is left, the file enqueued, which may fail.
GiveToQueue(f) ==
    /\ screen' = Closed
    /\ \/ fate' = [fate EXCEPT ![f] = "given"] /\ UNCHANGED troubled
       \/ "queueRefuses" \in Troubles /\ UNCHANGED fate /\ troubled' = TRUE

\* "Transcribe" on the card of a recovered draft.
TranscribeCard ==
    /\ MainIsFree
    /\ screen.open /\ screen.card # NoFile
    /\ session.status = "IDLE"
    /\ journal' = NoDraft
    /\ IF audio[screen.card] = "audio"
       THEN GiveToQueue(screen.card)
       ELSE screen' = [screen EXCEPT !.card = NoFile] /\ UNCHANGED <<fate, troubled>>
    /\ UNCHANGED <<audio, storage, session, instance, main, posted, ticker, io, threads,
                   started, deaths>>

\* "Discard" on the card: what the journal names is deleted.
DiscardCard ==
    /\ MainIsFree
    /\ screen.open /\ screen.card # NoFile
    /\ session.status = "IDLE"
    /\ audio' = [f \in Files |-> IF f = journal.file THEN "absent" ELSE audio[f]]
    /\ journal' = NoDraft
    /\ fate' = [fate EXCEPT ![screen.card] = "discarded"]
    /\ screen' = [screen EXCEPT !.card = NoFile]
    /\ UNCHANGED <<storage, session, instance, main, posted, ticker, io, threads, budget>>

\* "Transcribe Audio": the session stays COMPLETED.
TranscribeCompleted ==
    /\ MainIsFree
    /\ screen.open
    /\ session.status = "COMPLETED"
    /\ session.file # NoFile
    /\ audio[session.file] = "audio"
    /\ GiveToQueue(session.file)
    /\ UNCHANGED <<disk, storage, session, instance, main, posted, ticker, io, threads,
                   started, deaths>>

\* "Transcribe Preserved Audio"
TranscribePreserved ==
    /\ MainIsFree
    /\ screen.open
    /\ session.status = "ERROR"
    /\ session.file # NoFile
    /\ audio[session.file] = "audio"
    /\ journal' = NoDraft
    /\ session' = Idle
    /\ GiveToQueue(session.file)
    /\ UNCHANGED <<audio, storage, instance, main, posted, ticker, io, threads, started, deaths>>

\* "Dismiss & Try Again"
DismissError ==
    /\ MainIsFree
    /\ screen.open
    /\ session.status = "ERROR"
    /\ journal' = NoDraft
    /\ session' = Idle
    /\ ThrowAway("dismissed")
    /\ UNCHANGED <<audio, storage, instance, main, posted, ticker, io, screen, threads,
                   budget>>
-----------------------------------------------------------------------------
(* Around it.                                                              *)

StorageChanges ==
    /\ storage' \in {"enough", "low"} \ {storage}
    /\ UNCHANGED <<disk, session, instance, main, posted, ticker, io, screen, threads,
                   fate, budget>>

\* The process dies; the disk stays.
ProcessDies ==
    /\ deaths < Deaths
    /\ session.status = "COMPLETED" => "diesAfterStop" \in Troubles
    /\ deaths' = deaths + 1
    /\ troubled' = (troubled \/ session.status = "COMPLETED")
    /\ session' = Idle
    /\ service' = "none"
    /\ isRecording' = FALSE
    /\ isPaused' = FALSE
    /\ outputFile' = NoFile
    /\ recorder' = NoFile
    /\ scope' = NoFile
    /\ main' = NotClosing
    /\ posted' = {}
    /\ ticker' = FALSE
    /\ io' = NoIo
    /\ screen' = Closed
    /\ capturing' = {}
    /\ mic' = {}
    /\ writer' = [f \in Files |-> IF writer[f] = "none" THEN "none" ELSE "ended"]
    /\ UNCHANGED <<disk, storage, failed, fate, started>>

MainStep ==
    \/ HandleStop \/ HandleError \/ HandleDiscard
    \/ RecorderReportsError \/ OnDestroy \/ WatchdogHalts

BackgroundStep ==
    \/ Tick \/ UpdateHeartbeat \/ Watchdog
    \/ \E f \in Files :
          Write(f) \/ WriteFails(f) \/ ReportFailure(f) \/ WriterEnds(f)

UserStep ==
    \/ HandleStart \/ HandleStartFails \/ HandlePause \/ HandleResume \/ Stop \/ Discard
    \/ OpenScreen \/ TranscribeCard \/ DiscardCard \/ TranscribeCompleted
    \/ TranscribePreserved \/ DismissError

Next == MainStep \/ BackgroundStep \/ UserStep \/ StorageChanges \/ ProcessDies

Spec == Init /\ [][Next]_vars

\* The main thread runs what waits for it, and a writer ends or reports.
FairSpec ==
    /\ Spec
    /\ WF_vars(MainStep)
    /\ \A f \in Files : WF_vars(ReportFailure(f) \/ WriterEnds(f))
-----------------------------------------------------------------------------
(* What must be true.                                                      *)

\* The recorder the service has, or is closing, belongs to its outputFile.
InHand(f) == f = outputFile /\ (isRecording \/ ~MainIsFree)

\* Nothing of AllTroubles has happened.
Calm == ~troubled /\ failed = {}

\* As long as nothing of AllTroubles has happened, audio that the user has
\* neither given to the queue nor thrown away can be reached: it is in the
\* journal, shown on the screen, or being recorded.
AudioIsReachable ==
    Calm => \A f \in Files :
        audio[f] = "audio" /\ fate[f] = "none"
            => \/ journal.file = f
               \/ session.file = f
               \/ screen.card = f
               \/ InHand(f)

\* "handleError() preserves audio file if bytes were written and writes an
\* interrupted draft" (docs/IMPLEMENTATION_PROGRESS.md): a shown error does
\* not lose the audio of a failed recorder.
ErrorKeepsDraft ==
    \A f \in failed :
        /\ session.status = "ERROR" /\ MainIsFree
        /\ audio[f] = "audio" /\ fate[f] = "none" /\ started = f
        => journal.file = f

\* "This recording will be permanently deleted" (RecordScreen).
DiscardedIsDeleted ==
    \A f \in Files : fate[f] = "discarded" => audio[f] # "audio"

\* A late heartbeat, or any other write, brings no draft back: the journal
\* names no recording that the user has done with.
DraftIsOpen ==
    MainIsFree /\ journal # NoDraft => fate[journal.file] = "none"

\* When nothing is being recorded the microphone is free, unless a write has
\* failed, and there is one healthy recorder at most.
MicReleased ==
    /\ MainIsFree /\ ~isRecording => mic \subseteq failed
    /\ \A f, g \in mic \ failed : f = g

\* Audio is deleted only when the user discards that very recording, whatever
\* draft the screen still shows.
OnlyDiscardedIsDeleted ==
    [][\A f \in Files : audio[f] = "audio" /\ audio'[f] = "absent"
                            => fate'[f] = "discarded"]_vars

\* The failure of a writer does not leave the screen in a recording state.
FailureIsShown ==
    \A f \in Files :
        f \in failed /\ session.file = f ~>
            session.file # f \/ session.status \notin {"RECORDING", "PAUSED"}
=============================================================================
