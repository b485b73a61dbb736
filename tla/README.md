# Formal models of Offline Transcriber

Offline Transcriber is an Android application (Kotlin, package
`app.offlinetranscriber.mobile`) that records or imports audio, transcribes it on the phone with
whisper.cpp and keeps the transcripts in a Room database. This directory holds TLA+ models of the
parts of it whose correctness depends on the order in which things happen, the TLC runs that check
the models on small instances, and proofs, checked by TLAPS, that hold for every size of instance.

In this file `K/` stands for `src/app/src/main/java/app/offlinetranscriber/mobile/`.

## 1. The system

### 1.1 Components

| component | state it keeps | operations | talks to |
|---|---|---|---|
| Transcription queue manager `K/queue/TranscriptionQueueManager.kt` | `drainMutex`, `currentJobId`, the sets `userCancelled` and `systemRequeue`, `runtime` | `runUntilIdle`/`processOne`, `cancel`, `retry`, `recoverInterrupted`, `requeueCurrentForSystemStop`, `cancelNativeWorkForServiceDestroy` | job table, gateway, input preparer |
| Job table `K/queue/TranscriptionJobDao.kt`, `…Entity.kt`, `…Repository.kt` | rows of `transcription_jobs` in Room | one SQL statement per operation | everybody, concurrently |
| Foreground service `K/background/TranscriptionForegroundService.kt`, starter `BackgroundTranscriptionStarter.kt` | `drainJob`, the coroutine scope of one instance | `onStartCommand`, `onTimeout`, `onDestroy`, `startDrainIfNeeded`, `resumeIfNeededFromVisibleUi` | queue manager, Android |
| Execution gateway `K/queue/AppTranscriptionExecutionGateway.kt` | `job_N.pcm`, `.preparing`, `.ready` in the cache directory; checkpoint columns of the row | `execute`, `cancelCurrent`, `discardCheckpoint` | decoder, chunk reader, whisper engine, Room |
| Whisper engine `K/transcription/WhisperEngine.kt` | native context, model path, `isCancelledFlag`, its own mutex | `loadModel`, `transcribe`, `cancelTranscription`, `releaseModel` | native library |
| Decoder and chunk reader `K/transcription/AudioProcessor.kt`, `Pcm16ChunkReader.kt`, `ChunkSegmentMerger.kt` | none beyond one call | `prepareToPcm16`, `read`, `nextStart`, `merge` | MediaCodec, PCM file |
| Video preparation `K/queue/VideoQueueInputPreparer.kt`, `K/video/VideoAudioExtractor.kt` | the running Transformer, its output file | `prepare`, `cancelCurrentPreparation`, `extract`, `cancel` | Media3, main thread |
| Recorder `K/recorder/RecordingForegroundService.kt`, `CrashSafeAudioRecorder.kt`, `WavAudioWriter.kt`, `RecordingDraftJournal.kt`, `RecordingSessionStore.kt` | service flags, `outputFile`, the writer thread with its stream, the WAV file, `active_recording_draft.json`, the session shown on screen | start, pause, resume, stop, discard, error, ticker, timeout, destroy; journal start/heartbeat/complete/interrupted/discard | AudioRecord, the record screen |
| Queue screens `K/queue/EnqueueTranscriptionUseCase.kt`, `K/ui/queue/*` | view state | enqueue, cancel, retry, clear finished | queue manager, starter |
| Share import `K/share/*` | copies in `files/shared_imports` | parse, import, enqueue or reject | job table, entitlement |
| Model manager `K/modelmanager/ModelManager.kt` | `.part` and final model files, verification cache, selected model, `downloadState`, `cancelRequested` | `download`, `cancelDownload`, `repair`, `delete`, `select`, `adoptExistingModels` | HTTP server, settings |
| Legacy model manager `K/transcription/ModelManager.kt` | adapter over the above plus its own file names | same | - |
| Speaker diarization `K/speaker/*` | run rows, PCM windows, clusters | start, cancel, retry, save, rename | arbiter, Room |
| Heavy processing arbiter `K/processing/HeavyAudioMlArbiter.kt` | one mutex, the lease of heavy work | `withLease` | whisper engine, diarization, exports, backup |
| Caption export `K/caption/*` | one job record, workspace files | start, cancel, complete, recover | Media3 |
| Subtitle studio `K/subtitle/*` | edit buffer, undo history | edit, split, merge, shift, save | Room |
| Backup and restore `K/backup/*` | `activeJob`, `activeOperationId` of the service, the operation store, the payload of an inspection, `files/restored_media` | create, inspect, restore (merge or replace), cancel, timeout; plan, extract media, one transaction, clean up | Room, files, arbiter, crypto |
| Transcripts and database `K/data/*` | Room tables, FTS index | repositories, migrations | everybody |
| Meeting, study and ask `K/meeting/*`, `K/study/*`, `K/ask/*` | generated packs and conversations | generate, merge, preserve edits | on-device model, Room |
| Export `K/export/*` | rendered files in a cache | assemble, render, share | Room |
| Billing `K/billing/*` | purchase and entitlement cache | connect, query, acknowledge | Play Billing |
| Storage and privacy `K/storage/*`, `K/privacy/*` | none | measure, clean temporary files, delete content | files, Room |
| Search, library, playback, settings, shortcuts, theme, UI | view state | queries and screens | repositories |
| whisper.cpp, ggml and the JNI binding (`src/app/src/main/cpp/…`) | `whisper_state`: window position, decoders, key-value cache, segments; the team of threads and the chunk counter of a graph | `whisper_full_with_state`, new-segment and abort callbacks, `ggml_graph_compute` | whisper engine |

### 1.2 How they interact

A screen inserts a row with status QUEUED and starts the foreground service. The service launches a
drain coroutine that takes the oldest QUEUED row under `drainMutex`, marks it PROCESSING, prepares
a video if necessary, calls the gateway, and writes the outcome. The gateway decodes to a PCM file,
transcribes window after window, saves a checkpoint after a window and commits the transcript
and the COMPLETED status in one Room transaction. Meanwhile the user may cancel from the queue screen
(main thread) or from the notification (a service message), Android may time the service out or
destroy it, an Activity coming to the foreground runs recovery, and the process may die. All of these read
and write the same three things without holding the mutex: the row, `currentJobId`, and the two
flag sets.

The recorder is a second service, with a writer thread of its own, a ticker on the main dispatcher
that hops to the IO dispatcher for the header and the journal, and an error listener that posts to
the main thread.

### 1.3 What is hard, and what must hold

*Queue*: a cancel that crosses the end of a job, a timeout that crosses the commit, a service that is destroyed
while its drain still unwinds, a start that arrives while the service is going away, a process that
dies between any two statements. Required: one drain at a time; `currentJobId` names its job;
a COMPLETED row has a transcript; a cancel that was carried out is not undone; no row that has a result
gets a second one; a row fails without a transcript, but for the failure that follows the commit itself; every queued job is worked off.

*Gateway*: a process that dies between clearing the checkpoint, decoding, renaming, marking and
recording the path; a cache directory that Android may empty. Required: what is committed is the
made from the whole recording, each window once and in its turn, whatever was resumed from.

*Recorder*: an error that is reported twice (by the watchdog and by the writer thread), a stop that
crosses an error, a heartbeat that crosses the end, a process that dies with bytes in a buffer.
Required: audio that reached the disk stays reachable until the user has disposed of it; the microphone is given back.

*Whisper engine*: one cancel flag for all jobs, raised by callers that do not hold the mutex; a model released by
`onTrimMemory` while a job is about to use it; a lease that another owner holds. Required: a window is decoded by a live
context of the right model, an abort has its cause, a cancel is not lost, every job ends.

*Native code*: a window that moves by what the model happens to sample; decoders that are repeated at another temperature;
callbacks that report and abort in the middle; a team of threads, at times smaller than asked for, that meet at barriers and share a counter. Required: segments in order and
reported once, no audio skipped in a successful call, every call and every graph ends.

*Model manager*: downloads resumed after a cancellation or a crash, a part file that is complete already, two calls on one
path, a file deleted under a stream. Required: what is used has been verified and stays until the user removes it; a part file can be resumed from; trying again can succeed.

*Backup and restore*: a database transaction that is atomic and media files that are not; a second operation started on top
of the first; a service that destroys itself when the last intent's operation is over. Required: rows and files agree, nothing is
cancelled that nobody cancelled.

*Diarization, caption export*: long operations with a cancel, a crash and a cleanup each; required:
no half-written result is taken for a whole one and nothing blocks the next operation.

## 2. The plan

The order is that of what would hurt a user most: audio lost or transcribed wrongly, then a queue that stops,
then files and downloads, then the features built on transcripts.

| step | modules | state |
|---|---|---|
| 1 | `JobStore`, `TranscriptionQueue` with the service life cycle; proofs in `TranscriptionQueueProofs` | done |
| 2 | `PcmCheckpoint`: `execute()` over any number of attempts; proofs in `PcmCheckpointProofs` | done |
| 3 | `RecordingService`: service, writer thread, ticker, journal, screen; proofs in `RecordingServiceProofs` | done |
| 4 | `JobLifecycle`, the abstract life of a job, implemented by `TranscriptionQueue` under a refinement mapping; proof in `TranscriptionQueueProofs` | done |
| 5 | `NativeCall`, the abstract promise of a native call; `WhisperDecode`, which implements it; `WhisperEngine`, which builds on it; proofs in `WhisperDecodeProofs` and `WhisperEngineProofs` | done |
| 6 | `ModelDownload`: part file, Range resume, verification, selection, adoption, two callers of `download`; proofs in `ModelDownloadProofs` | done |
| 7 | `BackupRestore`: service, operation store, lease, transaction and media files; proofs in `BackupRestoreProofs` | done |
| 8 | `GraphCompute`: the threads of a ggml graph in the OpenMP build, its barriers and its chunk counter; proofs in `GraphComputeProofs` | done |
| 9 | `SegmentMerge`: `merge()`, `isDuplicate()` and the floor in the middle of the overlap, on short sequences of segments: what is said in an overlap against what of it is kept. `PcmCheckpoint` leaves open what the merger keeps of a window | to do |
| 10 | `ShareImport`: copies of shared files, the free limit, the orphan clean-up at start | to do |
| 11 | `SpeakerRun`, `CaptionExport`: the other owners of the lease, with their run rows and work directories | to do |

Every safety invariant and every action property that a run checks is stated by a theorem, and so are the two refinements (section 6).
Left for the proofs: what would replace the instance-bound liveness runs, should the prover come to handle fairness and ENABLED,
and the theorems of the modules of steps 9 to 11. Their strengthenings will be small: a copy of `ShareImport` belongs to a row or to the
import in progress; a run of `SpeakerRun` owns the lease while its rows are replaced.

## 3. The modules

Every module names things as the code does. A step of a model is what the code does between two points where another
thread, coroutine or process can get in: a Room statement, a suspension, a callback, a lock, a file operation that
may be the last before the process dies.

### 3.1 The queue: `JobStore`, `TranscriptionQueue`, `MCTranscriptionQueue`, `JobLifecycle`

`JobStore` is `TranscriptionJobDao` without variables: a table is a function from jobs to rows with `status`,
`result` (`resultTranscriptId`, 0 for null) and `prepared` (`preparedInputUri` is set), and every SQL statement is an operator that returns the new table. A job's
number is its place in the order of `createdAt, id`. Progress, stage, error texts and time stamps are left out.

`TranscriptionQueue` has these processes:

| process | code | actions |
|---|---|---|
| a drain coroutine per service instance, the one of a destroyed instance included | `runUntilIdle`, `processOne`, `handleAbort`, and `finally` of `startDrainIfNeeded` | `DrainStep(d)`: `Acquire`, `TakeNext`, `Normalize`, `Claim`, … `Finish`, `WriteOutcome`, `StatementThrows`, `Finally`, and the end of the drain |
| the main thread | `onStartCommand` with its two actions, `onTimeout`, `onDestroy` | `OnStartCommand`, `OnCancelCommand`, `OnTimeout`, `OnDestroyBegins` … |
| the coroutine of `onTimeout` | `requeueCurrentForSystemStop` | `TimeoutReads`, `TimeoutFlags`, `TimeoutRequeues`, then `stopSelf` |
| two callers of `cancel()` | the queue screen; the notification, whose Cancel is a start command to the service, to a new instance if need be | `PressCancel`; `TapCancel`, `OnCancelCommand`, `NotificationReads`; then `CancelNative`, `CancelWrites` of either |
| the screens | enqueue, retry, clear history, a model download | `Enqueue`, `Retry`, `ClearFinished`, `ModelDownloaded` |
| `MainActivity.onStart`, `Application.onCreate` | `recoverInterrupted`, starter | `BecomeVisible`, `ResumeRecovers`, `ResumeChecks`, `ApplicationRecovers` |
| Android | death of the process | `ProcessDeath`: only Room survives |

What a cancelled coroutine can still do is modelled as it is: every suspending Room call throws, so that a drain
cancelled by `onDestroy` leaves its row as it finds it, whereas `finally` runs. Any Room statement inside the `try` block of `processOne` may throw (`StatementThrows`),
`markProcessing`, `progress` and the final `complete()` included, and then `catch (t: Throwable)` decides anew and writes its own outcome (`pc` = "catch"); a statement that
throws outside of it ends the process. So a job whose transcript is committed may end FAILED. What `stopSelf(startId)` refuses
because a newer start has been delivered is in `TimeoutState.current`. `WhisperEngine.isCancelledFlag` is the variable
`abort`; it belongs to the engine and not to a job.

`JobLifecycle` is what a user may expect of a job and knows no drain, no service and no mutex: a job waits, and becomes done together with a saved
transcript, fails without one while it waits, is cancelled, restarted or forgotten. The refinement mapping at the end of `TranscriptionQueue` takes
QUEUED and PROCESSING both for "waiting" and the saved transcripts for themselves; `ImplementsLifecycle` is the abstract specification as a property.
It is deliberately weak where the code is: `Restart` may take the result from a job that is done (the stop that crosses the commit, section 4), `Fail` may hit a job that is done
and leaves it its transcript (the `complete()` that throws), and `Save` may find its row cleared from the history.

### 3.2 The gateway: `PcmCheckpoint`, `MCPcmCheckpoint`

One job over any number of attempts. `pc` follows the statements of `execute()`; between any two of them the process
may die, the attempt may fail, the user or the system may stop it. On disk are the lengths of the PCM file and of the
temporary file, and the marker. In Room are the checkpoint columns and the status. Audio is counted in units. The merger makes the list of
segments from one window after the other, each time from the list so far, the window's start and the window's segments; so the model represents a list by the
sequence of windows it was made from, each with its start and its end, and a gap, a repetition or a window that was cut short can be told from the whole. `Init` admits what an earlier build, which had no marker, may have left: a PCM file of any listed length and
a checkpoint that a run over that file may have saved.

Assumptions about the data, each a simplification to know of:

- what `merge()` keeps of a window is left open. The code drops the segments that end before the middle of the overlap, and any segment that repeats the text of the one before it
  within three seconds, inside one window as well; so a sentence at a window's border may be kept twice in two wordings, and a word that was said twice may be kept once. `WholeTranscript` speaks of the
  windows the transcript was made from, not of the words in it (`SegmentMerge` in the plan);
- a checkpoint is due after every window (a window is 298 s further on, the code asks for 60 s);
- a call of `execute()` ends with the commit: that the `complete()` which `processOne` adds may throw is in `TranscriptionQueue`;
- `preparedPcmPath` only ever names the path that `execute()` would choose again, so it is not a variable.

A checkpoint whose segments are the empty list is not resumed from, as in the code, which
tells "no segments" by the text `[]`: a silent beginning is transcribed again. `Silent` names the windows of which nothing is kept, and `NoWindowTwice` excepts what holds no segment.

### 3.3 The recorder: `RecordingService`

One module, since nothing in it can be understood without the rest: service instance, recorder, writer thread, ticker,
journal file, session store and the buttons of the record screen.

| code | model |
|---|---|
| main thread blocked in `CrashSafeAudioRecorder.stop()`/`release()` | `main`; `BeginClose` is a handler up to `join`, `EndClose` what comes after |
| `handleStop`, `handleDiscard`, `handleError` | `Stop`/`HandleStop`, `Discard`/`HandleDiscard`, `RecorderReportsError` or `WatchdogHalts` or a failed stop / `HandleError` |
| `onErrorListener`, which launches in `serviceScope` | `ReportFailure` adds to `posted` if the scope still belongs to the recorder; `OnDestroy` empties it |
| `startTicker`: heartbeat on `Dispatchers.IO`, then the storage watchdog | `Tick`, `UpdateHeartbeat`, `Watchdog`, `WatchdogHalts`; `io.live` becomes false when the ticker is cancelled, but the I/O still runs |
| `recordLoop` | `Write`, `WriteFails`, `ReportFailure`, `WriterEnds` |
| `active_recording_draft.json` | `journal`, one file for all recordings |
| `remember { getRecoverableDraft() }` | `screen.card`, set by `OpenScreen` and used later |

`Troubles` names four things that may happen besides, so that a run can say under which of them a property holds:
a write fails; the process dies while a completed recording is on screen; a recording is started although the
card of an interrupted one is shown; the queue refuses a file.

Assumptions: a writer ends within the two seconds of `join(2000)`; an I/O block of the ticker ends before the next tick; what `write()` has
been given is in the file; the header is repaired by whoever reads the file, so that it is not modelled; an
intent sent after `stopSelf()` is handled by a new instance; a write of the journal succeeds (`RecordingDraftJournal` swallows its exceptions, so that a journal that could not be written, and the
recording that is lost with it, is not in the model).

### 3.4 The engine and its native call: `NativeCall`, `WhisperDecode`, `WhisperEngine`, `MCWhisperEngine`

`NativeCall` is what the Kotlin side may rely on: the call goes through the audio from the front, answers 0 only when it is through, and
reports at most once more after the listener has begun to answer "cancelled". It is used twice: `WhisperDecode` is shown to
implement it (`ImplementsNativeCall`), and `WhisperEngine` contains it by `INSTANCE`, with the engine's flag and the job's own test as its `stop`. The composition is the
whole path from the Cancel button to the sampling loop.

`WhisperDecode` follows `whisper_full_with_state` as `whisper_jni.cpp` parameterises it (greedy, timestamps, no context). A round of the main loop
is encode, prompt, one step per token for all decoders, ranking, emission. A token is text, end of text, or a timestamp relative to the window; the
logit filters are the set `Allowed`, and any token in it may be sampled. What the entropy and log-probability thresholds decide is left open where they depend
on numbers. Time is in units, so that "delta_min" and the 30 s of a window keep their relation only. A state that has been freed while the context still points to it
(`whisper_free_state` after a failed cache allocation) is the place `"undefined"`, where nothing is promised.

| `WhisperEngine` | code |
|---|---|
| `Claim` … `JobOver`, `QueueIdle`, `LeaveDead` | the drain, reduced to what it does with the engine |
| `Enter`, `ResetFlag`, `TakeLease`, `NativeReports`, `NativeReturns`, `GiveLease`, `AfterNative` | `transcribe()` under the engine's mutex |
| `CancelBegins`, `CancelNative`, `DestroyService` | the callers that raise the flag without the mutex |
| `TrimLooks`, `TrimReleases` | `onTrimMemory`, which looks at the queue and releases the model in a coroutine later |
| `OtherTakesLease`, `OtherGivesLease` | another owner of `HeavyProcessingArbiter` |

`loadModel` and `releaseModel` hold the mutex from beginning to end and are one step each. Exceptions in the invariants are named by history variables: `stray` (a flag
was raised by a caller whose job was already over) and `trimmed` (a release was decided before the job began). The drain of the queue is the only one that transcribes here: the
older `TranscriptRepository.transcribe`, which uses the same engine, is not modelled.

### 3.5 Models: `ModelDownload`

Two files per model (`.part`, final), each a sequence of blocks, so that a hole, a block of a foreign body or a block at the wrong place can be told from
the model. `where` says what the stream of a call writes to: Unix keeps a deleted file alive for the stream that has it open, and a rename takes the stream along. The
server answers 200, 206 or 416 (external). `trusted` is the verdict `download()` stores in `verifiedModels` without reading the file again; verdicts that were computed
are not remembered, since the key contains length and time of the file. `contended` names models two writers have worked on at once, for which nothing is promised:
nothing in the code prevents it. `cancelRequested` is one flag: a press of Cancel is lost when another download starts and clears the flag, and when it comes after the last head of the
read loop, while the file is verified and renamed. The model has both; no property speaks of them, since the code promises nothing.

### 3.6 Backup and restore: `BackupRestore`, `MCBackupRestore`

Operations of four kinds, each a job of one service. The service remembers one active job; the screens allow a second start. `last` is the operation of the newest start id, so that
`stopSelfResult()` is the comparison it is in Android; a cancel intent has a start id as well. The database transaction is one step (`Commit`), its return another (`CleanUp` or
`CancelledTooLate`), and the media files are extracted one by one before it. Rows are abstracted to whose copy of the media file they point to. Ghosts
name the four known exceptions: `undone`, `leaked`, `overlapped`, `asked`.

### 3.7 Threads of a graph: `GraphCompute`, `MCGraphCompute`

The application builds ggml with OpenMP (`GGML_OPENMP` is ON by default, `ggml/CMakeLists.txt:245`, and nothing turns it off; `libomp.so` is packaged, AUDIT_FINDINGS.md:21), so that the pool of
ggml with its polling, its condition variable and its counting barrier (`#ifndef GGML_USE_OPENMP`) is not in the program and not in the model. What is: a parallel region with a
team that may be smaller than the number of threads asked for, one thread that counts it (`Single`), and `ggml_graph_compute_thread` for each thread of the team: per node the
threads work, meet at `ggml_barrier`, which is a barrier of OpenMP, and a matrix product hands its chunks out by a shared counter after an inner barrier. The barrier itself is external:
no thread leaves it before all of the team are there. Which barriers there are, who reaches them and what is done between them is the code's. Every atomic operation is a step. The memory is
sequentially consistent: what the relaxed orders would allow besides is not modelled (each relaxed store is followed by a barrier before another thread relies on it). whisper.cpp gives no pool, so
that each graph has a fresh one, passes no abort callback, and has no nodes that are fused.

## 4. The runs

All runs but those of `ModelDownload` and `GraphCompute` say `CHECK_DEADLOCK FALSE`: these systems do come to rest, with all jobs over, all recordings made, every budget
spent. A download can always be asked for again and a graph always be computed, so that deadlock is checked there. A `Budget`, `Deaths`, `MaxFaults` or `MaxPresses` says how often a disturbance may happen in one behaviour;
`Budgets` of the queue is a set of such budgets, one of which a behaviour has.

| run | asks | bounds |
|---|---|---|
| `queue_stop` | `TypeOK`, `CurrentJobIsHeld`, `CompletedHasTranscript`, `CancelSticks` | one video job, two drains, any two of a cancel, a timeout and a process death |
| `queue_user` | `CompletedHasTranscript`, `OnlyTheCommitterFails`, `NoSecondResult` | two jobs (one QUEUED with a result), model may be missing, statements may throw, one retry, one process death |
| `queue_served` | `QueuedJobsAreServed`, `ImplementsLifecycle` | one job, statements may throw, one timeout, one clearing of the history |
| `pcm_resume` | `TypeOK`, `ReadyPcmIsWhole`, `WholeTranscript`, `NoWindowTwice`, `JobEnds` | three windows (7 units, step 2, overlap 1), nothing said in the first, left-over files of 1, 2, 4, 5 and 7 units, two deaths, one eviction, one failure, one stop, one retry |
| `rec_journal` | `TypeOK`, `DraftIsOpen`, `AudioIsReachable`, `MicReleased`, `OnlyDiscardedIsDeleted`, `FailureIsShown` | two recordings, one death, all troubles |
| `decode` | `SegmentsInOrder`, `ReportedOnce`, `EveryCallEnds`, `ImplementsNativeCall` | two calls, of no audio or of 5 units, windows of 3 units, three tokens, two temperatures, two decoders, cache may fail |
| `engine` | `TypeOK`, `ContextIsRight`, `AbortHasCause`, `CancelStopsReports`, `ModelLostOnlyToEarlyTrim`, `JobsEnd` | two jobs with different models, two windows each, one cancel, one destruction, one trim, one other owner |
| `download` | `TrustedModelIsWhole`, `PartIsInPlace`, `ReadyModelStays` | two models of two blocks, two callers and the adopter, one fault, one press |
| `restore` | `TypeOK`, `MediaMatchesRows`, `CancelledForAReason` | four operations of any kind, two texts, one fault, one press |
| `graph` | `TypeOK`, `InStep`, `EveryChunkOnce`, `GraphEnds` | up to four threads asked for, any smaller team, any number of graphs of four nodes (a product of 9 chunks, an empty node, a product of 3 chunks, a plain node) |
| `decode_auto` | finds a behaviour that breaks `SuccessIsWhole` | as `decode`, language "auto" |
| `download_stuck` | finds a behaviour that breaks `KilledDownloadResumes` | one caller, one fault, fairness |

Why the bounds are enough to be interesting. *Two drains*: a destroyed service's drain that still unwinds and the one of its
successor; a third would wait for the mutex like the second. *Two jobs*: what a late cancel or a late flag does to the
wrong job needs a wrong job. *One disturbance of a kind*: the hazards are single crossings with a long sequence of steps;
the combinations of a cancel or a timeout with a death, in either order, are in `queue_stop`; all three in one behaviour are covered by the
theorems of section 6 only (that space has over three million states). *Seven units, three windows*: the first, a middle and the last window, the last
one shorter than its step or not, depending on the left-over length; left-over files that end inside a window, at a window's end and at
a window's start. *Two recordings*: one whose draft, error or intent is late, and one that is hit by it. *Five units of audio, windows of three*: the call has a
window in the middle and a short one at the end, and a window may move by 1, 2 or 3. *Two blocks*: a part file that is empty, half, whole, or has a block at the wrong place. *Four
operations*: an inspection, the restore of it, and two more, on top of it or after it. *Four threads, products of 9 and 3 chunks, at least two chunks for each thread*: the first product is
shared out by the counter in every team; of the second the chunking is kept by one thread and scrapped by two or more, with two, three and four chunks instead of three; a team is as large as asked for, or smaller by up to three.
*Statements that throw*: in `queue_user` and `queue_served` any Room statement inside the `try` block of `processOne` may throw, any number of times. `queue_stop`
leaves them out to stay small; that `CurrentJobIsHeld` and `CancelSticks` hold with them is shown by the theorems of section 6.

What the violation runs show:

- `decode_auto`: `whisper_jni.cpp:236-238` sets `detect_language` for the language "auto". `whisper_full_with_state` detects the language and, because of that flag, returns 0 without
  transcribing anything. The engine takes the empty answer for a silent window, and the job is COMPLETED with no text. "auto" is the default of the settings.
- `download_stuck`: the process dies while the complete part file is being verified. The next download asks for the range that starts at its end, the server
  answers 416, the call fails and keeps the file; so does every later one, until the model is deleted or repaired by hand.

### 4.1 Known false statements

The modules also define properties that the code does not have, for a reader who wants to see the traces. They are not part of the runs above; each takes TLC from a few seconds to a few minutes, once the configuration
named is changed as described.

- `OneTranscriptPerJob` of `TranscriptionQueue` (`queue_stop.cfg` with `VideoJobs <- NoVideo`, `Budgets <- TimeoutOnce` and this invariant): the timeout reads `currentJobId`, `execute()` commits, the timeout (or `processOne` itself, which
  looks at `systemRequeue` before it looks at the result) calls `retry()`, which sets `resultTranscriptId` to null; the next drain saves a second transcript. A second way (`queue_user.cfg` with
  `MaxJobs = 1`, `LegacyRows = 0`, `Budgets <- RetryOnce` and this invariant): the `complete()` after the commit throws, the row becomes FAILED and keeps its `resultTranscriptId`, the user presses Retry, which forgets it, and the job is transcribed again. docs/IMPLEMENTATION_PROGRESS.md:36-38 claims otherwise.
- `QueuedJobsAreServed` with a video (`queue_served.cfg` with `MaxJobs = 2`, `VideoJobs <- FirstIsVideo`, `Budgets <- CancelOnce`): `VideoAudioExtractor.cancel()` on the main thread cancels the Transformer, whose listener then
  never resumes `prepare()`. The drain stays suspended with `drainMutex` held.
- `IdleServiceStops` of `TranscriptionQueue` (`queue_served.cfg` with `Budgets <- CancelOnce` and this property): a drain that ends with an unfinished row left leaves the service in the foreground; the row is then cancelled
  on the queue screen, and nothing stops the service until a later drain ends. An ACTION_CANCEL_CURRENT that is delivered to a fresh instance starts no drain, so that nobody stops that instance either.
- `WholeTranscript` of `PcmCheckpoint` (`pcm_resume.cfg` with `EvictDuringRun = TRUE`, `Legacy <- NoLegacy`, `Budget <- EvictedOnce`): `read()` answers null for a file that has gone, the window loop is left as after the last window, and what has been heard is
  committed as COMPLETED. The proofs in section 6 show that this is the only way.
- `ErrorKeepsDraft` of `RecordingService` (`Recordings = 1`, `Deaths = 0`, `Troubles = {"writeFails"}`): the writer fails and posts its error; before the main thread handles it, Stop is pressed. `stop()` fails,
  `handleError` writes the INTERRUPTED draft and forgets `outputFile`. Then the posted error is handled: no file, so the journal
  is cleared. The audio is on the phone and nothing leads to it.
- `DiscardedIsDeleted` of `RecordingService` (`Recordings = 1`, `Deaths = 0`, `Troubles = {}`): after Stop the service is gone and the journal is clear. The Discard of the completed recording creates a new service
  instance, which knows no file and deletes none.
- `AudioIsReachable` and `MicReleased` without `Calm`, the exception for recordings that met a trouble: with `"diesAfterStop"` the completed recording is lost, because `handleStop` has
  cleared the journal and the session store is in memory; with `"queueRefuses"` the recovered recording is lost, because
  the card clears the journal before the file is enqueued; with `"ignoresCard"` because a new
  recording overwrites the only journal; with `"writeFails"` by the behaviour of `ErrorKeepsDraft`, and
  `MicReleased` fails as well, because `handleStop` drops a failed recorder without releasing its AudioRecord.
- `AbortHasCause` without `stray`, `MediaMatchesRows` without `undone` or `leaked`, `CancelledForAReason` without `overlapped`, `TrustedModelIsWhole` and `PartIsInPlace` without `contended`: the exceptions are real
  behaviours, and inside them nothing is checked: a change of the code that made them worse would not be noticed. The most harmful is
  `undone`: a cancel that arrives between the commit of a restore and the return of `withTransaction()` deletes the media files of rows that are committed.

## 5. Fairness

- Queue, `FairSpec`: every drain coroutine that can take a step takes one (the dispatcher runs what is ready; native calls and
  extractions end), so do the main thread, the timeout's coroutine, the callers of `cancel()`, the notification's included, and the starters that have begun. Nothing is assumed of users or Android.
- Queue, `ReopeningSpec`: besides, the application becomes visible again and again. `QueuedJobsAreServed` needs it, and not for comfort: a start
  that is delivered while the drain's `finally` block runs is ignored by `startDrainIfNeeded` (`drainJob.isActive`), `stopSelf()` without a start id
  then ends the service, and the job waits until `MainActivity.onStart`. With `SPECIFICATION FairSpec` in `queue_served.cfg`, TLC shows that
  behaviour.
- `PcmCheckpoint`, `FairSpec`: the queue starts an attempt for a queued job and a running attempt goes on. The disturbances have no fairness and are bounded by their budget.
- `WhisperDecode`, `FairSpec`: a computation that has begun ends (`CallStep`); nobody has to call or to cancel.
- `WhisperEngine`, `FairSpec`: the drain's coroutine goes on, a `cancel()` that has begun calls the engine, and whoever holds the lease gives it back
  (`withLock` releases it in `finally`). The end of `onTrimMemory`'s coroutine is not needed.
- `ModelDownload`, `FairSpec` (for `KilledDownloadResumes` only): a call goes on, the adoption at the start too, and the user presses Download again whenever the model is missing and nothing
  works on it. The last is strong fairness, a generous assumption that makes the counterexample the stronger.
- `GraphCompute`, `FairSpec`: the operating system runs every thread, and OpenMP opens a barrier when all are there and ends a region when all have come to its end. Nothing is assumed of the order of the threads, of the size of the team or of the caller, who need not start a graph.
- `RecordingService`, `FairSpec`: the main thread handles what waits for it, and a writer that has failed or been told to stop ends. Ticks,
  writes and users have none.

## 6. The proofs

All theorems hold for every value of the constants that satisfies the modules' assumptions: any number of jobs, drains, recordings, operations,
models, threads, windows, tokens and units, and any budget. The assumptions say that sizes are numbers and that names are different: `QueueAssumption`, `MaxJobsAssumption`, `PcmAssumption`,
`RecordingAssumption`, `JobsAssumption`, `BudgetAssumption`, `SizesAssumption` (the ones of `WhisperDecode` and `GraphCompute`), `ThreadsAssumption`,
`NodesAssumption`, `SizeAssumption`, `BoundsAssumption`, `NamesAssumption` (`NoFile` is no contents of a file), `OpsAssumption`, `BackupAssumption`, `LanguagesAssumption`. Two theorems have
a hypothesis besides, `~EvictDuringRun` and `"auto" \notin Languages`; in both cases a run or a trace of section 4 shows that the code breaks
the property without it.

Each proof has the same shape: a lemma for the start, a lemma for each action or group of actions, one that puts them together (`StepIInv`, `Inductive`), and a
theorem for each property. TLC has checked each inductive invariant on the instance of the component's run as well.

**`TranscriptionQueueProofs`.** The inductive invariant is

    IInv == TypeOK /\ JobInHand /\ LockHeld /\ ResultsSaved /\ DecisionsSound

`TypeOK` alone is not inductive: a drain that is inside `processOne` must have a job (`JobInHand`). `LockHeld` sharpens `CurrentJobIsHeld`: while
`currentJobId` is set, the holder is inside `processOne`. `ResultsSaved` says that no row names a transcript that has not been saved.
`DecisionsSound` is the heart: what a drain read at `nextQueued()` or decided after `execute()` is still true of the table, although
cancel, timeout, retry, recovery and clear-history write the row without the mutex. It holds since those statements only ever clear a
result (`HarmlessStatements`), and the only statements that set one need the mutex. From it: `CompletedRows`, and two properties of
steps, `SecondResultExcluded` and `FailuresAfterCommit`. The latter, `OnlyTheCommitterFails`, rests on `Kept`, a part of `DecisionsSound`: a drain that is about to write or to decide anew in its `catch` block, and finds
a result in its row, is the one that has just committed it (`FailsInHand`). `StatementThrows` is what makes this delicate: a statement may throw before or after the commit, and the decision of the `catch` block is the same.

`CancelsStick` (`CancelSticks`) needs a second layer, `CancelInv`: a settled job is in nobody's `systemRequeue`, and the drain that has it in hand, when it is about to let go of it or
can no longer write, leaves a row that has ended (`SettledInHand`); a drain writes "retry" only for a system stop, and its row has not failed before it has written (`InHand`);
nothing names a row that has not been inserted (`OnlyInserted`), so that a new row is never a settled one. `RefinesLifecycle` shows the refinement of `JobLifecycle` step by step: each action
of the queue is `Save`, `Fail`, `Cancel`, `Restart` … of one job, the clearing of the history, or a stutter; it uses both invariants, for the writes whose effect depends on what the drain decided earlier.

**`PcmCheckpointProofs`.** `IInv` is `TypeOK` and, for every point of `execute()`, what is known there of the files; the part that makes
`MarkedPcmIsWhole` inductive is that the marker is removed before the decoder starts and created after the rename (`MarkerMeansWhole`). `TranscriptIsWhole` adds, under
`~EvictDuringRun`, that a rebuild forgets the checkpoint, that the loop reads a whole file, and that the segments of the row, of the
snapshot read at the start and of the loop are made from the first windows, each whole, in their order, up to the next start (`WInv`, `MadeUpTo`); `MergeAdds` shows that one more window keeps it so, be it the last or not. The proof does not use the code's test that a checkpoint is aligned with
the windows: once rebuilding clears the checkpoint, an unaligned one cannot arise. The assumption `~EvictDuringRun`
is needed, as section 4.1 shows. `NothingTwice` (`NoWindowTwice`) needs neither: a saved checkpoint that the present file bears out is resumable (`SavedIsResumable`), the row
that an attempt read at its start is still the row when it decides (`SnapshotIsRow`), and from then on the loop is not behind the checkpoint (`Ahead`). Here the alignment test is
used, with two lemmas on multiples of the step.

**`RecordingServiceProofs`.** Four places know of a recording: the fields of the service, the session on the screen, the draft on disk and the threads. The parts of the invariant tie them together:
`ServiceInv` (which combinations of `isRecording`, `outputFile`, scope and session there are), `CloseInv` (what the main thread is in the middle of), `ThreadInv` (an error is posted only for the recorder of the present
scope; a capture, a writer and a microphone belong to it or have failed), `FutureInv` (nothing is known of a recording not yet started), `DraftInv` (a draft is of an undisposed recording, of the present one while
it lasts, gone once it is COMPLETED) and `CardInv`. From it `NothingLost`, `MicIsReleased`, `DraftsAreOpen` and the action property `OnlyDiscarded`.
`AudioIsReachable` is part of the invariant since the card that leads to a file is created from the draft that led there before.

**`WhisperEngineProofs`.** `DrainInv` says what is known at each point of the drain (which job is current, when the lease and the engine's mutex are held), `ModelInv` which model the
native context holds there, `CancelInv` whose `cancel()` may still be on its way and what a raised flag means between its lowering and the end of the native call, `ReportInv` how many chunks
may still be reported. From them `RightContext`, `AbortsHaveCause`, `CancelIsHeard`, `ModelIsKept`.

**`WhisperDecodeProofs`.** A segment's end is the chunk's start plus a timestamp token, and the window moves to the last one. So the order of all segments rests on each decoder: `Follows` says that
its positive timestamps do not go back and none is beyond `seek_delta`; the logit filter keeps that (`TakeFollows`), cutting to the result does (`CutFollows`). `TokensEmit` carries it over to the emitted
segments by induction on the tokens, and `Behind` to the calls: what is stored ends before the chunk at hand, except after the last chunk, which may end behind the audio. `BestInv` is needed for the type
of `best_decoder_id` when there are more decoders at the next temperature, `CallInv` for the cancel: after a report that came too late the next encoder run fails. From it `Ascending`, `Reported` and
`RefinesNativeCall`, for which `TokensEmit` also counts: no more segments than tokens. The emission is a `FoldLeft` of the community modules, that is, a `CHOOSE` of a recursive function; `FoldExists` and `AfterEachToken` show that it obeys
its recursion. Induction comes from the least element of a set of numbers (`LeastElement`, from the library's `WFMin`), stated for sets
(`Induction`) since the library's theorem takes an operator.

**`ModelDownloadProofs`.** `FileInv` says, for each model with which no two calls have been busy at once, what its two files hold and what the call that works on it has established so far: the part file holds each block at its
place up to the point where the open stream writes; a verdict that will be stored after the rename is about the very contents that were renamed; a download that will replace the final file has seen that it is not ready, and an adoption that will
copy over it that it is missing. `Streams` (an open stream has a file under it) completes it. From it `TrustedIsWhole`, `PartsAreInPlace`, and `ModelsStay` (`ReadyModelStays`): no step of a writer, a repair and a deletion aside, takes a ready model away
(`StaysWhole`).

**`BackupRestoreProofs`.** `LeaseInv`: operations that change the library take turns. `StageInv`: until it commits, a restore has no rows, and the files it has extracted are there; the texts it leaves out stay in the library.
`RowsHaveFiles` and `FilesHaveRows` are the two halves of `MediaMatchesRows`; the second is strengthened by the files of an operation on its way to its commit. `InboxInv` and `ReasonInv` give `CancelsAreMeant`: intents arrive in the order they were
sent, so whoever is replaced as the active job was still running when its successor was requested.

**`GraphComputeProofs`.** `StepInv` places every thread of the team: `Goal(t)` is the next barrier a thread will come to, or has come to, and `SameGoal`, the heart, says that all threads of the team have the same one before them. It is
kept because the choice of the barrier depends on nothing but the node and the number of threads, which all of the team reckon with alike (`Counted`; so it matters that the team is counted after it
was given). From it `NodeByNode` (`InStep`). `ChunkInv` adds, by the place of that barrier, who has which chunk in hand (`Held`), which are done or in hand or still with the counter (`Covered`), that no two threads have one chunk and none in hand is done or
still with the counter (`Apart`), and what has been counted when the inner barrier opens (`Counting`, `Ready`). `AllChunks` (`EveryChunkOnce`) follows for every team, also where the code scraps the chunking. Three lemmas carry the opening of a barrier, the
step in which all threads move at once.

Model-checked only: the liveness properties `QueuedJobsAreServed`, `JobEnds`, `JobsEnd`, `EveryCallEnds`, `GraphEnds` and `FailureIsShown`, because the prover has neither fairness nor ENABLED. The type invariants of
`WhisperDecode` and `ModelDownload` are proved but are not properties of a run: there TLC checks the sharper properties, and the type invariant documents the variables.

## 7. What is not modelled

Texts, times, amplitudes, percentages, notifications, layout and logging, except where a guard depends on them. The
components listed as not modelled in `PROJECT.json` have their reason there; in short: planned (section 2), or queries
and rendering without state of their own, or numeric code, or code outside the repository (Play Billing, Media3, MediaCodec, the HTTP server),
of which only what the callers rely on is modelled.

By number of lines most of the repository is the vendored ggml and whisper.cpp: kernels of tensor arithmetic for a dozen instruction sets and accelerators, of which the Android build compiles
one. They compute on numbers, keep no state between calls and take no decision that depends on another thread; there is nothing in
them a state machine could say. What does have control in them is modelled: the main loop with its fallback and its callbacks (`WhisperDecode`), and the threads of a graph (`GraphCompute`). The thread pool that ggml brings for builds without OpenMP is not compiled into the application and not modelled. The loader of
the model file, beam search, voice activity detection and the grammar of the library are not used by this application's calls.

Of the features in Kotlin, these have concurrency that a later module should cover: speaker diarization (a start that is ignored while a run is
active has already replaced the current transcript's id; the rows of a run are saved in several statements) and the caption export (the CANCELLED record is written in a coroutine that is cancelled already).
