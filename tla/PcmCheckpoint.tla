---------------------------- MODULE PcmCheckpoint ----------------------------
(***************************************************************************)
(* AppTranscriptionExecutionGateway.execute() for one job, over any number *)
(* of attempts: the decoded PCM file, its completion marker and the        *)
(* checkpoint columns of the job's row, any of which an attempt may find   *)
(* in the state in which an interrupted attempt, the death of the process  *)
(* or an emptied cache directory left them.                                *)
(*                                                                         *)
(* Audio is counted in units.  ChunkSegmentMerger makes the list of        *)
(* segments out of the windows it is given one after the other, each time  *)
(* from the list so far, the start of the window and its segments alone;   *)
(* so a list is represented by the windows it was made from, in their      *)
(* order.  Which segments of the overlap of two windows it keeps, a matter *)
(* of half the overlap and of equal text within three seconds, is left     *)
(* out.  preparedPcmPath is left out, too: it only ever holds the path     *)
(* that execute() would choose anyway.                                     *)
(***************************************************************************)
EXTENDS Integers, Sequences

CONSTANTS
    Total,              \* units of audio in the recording
    Step,               \* units between the starts of two windows
    Overlap,            \* units shared by two windows
    Silent,             \* windows of which the merger keeps no segment
    Legacy,             \* lengths of a PCM file that an earlier build, which
                        \* had no marker, may have left
    EvictDuringRun,     \* whether the cache may be emptied under an attempt
    Budget              \* how often each disturbance may happen

Disturbances == {"death", "evict", "fail", "stop", "retry"}

ASSUME PcmAssumption ==
    /\ Total \in Nat \ {0}
    /\ Step \in Nat \ {0}
    /\ Overlap \in Nat
    /\ Legacy \subseteq 0..Total
    /\ EvictDuringRun \in BOOLEAN
    /\ Budget \in [Disturbances -> Nat]

VARIABLES
    \* Room
    status,         \* of the job; PROCESSING counts as QUEUED, which is what
                    \* recovery makes of it
    checkpoint,     \* checkpointSample
    partial,        \* partialSegmentsJson
    transcript,     \* the segments committed with the transcript
    \* cache directory
    pcm,            \* length of job_N.pcm, 0 when absent or empty
    marker,         \* job_N.pcm.ready exists
    temp,           \* length of job_N.pcm.preparing
    \* the attempt
    pc,
    snapshot,       \* job: the row as read at the start
    rebuilt,        \* pcmNeedsPreparation
    total,          \* totalSamples
    start,          \* currentStartSample
    window,         \* end of the window read last, and PcmWindow.isLast
    heard,          \* accumulatedSegments
    stop,           \* what isCancelled() answers, and on whose behalf
    \* observation only
    saved,          \* end of the audio whose segments a checkpoint of the
                    \* present PCM file holds
    budget

room    == <<status, checkpoint, partial, transcript>>
cache   == <<pcm, marker, temp>>
attempt == <<pc, snapshot, rebuilt, total, start, window, heard>>
locals  == <<snapshot, rebuilt, total, start, window, heard>>

vars == <<room, cache, attempt, stop, saved, budget>>

\* Windows that whisper was given, by their first sample and their end.
Window == [from : Nat, to : 0..Total]

Segments == Seq(Window)

Nothing == <<>>

\* A list made from these windows has a segment in it.
HoldsSegments(segments) == \E i \in DOMAIN segments : segments[i] \notin Silent

NoWindow == [end |-> 0, isLast |-> FALSE]

\* Where a window that starts at p ends in a file of n units.
EndOfWindow(p, n) == IF p + Step + Overlap < n THEN p + Step + Overlap ELSE n

\* The first k windows of a file of n units.
Windows(k, n) ==
    [i \in 1..k |-> [from |-> (i - 1) * Step, to |-> EndOfWindow((i - 1) * Step, n)]]

\* The segments come from the first windows of a file of n units, each given
\* to the merger once and in its turn, and the next window starts at p.
MadeUpTo(segments, p, n) ==
    LET k == Len(segments)
    IN  /\ segments = Windows(k, n)
        /\ \A i \in 1..(k - 1) : segments[i].to < n
        /\ p = IF k > 0 /\ segments[k].to = n THEN n ELSE k * Step

Pcs == {"off", "begin", "decide", "clear", "unmark", "decode", "mark",
        "measure", "restore", "loop", "window", "save", "commit",
        "deletePcm", "deleteMarker"}

TypeOK ==
    /\ status \in {"QUEUED", "COMPLETED", "FAILED", "CANCELLED"}
    /\ checkpoint \in 0..Total
    /\ partial \in Segments
    /\ transcript \in Segments
    /\ pcm \in 0..Total
    /\ marker \in BOOLEAN
    /\ temp \in 0..Total
    /\ pc \in Pcs
    /\ snapshot \in [checkpoint : 0..Total, partial : Segments]
    /\ rebuilt \in BOOLEAN
    /\ total \in 0..Total
    /\ start \in 0..Total
    /\ window \in [end : 0..Total, isLast : BOOLEAN]
    /\ heard \in Segments
    /\ stop \in {"no", "user", "system"}
    /\ saved \in 0..Total
    /\ budget \in [Disturbances -> Nat]

Init ==
    /\ status = "QUEUED"
    /\ \/ pcm = 0 /\ checkpoint = 0 /\ partial = Nothing
       \/ /\ pcm \in Legacy
          /\ checkpoint \in 0..pcm
          /\ \E k \in 0..pcm : partial = Windows(k, pcm)
          /\ MadeUpTo(partial, checkpoint, pcm)
    /\ transcript = Nothing
    /\ marker = FALSE
    /\ temp = 0
    /\ pc = "off"
    /\ snapshot = [checkpoint |-> 0, partial |-> Nothing]
    /\ rebuilt = FALSE
    /\ total = 0
    /\ start = 0
    /\ window = NoWindow
    /\ heard = Nothing
    /\ stop = "no"
    /\ saved = 0
    /\ budget = Budget

Spend(kind) ==
    /\ budget[kind] > 0
    /\ budget' = [budget EXCEPT ![kind] = @ - 1]
-----------------------------------------------------------------------------
(* One attempt.                                                            *)

At(p) == pc = p

\* The points at which execute() asks isCancelled().
AsksIsCancelled == {"begin", "decide", "decode", "loop", "window", "commit"}

\* The points at which it may fail.
MayFail == {"begin", "clear", "unmark", "decode", "mark", "measure", "window", "save",
            "commit"}

\* The local variables of execute() are gone.
LeaveExecute ==
    /\ pc' = "off"
    /\ snapshot' = [checkpoint |-> 0, partial |-> Nothing]
    /\ rebuilt' = FALSE
    /\ total' = 0
    /\ start' = 0
    /\ window' = NoWindow
    /\ heard' = Nothing

\* processOne calls execute() on a queued job.
StartAttempt ==
    /\ At("off")
    /\ status = "QUEUED"
    /\ stop = "no"
    /\ pc' = "begin"
    /\ UNCHANGED <<room, cache, locals, stop, saved, budget>>

\* The model is loaded; queueRepository.getById(jobId)
ReadRow ==
    /\ At("begin")
    /\ stop = "no"
    /\ snapshot' = [checkpoint |-> checkpoint, partial |-> partial]
    /\ pc' = "decide"
    /\ UNCHANGED <<room, cache, rebuilt, total, start, window, heard, stop, saved, budget>>

NeedsPreparation == pcm = 0 \/ ~marker

Decide ==
    /\ At("decide")
    /\ rebuilt' = NeedsPreparation
    /\ pc' = IF NeedsPreparation THEN "clear" ELSE "measure"
    /\ UNCHANGED <<room, cache, snapshot, total, start, window, heard, stop, saved, budget>>

\* Faulty: a rebuilt file keeps the checkpoint of the old one.
KeepCheckpoint ==
    /\ At("clear")
    /\ pc' = "unmark"
    /\ UNCHANGED <<room, cache, locals, stop, saved, budget>>

\* queueRepository.clearCheckpoint before decoding starts
ClearForRebuild ==
    /\ At("clear")
    /\ checkpoint' = 0
    /\ partial' = Nothing
    /\ saved' = 0
    /\ pc' = "unmark"
    /\ UNCHANGED <<status, transcript, cache, locals, stop, budget>>

\* pcmReadyMarker.delete(), the storage check and tempPcm.delete()
RemoveMarker ==
    /\ At("unmark")
    /\ marker' = FALSE
    /\ temp' = 0
    /\ pc' = "decode"
    /\ UNCHANGED <<room, pcm, locals, stop, saved, budget>>

\* prepareToPcm16 writes to the temporary file ...
Decode ==
    /\ At("decode")
    /\ stop = "no"
    /\ temp < Total
    /\ temp' = temp + 1
    /\ UNCHANGED <<room, pcm, marker, attempt, stop, saved, budget>>

\* Faulty: marked as ready before it is in place.
MarkFirst ==
    /\ At("decode")
    /\ temp = Total
    /\ marker' = TRUE
    /\ pc' = "mark"
    /\ UNCHANGED <<room, pcm, temp, locals, stop, saved, budget>>

\* ... which is renamed when the decoder has come to its end,
RenameTemp ==
    /\ At("decode")
    /\ temp = Total
    /\ pcm' = temp
    /\ temp' = 0
    /\ pc' = "mark"
    /\ UNCHANGED <<room, marker, locals, stop, saved, budget>>

\* and marked.
CreateMarker ==
    /\ At("mark")
    /\ marker' = TRUE
    /\ pc' = "measure"
    /\ UNCHANGED <<room, pcm, temp, locals, stop, saved, budget>>

\* totalSamples; require(totalSamples > 0)
Measure ==
    /\ At("measure")
    /\ pcm > 0
    /\ total' = pcm
    /\ pc' = "restore"
    /\ UNCHANGED <<room, cache, snapshot, rebuilt, start, window, heard, stop, saved,
                   budget>>

\* Faulty: aligned to the length of a window instead of the step.
AlignedToWindows ==
    /\ snapshot.checkpoint \in 1..total
    /\ snapshot.checkpoint % (Step + Overlap) = 0 \/ snapshot.checkpoint = total

CheckpointIsConsistent ==
    /\ snapshot.checkpoint \in 1..total
    /\ snapshot.checkpoint % Step = 0 \/ snapshot.checkpoint = total

Resumable == ~rebuilt /\ CheckpointIsConsistent /\ HoldsSegments(snapshot.partial)

\* Resume from the row, or discard a checkpoint that does not fit.
Restore ==
    /\ At("restore")
    /\ pc' = "loop"
    /\ IF Resumable
       THEN /\ start' = snapshot.checkpoint
            /\ heard' = snapshot.partial
            /\ UNCHANGED <<checkpoint, partial>>
       ELSE /\ UNCHANGED <<start, heard>>
            /\ IF ~rebuilt /\ snapshot.checkpoint > 0
               THEN checkpoint' = 0 /\ partial' = Nothing
               ELSE UNCHANGED <<checkpoint, partial>>
    /\ UNCHANGED <<status, transcript, cache, snapshot, rebuilt, total, window,
                   stop, saved, budget>>

WindowEnd == EndOfWindow(start, pcm)

\* The head of the loop.  chunkReader.read answers null at the end of the
\* file as it is now, and the loop is left.
NextWindow ==
    /\ At("loop")
    /\ start < total => stop = "no"
    /\ IF start < total /\ start < pcm
       THEN /\ window' = [end |-> WindowEnd, isLast |-> WindowEnd >= pcm]
            /\ pc' = "window"
       ELSE /\ UNCHANGED window
            /\ pc' = "commit"
    /\ UNCHANGED <<room, cache, snapshot, rebuilt, total, start, heard, stop,
                   saved, budget>>

\* ChunkSegmentMerger.merge with the segments of the window.
Merge(segments) == Append(segments, [from |-> start, to |-> window.end])

\* Faulty: the last window is followed like the others.
NextStartIgnoresEnd == start + Step

NextStart == IF window.isLast THEN window.end ELSE start + Step

\* transcribe() and merge(); next the checkpoint, which is due after every
\* window because a window is longer than a minute.
TranscribeWindow ==
    /\ At("window")
    /\ stop = "no"
    /\ heard' = Merge(heard)
    /\ start' = NextStart
    /\ pc' = "save"
    /\ UNCHANGED <<room, cache, snapshot, rebuilt, total, window, stop, saved,
                   budget>>

SaveCheckpoint ==
    /\ At("save")
    /\ checkpoint' = start
    /\ partial' = heard
    /\ saved' = IF HoldsSegments(heard) THEN start ELSE 0
    /\ pc' = "loop"
    /\ UNCHANGED <<status, transcript, cache, locals, stop, budget>>

\* The transaction: transcript, clearCheckpoint and complete().
Commit ==
    /\ At("commit")
    /\ stop = "no"
    /\ transcript' = heard
    /\ status' = "COMPLETED"
    /\ checkpoint' = 0
    /\ partial' = Nothing
    /\ pc' = "deletePcm"
    /\ UNCHANGED <<cache, locals, stop, saved, budget>>

DeletePcm ==
    /\ At("deletePcm")
    /\ pcm' = 0
    /\ pc' = "deleteMarker"
    /\ UNCHANGED <<room, marker, temp, locals, stop, saved, budget>>

DeleteMarker ==
    /\ At("deleteMarker")
    /\ marker' = FALSE
    /\ LeaveExecute
    /\ stop' = "no"
    /\ UNCHANGED <<room, pcm, temp, saved, budget>>

\* Faulty: the stop outlives the attempt that it ended.
HonourStopForEver ==
    /\ pc \in AsksIsCancelled
    /\ At("loop") => start < total
    /\ stop # "no"
    /\ status' = IF stop = "user" THEN "CANCELLED" ELSE "QUEUED"
    /\ LeaveExecute
    /\ UNCHANGED <<checkpoint, partial, transcript, cache, stop, saved, budget>>

\* isCancelled() answered true: CancellationException, and processOne writes
\* CANCELLED or QUEUED.
HonourStop ==
    /\ pc \in AsksIsCancelled
    /\ At("loop") => start < total
    /\ stop # "no"
    /\ status' = IF stop = "user" THEN "CANCELLED" ELSE "QUEUED"
    /\ LeaveExecute
    /\ stop' = "no"
    /\ UNCHANGED <<checkpoint, partial, transcript, cache, saved, budget>>

\* An exception: no model, no storage, a decoder error, a failed rename (the
\* temporary file is deleted), an empty PCM file, a failed inference, a failed
\* statement or transaction.
Fail ==
    /\ pc \in MayFail
    /\ \/ Spend("fail")
       \/ pcm = 0 /\ pc \in {"measure", "window"} /\ UNCHANGED budget
    /\ \/ At("decode") /\ temp = Total /\ temp' = 0
       \/ UNCHANGED temp
    /\ status' = "FAILED"
    /\ LeaveExecute
    /\ stop' = "no"
    /\ UNCHANGED <<checkpoint, partial, transcript, pcm, marker, saved>>

AttemptStep ==
    \/ StartAttempt \/ ReadRow \/ Decide \/ ClearForRebuild \/ RemoveMarker
    \/ Decode \/ RenameTemp \/ CreateMarker \/ Measure \/ Restore
    \/ NextWindow \/ TranscribeWindow \/ SaveCheckpoint \/ Commit
    \/ DeletePcm \/ DeleteMarker \/ HonourStop \/ Fail
-----------------------------------------------------------------------------
(* What happens around it.                                                 *)

\* cancel() by the user; without an attempt it only writes the row.
UserCancels ==
    /\ status = "QUEUED"
    /\ Spend("stop")
    /\ IF At("off")
       THEN status' = "CANCELLED" /\ UNCHANGED stop
       ELSE stop' = "user" /\ UNCHANGED status
    /\ UNCHANGED <<checkpoint, partial, transcript, cache, attempt, saved>>

\* requeueCurrentForSystemStop
SystemStops ==
    /\ ~At("off")
    /\ stop = "no"
    /\ Spend("stop")
    /\ stop' = "system"
    /\ UNCHANGED <<room, cache, attempt, saved>>

\* retry() leaves the checkpoint alone.
Retry ==
    /\ status = "FAILED"
    /\ Spend("retry")
    /\ status' = "QUEUED"
    /\ UNCHANGED <<checkpoint, partial, transcript, cache, attempt, stop, saved>>

\* Android, or the user, empties the cache directory, file by file.
EvictCache ==
    /\ EvictDuringRun \/ At("off")
    /\ Spend("evict")
    /\ \/ pcm' = 0 /\ saved' = 0 /\ UNCHANGED marker
       \/ marker' = FALSE /\ UNCHANGED <<pcm, saved>>
    /\ UNCHANGED <<room, temp, attempt, stop>>

\* The process dies; recovery makes a PROCESSING row QUEUED.
ProcessDeath ==
    /\ ~At("off")
    /\ Spend("death")
    /\ LeaveExecute
    /\ stop' = "no"
    /\ UNCHANGED <<room, cache, saved>>

Next ==
    \/ AttemptStep
    \/ UserCancels \/ SystemStops \/ Retry \/ EvictCache \/ ProcessDeath

Spec == Init /\ [][Next]_vars

\* The queue comes back to a queued job and an attempt goes on.
FairSpec == Spec /\ WF_vars(AttemptStep)
-----------------------------------------------------------------------------
(* What must be true.                                                      *)

\* The marker: a PCM file that will be read without being rebuilt is the whole
\* recording, whatever was killed while it was made.
ReadyPcmIsWhole == marker /\ pcm # 0 => pcm = Total

\* The committed transcript was made from the windows of the whole recording,
\* none left out, repeated, out of turn or cut short, whatever the attempt
\* resumed from.
WholeTranscript == status = "COMPLETED" => MadeUpTo(transcript, Total, Total)

\* "Checkpoint resume from interrupted jobs without re-decoding or
\* re-transcribing completed audio windows" (play/release/GO_NO_GO.md): what a
\* checkpoint holds is not transcribed again, unless its PCM file went away
\* or, a case the code takes for no checkpoint, it holds no segment at all.
NoWindowTwice == At("window") => start >= saved

\* A job does not stay queued for ever.
JobEnds == status = "QUEUED" ~> status # "QUEUED"
=============================================================================
