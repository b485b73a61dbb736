------------------------- MODULE PcmCheckpointProofs -------------------------
(***************************************************************************)
(* Proofs about PcmCheckpoint, for a recording of any length, any window   *)
(* geometry and any number of deaths, stops, failures and retries.         *)
(*                                                                         *)
(* Types are invariant whatever happens to the cache directory, and so is  *)
(* the meaning of the marker and that no window of a checkpoint is read    *)
(* twice.  That the committed transcript is whole needs the assumption     *)
(* that nobody empties the cache under an attempt.                         *)
(***************************************************************************)
EXTENDS PcmCheckpoint, TLAPS, SequenceTheorems

Rebuilding == {"decode", "mark"}

\* The marker is absent while the file is being replaced.
MarkerMeansWhole ==
    /\ ReadyPcmIsWhole
    /\ pc \in Rebuilding => ~marker
    /\ pc = "mark" => pcm \in {0, Total}

\* A window fits in the recording.
WindowFits ==
    pc = "window" => /\ start < window.end
                     /\ ~window.isLast => start + Step + Overlap = window.end

IInv == TypeOK /\ MarkerMeansWhole /\ WindowFits
-----------------------------------------------------------------------------
(* Types and the marker.                                                   *)

\* The first windows of a file are a list of windows.
LEMMA WindowsType ==
    ASSUME NEW k \in Nat, NEW n \in 0..Total
    PROVE  Windows(k, n) \in Segments
<1> USE PcmAssumption
<1>1. ASSUME NEW i \in 1..k
      PROVE  [from |-> (i - 1) * Step, to |-> EndOfWindow((i - 1) * Step, n)] \in Window
  <2>1. (i - 1) * Step \in Nat
    BY <1>1
  <2> DEFINE p == (i - 1) * Step
  <2> HIDE DEF p
  <2>2. p \in Nat => EndOfWindow(p, n) \in 0..Total
    BY DEF EndOfWindow
  <2> QED
    BY <2>1, <2>2 DEF p, Window
<1> DEFINE e(i) == [from |-> (i - 1) * Step, to |-> EndOfWindow((i - 1) * Step, n)]
<1>2. \A i \in 1..k : e(i) \in Window
  BY <1>1
<1> HIDE DEF e
<1>3. [i \in 1..k |-> e(i)] \in Seq(Window)
  BY <1>2
<1> QED
  BY <1>3 DEF e, Windows, Segments

\* No segments are a list of segments.
LEMMA NothingType == Nothing \in Segments
BY DEF Nothing, Segments

\* merge() keeps a list of segments.
LEMMA MergeType ==
    ASSUME NEW s \in Segments, start \in Nat, window.end \in 0..Total
    PROVE  Merge(s) \in Segments
BY DEF Merge, Segments, Window

\* The initial states, those left by an earlier build included.
LEMMA InitIInv == Init => IInv
<1> SUFFICES ASSUME Init PROVE IInv
  OBVIOUS
<1>1. pcm \in 0..Total /\ checkpoint \in 0..Total
  <2>1. CASE pcm = 0 /\ checkpoint = 0
    BY <2>1, PcmAssumption
  <2>2. CASE pcm \in Legacy /\ checkpoint \in 0..pcm
    BY <2>2, PcmAssumption
  <2> QED
    BY <2>1, <2>2 DEF Init
<1>2. partial \in Segments
  <2>1. \A k \in 0..pcm : Windows(k, pcm) \in Segments
    BY <1>1, WindowsType, PcmAssumption
  <2> QED
    BY <2>1, NothingType DEF Init
<1>3. TypeOK
  <2>1. Nothing \in Segments /\ 0 \in 0..Total /\ Budget \in [Disturbances -> Nat]
    BY NothingType, PcmAssumption
  <2> QED
    BY <1>1, <1>2, <2>1 DEF Init, TypeOK, NoWindow, Pcs
<1>4. MarkerMeansWhole /\ WindowFits
  BY DEF Init, MarkerMeansWhole, ReadyPcmIsWhole, WindowFits, Rebuilding
<1> QED
  BY <1>3, <1>4 DEF IInv

\* Leaving execute() in any way keeps the types of its local variables.
LEMMA LeaveType ==
    ASSUME LeaveExecute
    PROVE  /\ pc' = "off"
           /\ snapshot' \in [checkpoint : 0..Total, partial : Segments]
           /\ rebuilt' \in BOOLEAN /\ total' \in 0..Total /\ start' \in 0..Total
           /\ window' \in [end : 0..Total, isLast : BOOLEAN]
           /\ heard' \in Segments
<1>1. Nothing \in Segments
  BY NothingType
<1>2. 0 \in 0..Total
  BY PcmAssumption
<1> QED
  BY <1>1, <1>2 DEF LeaveExecute, NoWindow

\* Spending keeps the budget a budget.
LEMMA SpendType ==
    ASSUME budget \in [Disturbances -> Nat], NEW k \in Disturbances, Spend(k)
    PROVE  budget' \in [Disturbances -> Nat]
BY DEF Spend

\* Every step of an attempt, of its user and of the system keeps IInv.
LEMMA StepIInv == IInv /\ [Next]_vars => IInv'
<1> SUFFICES ASSUME IInv, [Next]_vars PROVE IInv'
  OBVIOUS
<1> USE PcmAssumption DEF IInv, At
<1>0. Nothing \in Segments /\ 0 \in 0..Total
  BY NothingType
<1>1. ASSUME StartAttempt PROVE IInv'
  <2>t. TypeOK'
    BY <1>1 DEF StartAttempt, TypeOK, Pcs, room, cache, locals
  <2>m. MarkerMeansWhole'
    BY <1>1 DEF StartAttempt, TypeOK, MarkerMeansWhole, ReadyPcmIsWhole, Rebuilding, room, cache
  <2>w. WindowFits'
    BY <1>1 DEF StartAttempt, TypeOK, WindowFits, room, cache, locals
  <2> QED
    BY <2>t, <2>m, <2>w
<1>2. ASSUME ReadRow PROVE IInv'
  BY <1>2 DEF ReadRow, TypeOK, MarkerMeansWhole, ReadyPcmIsWhole, WindowFits,
     Rebuilding, Pcs, room, cache
<1>3. ASSUME Decide PROVE IInv'
  BY <1>3 DEF Decide, NeedsPreparation, TypeOK, MarkerMeansWhole, ReadyPcmIsWhole, WindowFits,
     Rebuilding, Pcs, room, cache
<1>4. ASSUME ClearForRebuild PROVE IInv'
  BY <1>4, <1>0 DEF ClearForRebuild, TypeOK, MarkerMeansWhole, ReadyPcmIsWhole, WindowFits,
     Rebuilding, Pcs, cache, locals
<1>5. ASSUME RemoveMarker PROVE IInv'
  <2>t. TypeOK'
    BY <1>5, <1>0 DEF RemoveMarker, TypeOK, Pcs, room, locals
  <2>m. MarkerMeansWhole'
    BY <1>5 DEF RemoveMarker, TypeOK, MarkerMeansWhole, ReadyPcmIsWhole, Rebuilding, room, locals
  <2>w. WindowFits'
    BY <1>5 DEF RemoveMarker, TypeOK, WindowFits, room, locals
  <2> QED
    BY <2>t, <2>m, <2>w
<1>6. ASSUME Decode PROVE IInv'
  BY <1>6 DEF Decode, TypeOK, MarkerMeansWhole, ReadyPcmIsWhole, WindowFits,
     Rebuilding, Pcs, room, attempt
<1>7. ASSUME RenameTemp PROVE IInv'
  BY <1>7 DEF RenameTemp, TypeOK, MarkerMeansWhole, ReadyPcmIsWhole, WindowFits,
     Rebuilding, Pcs, room, locals
<1>8. ASSUME CreateMarker PROVE IInv'
  BY <1>8 DEF CreateMarker, TypeOK, MarkerMeansWhole, ReadyPcmIsWhole, WindowFits,
     Rebuilding, Pcs, room, locals
<1>9. ASSUME Measure PROVE IInv'
  BY <1>9 DEF Measure, TypeOK, MarkerMeansWhole, ReadyPcmIsWhole, WindowFits,
     Rebuilding, Pcs, room, cache
<1>10. ASSUME Restore PROVE IInv'
  <2>1. snapshot.checkpoint \in 0..Total /\ snapshot.partial \in Segments
    BY DEF TypeOK
  <2> QED
    BY <1>10, <1>0, <2>1
    DEF Restore, Resumable, TypeOK, MarkerMeansWhole, ReadyPcmIsWhole, WindowFits,
     Rebuilding, Pcs, cache
<1>11. ASSUME NextWindow PROVE IInv'
  <2>1. WindowEnd \in 0..Total /\ (start < pcm => start < WindowEnd)
    BY DEF WindowEnd, EndOfWindow, TypeOK
  <2>2. WindowEnd < pcm => WindowEnd = start + Step + Overlap
    BY DEF WindowEnd, EndOfWindow, TypeOK
  <2> DEFINE last == WindowEnd >= pcm
  <2>3. last \in BOOLEAN /\ (~last => WindowEnd < pcm)
    BY <2>1 DEF TypeOK
  <2>4. IF start < total /\ start < pcm
        THEN window' = [end |-> WindowEnd, isLast |-> last] /\ pc' = "window"
        ELSE window' = window /\ pc' = "commit"
    BY <1>11 DEF NextWindow
  <2> HIDE DEF last
  <2>5. window' \in [end : 0..Total, isLast : BOOLEAN]
    BY <2>1, <2>3, <2>4 DEF TypeOK
  <2>t. TypeOK'
    BY <1>11, <2>5 DEF NextWindow, TypeOK, Pcs, room, cache
  <2>m. MarkerMeansWhole'
    BY <1>11 DEF NextWindow, TypeOK, MarkerMeansWhole, ReadyPcmIsWhole, Rebuilding, room, cache
  <2>w. WindowFits'
    <3>1. CASE start < total /\ start < pcm
      <4>1. window'.end = WindowEnd /\ window'.isLast = last
        BY <2>4, <3>1
      <4>2. start' = start
        BY <1>11 DEF NextWindow
      <4> QED
        BY <2>1, <2>2, <2>3, <3>1, <4>1, <4>2 DEF WindowFits
    <3>2. CASE ~(start < total /\ start < pcm)
      BY <1>11, <3>2 DEF NextWindow, WindowFits
    <3> QED
      BY <3>1, <3>2
  <2> QED
    BY <2>t, <2>m, <2>w
<1>12. ASSUME TranscribeWindow PROVE IInv'
  <2>1. Merge(heard) \in Segments
    BY MergeType DEF TypeOK
  <2>2. NextStart \in 0..Total
    BY <1>12 DEF TranscribeWindow, NextStart, TypeOK, WindowFits
  <2> QED
    BY <1>12, <2>1, <2>2
    DEF TranscribeWindow, TypeOK, MarkerMeansWhole, ReadyPcmIsWhole, WindowFits,
     Rebuilding, Pcs, room, cache
<1>13. ASSUME SaveCheckpoint PROVE IInv'
  BY <1>13 DEF SaveCheckpoint, TypeOK, MarkerMeansWhole, ReadyPcmIsWhole, WindowFits,
     Rebuilding, Pcs, cache, locals
<1>14. ASSUME Commit PROVE IInv'
  BY <1>14, <1>0 DEF Commit, TypeOK, MarkerMeansWhole, ReadyPcmIsWhole, WindowFits,
     Rebuilding, Pcs, cache, locals
<1>15. ASSUME DeletePcm PROVE IInv'
  BY <1>15 DEF DeletePcm, TypeOK, MarkerMeansWhole, ReadyPcmIsWhole, WindowFits,
     Rebuilding, Pcs, room, locals
<1>16. ASSUME DeleteMarker PROVE IInv'
  BY <1>16, LeaveType DEF DeleteMarker, TypeOK, MarkerMeansWhole, ReadyPcmIsWhole, WindowFits,
     Rebuilding, Pcs, room
<1>17. ASSUME HonourStop PROVE IInv'
  BY <1>17, LeaveType DEF HonourStop, TypeOK, MarkerMeansWhole, ReadyPcmIsWhole, WindowFits,
     Rebuilding, Pcs, cache
<1>18. ASSUME Fail PROVE IInv'
  <2>1. budget' \in [Disturbances -> Nat]
    BY <1>18, SpendType DEF Fail, TypeOK, Disturbances
  <2>2. temp' \in 0..Total
    BY <1>18 DEF Fail, TypeOK
  <2> QED
    BY <1>18, <2>1, <2>2, LeaveType
    DEF Fail, TypeOK, MarkerMeansWhole, ReadyPcmIsWhole, WindowFits, Rebuilding, Pcs
<1>19. ASSUME UserCancels PROVE IInv'
  <2>1. budget' \in [Disturbances -> Nat]
    BY <1>19, SpendType DEF UserCancels, TypeOK, Disturbances
  <2> QED
    BY <1>19, <2>1
    DEF UserCancels, TypeOK, MarkerMeansWhole, ReadyPcmIsWhole, WindowFits, Rebuilding,
        cache, attempt
<1>20. ASSUME SystemStops PROVE IInv'
  <2>1. budget' \in [Disturbances -> Nat]
    BY <1>20, SpendType DEF SystemStops, TypeOK, Disturbances
  <2> QED
    BY <1>20, <2>1
    DEF SystemStops, TypeOK, MarkerMeansWhole, ReadyPcmIsWhole, WindowFits, Rebuilding,
        room, cache, attempt
<1>21. ASSUME Retry PROVE IInv'
  <2>1. budget' \in [Disturbances -> Nat]
    BY <1>21, SpendType DEF Retry, TypeOK, Disturbances
  <2> QED
    BY <1>21, <2>1
    DEF Retry, TypeOK, MarkerMeansWhole, ReadyPcmIsWhole, WindowFits, Rebuilding, cache,
        attempt
<1>22. ASSUME EvictCache PROVE IInv'
  <2>1. budget' \in [Disturbances -> Nat]
    BY <1>22, SpendType DEF EvictCache, TypeOK, Disturbances
  <2>t. TypeOK'
    BY ZenonT(60), <1>22, <1>0, <2>1 DEF EvictCache, TypeOK, Pcs, room, attempt
  <2>m. MarkerMeansWhole'
    BY <1>22, <2>1
    DEF EvictCache, TypeOK, MarkerMeansWhole, ReadyPcmIsWhole, Rebuilding, room, attempt
  <2>w. WindowFits'
    BY <1>22, <2>1 DEF EvictCache, TypeOK, WindowFits, room, attempt
  <2> QED
    BY <2>t, <2>m, <2>w
<1>23. ASSUME ProcessDeath PROVE IInv'
  <2>1. budget' \in [Disturbances -> Nat]
    BY <1>23, SpendType DEF ProcessDeath, TypeOK, Disturbances
  <2> QED
    BY <1>23, <2>1, LeaveType
    DEF ProcessDeath, TypeOK, MarkerMeansWhole, ReadyPcmIsWhole, WindowFits,
     Rebuilding, Pcs, room, cache
<1>24. ASSUME UNCHANGED vars PROVE IInv'
  BY <1>24 DEF vars, TypeOK, MarkerMeansWhole, ReadyPcmIsWhole, WindowFits, room, cache, attempt
<1> QED
  BY <1>1, <1>2, <1>3, <1>4, <1>5, <1>6, <1>7, <1>8, <1>9, <1>10, <1>11, <1>12,
     <1>13, <1>14, <1>15, <1>16, <1>17, <1>18, <1>19, <1>20, <1>21, <1>22, <1>23,
     <1>24 DEF Next, AttemptStep

\* IInv is invariant: Init, step, and the rule of temporal logic.
LEMMA IInvInvariant == Spec => []IInv
BY InitIInv, StepIInv, PTL DEF Spec

\* Every variable of the gateway keeps its type, start and checkpoint inside
\* the recording included.
THEOREM TypeCorrect == Spec => []TypeOK
<1>1. IInv => TypeOK
  BY DEF IInv
<1> QED
  BY <1>1, IInvInvariant, PTL

\* A PCM file with its marker is the whole recording, also when the cache is
\* emptied under a running attempt.
THEOREM MarkedPcmIsWhole == Spec => []ReadyPcmIsWhole
<1>1. IInv => ReadyPcmIsWhole
  BY DEF IInv, MarkerMeansWhole
<1> QED
  BY <1>1, IInvInvariant, PTL
-----------------------------------------------------------------------------
(* The whole transcript, when nobody empties the cache under an attempt.   *)

Preparing == {"clear", "unmark", "decode", "mark"}

Reading == {"measure", "restore", "loop", "window", "save", "commit"}

Transcribing == {"loop", "window", "save", "commit"}

Leaving == {"deletePcm", "deleteMarker"}

\* A rebuilt file meets no checkpoint of the file before it.
RebuildForgets ==
    /\ pc \in Preparing => rebuilt
    /\ pc \in Preparing \ {"clear"} => checkpoint = 0
    /\ pc = "mark" => pcm = Total

\* Past the preparation the file is the whole recording and stays so.
ReadsWholeFile ==
    /\ pc \in Reading => marker /\ pcm = Total
    /\ pc \in Reading \ {"measure"} => total = Total

\* A checkpoint that goes with a marked file holds the windows before it.
CheckpointFits ==
    marker /\ pcm # 0 /\ checkpoint > 0 => MadeUpTo(partial, checkpoint, Total)

\* The copy of the row that execute() resumes from is still that of the row.
SnapshotFits ==
    pc = "decide" \/ (pc \in {"measure", "restore"} /\ ~rebuilt)
        => snapshot.checkpoint = checkpoint /\ snapshot.partial = partial

\* What has been heard are the windows before the next one.
HeardFits ==
    /\ pc \notin Transcribing \cup Leaving => start = 0 /\ heard = Nothing
    /\ pc \in Transcribing => MadeUpTo(heard, start, Total)
    /\ pc = "window" => /\ window.end = EndOfWindow(start, Total)
                        /\ window.isLast <=> window.end = Total
    /\ pc = "commit" => start = Total

WInv ==
    /\ IInv
    /\ RebuildForgets /\ ReadsWholeFile /\ CheckpointFits /\ SnapshotFits
    /\ HeardFits /\ WholeTranscript

\* Before the first window no window has been heard.
LEMMA NothingHeard == MadeUpTo(Nothing, 0, Total)
<1>1. Len(Nothing) = 0 /\ Nothing = [i \in 1..0 |-> 0]
  BY DEF Nothing
<1>2. Nothing = Windows(0, Total)
  BY <1>1 DEF Windows, Nothing
<1> QED
  BY <1>1, <1>2, PcmAssumption DEF MadeUpTo

\* merge() adds the window that follows on those before, be it the last one
\* or not.
LEMMA MergeAdds ==
    ASSUME TypeOK, start < Total, MadeUpTo(heard, start, Total),
           window.end = EndOfWindow(start, Total),
           window.isLast <=> window.end = Total
    PROVE  MadeUpTo(Merge(heard), NextStart, Total)
<1> USE PcmAssumption
<1> DEFINE k == Len(heard)
           w == [from |-> start, to |-> window.end]
           more == Append(heard, w)
<1>0. start \in 0..Total /\ window.end \in 0..Total /\ heard \in Segments
  BY DEF TypeOK
<1>1. k \in Nat /\ heard = Windows(k, Total) /\ DOMAIN heard = 1..k
  BY <1>0 DEF MadeUpTo, Segments
<1>2. (k = 0 \/ heard[k].to # Total) /\ start = k * Step
  BY <1>0, <1>1 DEF MadeUpTo
<1>3. /\ more \in Seq(Window) /\ Len(more) = k + 1 /\ more[k + 1] = w
      /\ \A i \in 1..k : more[i] = heard[i]
  <2>1. heard \in Seq(Window) /\ w \in Window
    BY <1>0 DEF Segments, Window
  <2> QED
    BY <2>1, AppendProperties
<1>4. w = [from |-> k * Step, to |-> EndOfWindow(k * Step, Total)]
  BY <1>2
<1>m. Merge(heard) = more
  BY DEF Merge
<1>n. window.end = w.to /\ \A i \in 1..(k - 1) : heard[i].to < Total
  BY DEF MadeUpTo
<1> HIDE DEF w, more, k
<1>5. more = Windows(k + 1, Total)
  <2>1. ASSUME NEW i \in 1..(k + 1)
        PROVE  more[i] = [from |-> (i - 1) * Step, to |-> EndOfWindow((i - 1) * Step, Total)]
    <3>1. CASE i = k + 1
      <4>1. i - 1 = k
        BY <1>1, <3>1
      <4> QED
        BY <1>3, <1>4, <3>1, <4>1
    <3>2. CASE i # k + 1
      <4>1. i \in 1..k
        BY <1>1, <3>2
      <4>2. more[i] = heard[i] /\ heard[i] = Windows(k, Total)[i]
        BY <1>1, <1>3, <4>1
      <4> QED
        BY <4>1, <4>2 DEF Windows
    <3> QED
      BY <3>1, <3>2
  <2>2. Windows(k + 1, Total) \in Seq(Window)
    BY <1>1, WindowsType DEF Segments
  <2>3. Len(Windows(k + 1, Total)) = k + 1
    BY <1>1 DEF Windows
  <2>4. \A i \in 1..(k + 1) : Windows(k + 1, Total)[i] = more[i]
    BY <2>1 DEF Windows
  <2> QED
    BY <1>3, <2>2, <2>3, <2>4, SeqEqual
<1>6. \A i \in 1..k : more[i].to < Total
  <2>1. ASSUME NEW i \in 1..k, i = k PROVE heard[i].to < Total
    <3>1. heard[i] \in Window /\ heard[i].to # Total
      BY <1>0, <1>1, <1>2, <2>1, ElementOfSeq DEF Segments, k
    <3> QED
      BY <3>1 DEF Window
  <2>2. ASSUME NEW i \in 1..k, i # k PROVE heard[i].to < Total
    <3>1. i \in 1..(k - 1)
      BY <1>1, <2>2
    <3> QED
      BY <1>n, <3>1
  <2> QED
    BY <1>3, <2>1, <2>2
<1>7. NextStart = IF more[k + 1].to = Total THEN Total ELSE (k + 1) * Step
  <2>1. more[k + 1].to = window.end
    BY <1>3, <1>n
  <2>2. (k + 1) * Step = k * Step + Step
    BY <1>1
  <2> QED
    BY <1>0, <1>2, <2>1, <2>2 DEF NextStart
<1>8. (k + 1) - 1 = k /\ k + 1 > 0
  BY <1>1
<1> QED
  BY <1>m, <1>3, <1>5, <1>6, <1>7, <1>8 DEF MadeUpTo

\* The initial states.
LEMMA InitWInv == Init => WInv
BY InitIInv DEF Init, WInv,
  RebuildForgets, ReadsWholeFile, CheckpointFits, SnapshotFits,
   HeardFits, WholeTranscript, Preparing, Reading, Transcribing, Leaving

\* Every step keeps what makes the transcript whole, if the cache is only
\* emptied between attempts.
LEMMA StepWInv ==
    ASSUME ~EvictDuringRun
    PROVE  WInv /\ [Next]_vars => WInv'
<1> SUFFICES ASSUME WInv, [Next]_vars PROVE WInv'
  OBVIOUS
<1> USE PcmAssumption DEF At
<1>t. TypeOK /\ IInv'
  BY StepIInv DEF WInv, IInv
<1> DEFINE Parts == RebuildForgets /\ ReadsWholeFile /\ CheckpointFits
                    /\ SnapshotFits /\ HeardFits /\ WholeTranscript
<1>p. Parts
  BY DEF WInv
<1>1. ASSUME StartAttempt PROVE Parts'
  BY <1>1, <1>t, <1>p DEF StartAttempt, room, cache, locals,
     TypeOK, RebuildForgets, ReadsWholeFile, CheckpointFits, SnapshotFits,
     HeardFits, WholeTranscript, Preparing, Reading, Transcribing, Leaving
<1>2. ASSUME ReadRow PROVE Parts'
  BY <1>2, <1>t, <1>p DEF ReadRow, room, cache,
     TypeOK, RebuildForgets, ReadsWholeFile, CheckpointFits, SnapshotFits,
     HeardFits, WholeTranscript, Preparing, Reading, Transcribing, Leaving
<1>3. ASSUME Decide PROVE Parts'
  <2>1. ~NeedsPreparation => marker /\ pcm = Total
    BY <1>t DEF WInv, IInv, MarkerMeansWhole, ReadyPcmIsWhole, NeedsPreparation
  <2>2. /\ pc = "decide"
        /\ IF NeedsPreparation THEN rebuilt' /\ pc' = "clear"
                               ELSE ~rebuilt' /\ pc' = "measure"
    BY <1>3 DEF Decide
  <2>3. UNCHANGED <<room, cache, snapshot, start, heard>>
    BY <1>3 DEF Decide
  <2> QED
    BY <2>1, <2>2, <2>3, <1>t, <1>p DEF room, cache,
       RebuildForgets, ReadsWholeFile, CheckpointFits, SnapshotFits,
       HeardFits, WholeTranscript, Preparing, Reading, Transcribing, Leaving
<1>4. ASSUME ClearForRebuild PROVE Parts'
  BY <1>4, <1>t, <1>p DEF ClearForRebuild, cache, locals,
     TypeOK, RebuildForgets, ReadsWholeFile, CheckpointFits, SnapshotFits,
     HeardFits, WholeTranscript, Preparing, Reading, Transcribing, Leaving
<1>5. ASSUME RemoveMarker PROVE Parts'
  BY <1>5, <1>t, <1>p DEF RemoveMarker, room, locals,
     TypeOK, RebuildForgets, ReadsWholeFile, CheckpointFits, SnapshotFits,
     HeardFits, WholeTranscript, Preparing, Reading, Transcribing, Leaving
<1>6. ASSUME Decode PROVE Parts'
  BY <1>6, <1>t, <1>p DEF Decode, room, attempt,
     TypeOK, RebuildForgets, ReadsWholeFile, CheckpointFits, SnapshotFits,
     HeardFits, WholeTranscript, Preparing, Reading, Transcribing, Leaving
<1>7. ASSUME RenameTemp PROVE Parts'
  BY <1>7, <1>t, <1>p DEF RenameTemp, MarkerMeansWhole, Rebuilding, room, locals,
     TypeOK, RebuildForgets, ReadsWholeFile, CheckpointFits, SnapshotFits,
     HeardFits, WholeTranscript, Preparing, Reading, Transcribing, Leaving
<1>8. ASSUME CreateMarker PROVE Parts'
  BY <1>8, <1>t, <1>p DEF CreateMarker, room, locals,
     TypeOK, RebuildForgets, ReadsWholeFile, CheckpointFits, SnapshotFits,
     HeardFits, WholeTranscript, Preparing, Reading, Transcribing, Leaving
<1>9. ASSUME Measure PROVE Parts'
  BY <1>9, <1>t, <1>p DEF Measure, room, cache,
     TypeOK, RebuildForgets, ReadsWholeFile, CheckpointFits, SnapshotFits,
     HeardFits, WholeTranscript, Preparing, Reading, Transcribing, Leaving
<1>10. ASSUME Restore PROVE Parts'
  <2>1. pc = "restore" /\ pc' = "loop" /\ UNCHANGED <<status, transcript, cache, total, rebuilt>>
    BY <1>10 DEF Restore
  <2>2. marker /\ pcm = Total /\ total = Total /\ start = 0 /\ heard = Nothing /\ Total # 0
    BY <2>1, <1>p DEF ReadsWholeFile, HeardFits, Reading, Transcribing, Leaving
  <2>3. MadeUpTo(heard', start', Total)
    <3>1. CASE Resumable
      <4>1. snapshot.checkpoint = checkpoint /\ snapshot.partial = partial /\ checkpoint > 0
        BY <2>1, <3>1, <1>p DEF Resumable, CheckpointIsConsistent, SnapshotFits
      <4>2. MadeUpTo(partial, checkpoint, Total)
        BY <4>1, <2>2, <1>p DEF CheckpointFits
      <4> QED
        BY <1>10, <3>1, <4>1, <4>2 DEF Restore
    <3>2. CASE ~Resumable
      BY <1>10, <3>2, <2>2, NothingHeard DEF Restore
    <3> QED
      BY <3>1, <3>2
  <2>4. CheckpointFits'
    <3>1. UNCHANGED <<checkpoint, partial>> \/ checkpoint' = 0
      BY <1>10 DEF Restore
    <3> QED
      BY <3>1, <2>1, <1>p DEF CheckpointFits, cache
  <2>5. RebuildForgets' /\ ReadsWholeFile' /\ SnapshotFits' /\ WholeTranscript'
    BY <2>1, <2>2, <1>p DEF cache,
      RebuildForgets, ReadsWholeFile, CheckpointFits, SnapshotFits,
       HeardFits, WholeTranscript, Preparing, Reading, Transcribing, Leaving
  <2>6. HeardFits'
    BY <2>1, <2>3 DEF HeardFits, Transcribing, Leaving
  <2> QED
    BY <2>4, <2>5, <2>6
<1>11. ASSUME NextWindow PROVE Parts'
  <2>1. pc = "loop" /\ pc' \in {"window", "commit"} /\ UNCHANGED <<room, cache, total, start, heard, rebuilt>>
    BY <1>11 DEF NextWindow
  <2>2. marker /\ pcm = Total /\ total = Total /\ MadeUpTo(heard, start, Total)
    BY <2>1, <1>p DEF ReadsWholeFile, HeardFits, Reading, Transcribing
  <2>3. RebuildForgets' /\ ReadsWholeFile' /\ CheckpointFits' /\ SnapshotFits' /\ WholeTranscript'
    BY <2>1, <2>2, <1>p DEF room, cache,
      RebuildForgets, ReadsWholeFile, CheckpointFits, SnapshotFits,
       HeardFits, WholeTranscript, Preparing, Reading, Transcribing, Leaving
  <2>4. pc' = "commit" => start' = Total
    BY <1>11, <2>1, <2>2, <1>t DEF NextWindow, TypeOK
  <2>5. ASSUME pc' = "window"
        PROVE  /\ window'.end = EndOfWindow(start', Total)
               /\ window'.isLast <=> window'.end = Total
    <3> DEFINE last == WindowEnd >= pcm
    <3>1. last \in BOOLEAN /\ (last <=> WindowEnd = Total)
      BY <2>2, <1>t DEF WindowEnd, EndOfWindow, TypeOK
    <3>3. WindowEnd = EndOfWindow(start, Total) /\ start' = start
      BY <2>1, <2>2 DEF WindowEnd
    <3>2. window' = [end |-> WindowEnd, isLast |-> last]
      BY <1>11, <2>5 DEF NextWindow
    <3> HIDE DEF last
    <3> QED
      BY <3>1, <3>2, <3>3
  <2>6. HeardFits'
    BY <2>1, <2>2, <2>4, <2>5 DEF HeardFits, Transcribing, Leaving
  <2> QED
    BY <2>3, <2>6
<1>12. ASSUME TranscribeWindow PROVE Parts'
  <2>1. pc = "window" /\ pc' = "save" /\ UNCHANGED <<room, cache, total, rebuilt>>
        /\ heard' = Merge(heard) /\ start' = NextStart
    BY <1>12 DEF TranscribeWindow
  <2>2. marker /\ pcm = Total /\ total = Total /\ MadeUpTo(heard, start, Total)
        /\ window.end = EndOfWindow(start, Total)
        /\ (window.isLast <=> window.end = Total)
    BY <2>1, <1>p DEF ReadsWholeFile, HeardFits, Reading, Transcribing
  <2>3. start < window.end /\ (~window.isLast => start + Step + Overlap = window.end)
    BY <2>1 DEF WInv, IInv, WindowFits
  <2>4. start < Total
    BY <2>3, <1>t DEF TypeOK
  <2>5. MadeUpTo(heard', start', Total)
    BY <2>1, <2>2, <2>3, <2>4, <1>t, MergeAdds
  <2>6. HeardFits'
    BY <2>1, <2>5 DEF HeardFits, Transcribing, Leaving
  <2>7. RebuildForgets' /\ ReadsWholeFile' /\ CheckpointFits' /\ SnapshotFits' /\ WholeTranscript'
    BY <2>1, <2>2, <1>p DEF room, cache,
      RebuildForgets, ReadsWholeFile, CheckpointFits, SnapshotFits,
       HeardFits, WholeTranscript, Preparing, Reading, Transcribing, Leaving
  <2> QED
    BY <2>6, <2>7
<1>13. ASSUME SaveCheckpoint PROVE Parts'
  BY <1>13, <1>t, <1>p DEF SaveCheckpoint, cache, locals,
     TypeOK, RebuildForgets, ReadsWholeFile, CheckpointFits, SnapshotFits,
     HeardFits, WholeTranscript, Preparing, Reading, Transcribing, Leaving
<1>14. ASSUME Commit PROVE Parts'
  BY <1>14, <1>t, <1>p DEF Commit, cache, locals,
     TypeOK, RebuildForgets, ReadsWholeFile, CheckpointFits, SnapshotFits,
     HeardFits, WholeTranscript, Preparing, Reading, Transcribing, Leaving
<1>15. ASSUME DeletePcm PROVE Parts'
  BY <1>15, <1>t, <1>p DEF DeletePcm, room, locals,
     TypeOK, RebuildForgets, ReadsWholeFile, CheckpointFits, SnapshotFits,
     HeardFits, WholeTranscript, Preparing, Reading, Transcribing, Leaving
<1>16. ASSUME DeleteMarker PROVE Parts'
  BY <1>16, <1>t, <1>p DEF DeleteMarker, LeaveExecute, room,
     TypeOK, RebuildForgets, ReadsWholeFile, CheckpointFits, SnapshotFits,
     HeardFits, WholeTranscript, Preparing, Reading, Transcribing, Leaving
<1>17. ASSUME HonourStop PROVE Parts'
  BY <1>17, <1>t, <1>p DEF HonourStop, LeaveExecute, AsksIsCancelled, cache,
     TypeOK, RebuildForgets, ReadsWholeFile, CheckpointFits, SnapshotFits,
     HeardFits, WholeTranscript, Preparing, Reading, Transcribing, Leaving
<1>18. ASSUME Fail PROVE Parts'
  BY <1>18, <1>t, <1>p DEF Fail, LeaveExecute, MayFail,
     TypeOK, RebuildForgets, ReadsWholeFile, CheckpointFits, SnapshotFits,
     HeardFits, WholeTranscript, Preparing, Reading, Transcribing, Leaving
<1>19. ASSUME UserCancels PROVE Parts'
  BY <1>19, <1>t, <1>p DEF UserCancels, cache, attempt,
     TypeOK, RebuildForgets, ReadsWholeFile, CheckpointFits, SnapshotFits,
     HeardFits, WholeTranscript, Preparing, Reading, Transcribing, Leaving
<1>20. ASSUME SystemStops PROVE Parts'
  BY <1>20, <1>t, <1>p DEF SystemStops, room, cache, attempt,
     TypeOK, RebuildForgets, ReadsWholeFile, CheckpointFits, SnapshotFits,
     HeardFits, WholeTranscript, Preparing, Reading, Transcribing, Leaving
<1>21. ASSUME Retry PROVE Parts'
  BY <1>21, <1>t, <1>p DEF Retry, cache, attempt,
     TypeOK, RebuildForgets, ReadsWholeFile, CheckpointFits, SnapshotFits,
     HeardFits, WholeTranscript, Preparing, Reading, Transcribing, Leaving
<1>22. ASSUME EvictCache PROVE Parts'
  BY <1>22, <1>t, <1>p DEF EvictCache, room, attempt,
     TypeOK, RebuildForgets, ReadsWholeFile, CheckpointFits, SnapshotFits,
     HeardFits, WholeTranscript, Preparing, Reading, Transcribing, Leaving
<1>23. ASSUME ProcessDeath PROVE Parts'
  BY <1>23, <1>t, <1>p DEF ProcessDeath, LeaveExecute, room, cache,
     TypeOK, RebuildForgets, ReadsWholeFile, CheckpointFits, SnapshotFits,
     HeardFits, WholeTranscript, Preparing, Reading, Transcribing, Leaving
<1>24. ASSUME UNCHANGED vars PROVE Parts'
  BY <1>24, <1>p DEF vars, room, cache, attempt,
    RebuildForgets, ReadsWholeFile, CheckpointFits, SnapshotFits,
     HeardFits, WholeTranscript, Preparing, Reading, Transcribing, Leaving
<1> HIDE DEF Parts
<1>q. Parts'
  BY <1>1, <1>2, <1>3, <1>4, <1>5, <1>6, <1>7, <1>8, <1>9, <1>10, <1>11, <1>12, <1>13,
      <1>14, <1>15, <1>16, <1>17, <1>18, <1>19, <1>20, <1>21, <1>22, <1>23, <1>24
     DEF Next, AttemptStep
<1> QED
  BY <1>t, <1>q DEF WInv, Parts

\* The committed transcript was made from the windows of the whole recording,
\* each of them once and in its turn, after any number of deaths, stops, failures, retries and rebuilt files, if
\* the cache directory is only emptied between two attempts.  (The runs show
\* that it need not be whole when it is emptied under one.)
THEOREM TranscriptIsWhole ==
    ASSUME ~EvictDuringRun
    PROVE  Spec => []WholeTranscript
<1>1. WInv => WholeTranscript
  BY DEF WInv
<1>2. WInv /\ [Next]_vars => WInv'
  BY StepWInv
<1> QED
  BY <1>1, <1>2, InitWInv, PTL DEF Spec
-----------------------------------------------------------------------------
(* Resuming.                                                               *)

\* The checkpoint that is saved is one that the next attempt will resume from
\* if it finds the PCM file and the marker.
SavedIsResumable ==
    saved # 0 /\ status # "COMPLETED" /\ pcm # 0 =>
        /\ checkpoint = saved /\ HoldsSegments(partial)
        /\ saved <= pcm
        /\ saved % Step = 0 \/ saved = pcm

\* What an attempt knows of the row and of the file before its first window.
SnapshotIsRow ==
    /\ status = "COMPLETED" => pc \in {"off", "deletePcm", "deleteMarker"}
    /\ pc \in {"clear", "unmark", "decode", "mark"} => rebuilt
    /\ pc = "decide" \/ (pc \in {"measure", "restore"} /\ ~rebuilt) =>
           snapshot.checkpoint = checkpoint /\ snapshot.partial = partial
    /\ pc \in {"unmark", "decode", "mark"} => saved = 0
    /\ pc \in {"measure", "restore"} /\ (rebuilt \/ pcm = 0) => saved = 0
    /\ pc = "restore" /\ pcm # 0 => total = pcm
    /\ pc \notin {"loop", "window", "save", "commit", "deletePcm", "deleteMarker"} => start = 0

\* The windows: an attempt is never behind what is saved, and starts its
\* windows at multiples of the step up to the end of the file.
Ahead ==
    /\ pc \in {"loop", "window", "save"} => saved <= start
    /\ pc \in {"loop", "window", "save"} /\ pcm # 0 =>
           start <= pcm /\ (start % Step = 0 \/ start = pcm)
    /\ pc = "window" /\ pcm # 0 =>
           start % Step = 0 /\ window.end <= pcm /\ (window.isLast => window.end = pcm)

SInv == IInv /\ SavedIsResumable /\ SnapshotIsRow /\ Ahead
-----------------------------------------------------------------------------
\* A multiple of s leaves no remainder, and neither does what is s further.
LEMMA Multiple == ASSUME NEW s \in Int, s > 0, NEW k \in Int PROVE (k * s) % s = 0
<1> DEFINE d == (k * s) \div s
           r == (k * s) % s
<1>1. d \in Int /\ r \in Int /\ 0 <= r /\ r < s /\ k * s = s * d + r
  OBVIOUS
<1> HIDE DEF d, r
<1>2. (k - d) * s = r
  BY <1>1
<1>3. k - d <= 0
  <2>1. ASSUME k - d >= 1 PROVE FALSE
    <3>1. (k - d - 1) * s >= 0
      BY <1>1, <2>1
    <3>2. (k - d - 1) * s = (k - d) * s - s
      BY <1>1
    <3> QED BY <1>1, <1>2, <3>1, <3>2
  <2> QED BY <1>1, <2>1
<1>4. k - d >= 0
  <2>1. ASSUME k - d <= -1 PROVE FALSE
    <3>1. (d - k - 1) * s >= 0
      BY <1>1, <2>1
    <3>2. (d - k - 1) * s = 0 - (k - d) * s - s
      BY <1>1
    <3> QED BY <1>1, <1>2, <3>1, <3>2
  <2> QED BY <1>1, <2>1
<1>5. k - d = 0
  BY <1>1, <1>3, <1>4
<1>6. r = 0
  BY <1>1, <1>2, <1>5
<1> QED BY <1>6 DEF r
\* One step further is a multiple again.
LEMMA NextMultiple == ASSUME NEW s \in Int, s > 0, NEW p \in Int, p % s = 0 PROVE (p + s) % s = 0
<1>1. p = s * (p \div s) + (p % s)
  OBVIOUS
<1> DEFINE q == p \div s
<1>2. q \in Int
  OBVIOUS
<1> HIDE DEF q
<1>3. p + s = (q + 1) * s
  BY <1>1, <1>2 DEF q
<1>4. ((q + 1) * s) % s = 0
  BY <1>2, Multiple
<1> QED BY <1>3, <1>4

\* The initial states: nothing has been saved.
LEMMA InitSInv == Init => SInv
BY InitIInv DEF Init, SInv, SavedIsResumable, SnapshotIsRow, Ahead

\* Every step preserves it.
LEMMA StepSInv == ASSUME SInv, [Next]_vars PROVE SInv'
<1>i. IInv'
  BY StepIInv DEF SInv
<1> USE PcmAssumption DEF SInv, IInv, TypeOK, WindowFits, At, SavedIsResumable, SnapshotIsRow, Ahead, room, cache, attempt, locals
<1>1. ASSUME StartAttempt PROVE SInv'
  BY <1>i, <1>1 DEF StartAttempt
<1>2. ASSUME ReadRow PROVE SInv'
  BY <1>i, <1>2 DEF ReadRow
<1>3. ASSUME Decide PROVE SInv'
  BY <1>i, <1>3 DEF Decide, NeedsPreparation
<1>4. ASSUME ClearForRebuild PROVE SInv'
  BY <1>i, <1>4 DEF ClearForRebuild
<1>5. ASSUME RemoveMarker PROVE SInv'
  BY <1>i, <1>5 DEF RemoveMarker
<1>6. ASSUME Decode PROVE SInv'
  BY <1>i, <1>6 DEF Decode
<1>7. ASSUME RenameTemp PROVE SInv'
  BY <1>i, <1>7 DEF RenameTemp
<1>8. ASSUME CreateMarker PROVE SInv'
  BY <1>i, <1>8 DEF CreateMarker
<1>9. ASSUME Measure PROVE SInv'
  BY <1>i, <1>9 DEF Measure
<1>10. ASSUME Restore PROVE SInv'
  <2>1. pc = "restore" /\ pc' = "loop" /\ UNCHANGED <<status, pcm, saved, total>>
    BY <1>10 DEF Restore
  <2>2. ASSUME saved # 0
        PROVE  pcm # 0 /\ ~rebuilt /\ Resumable /\ snapshot.checkpoint = saved
    BY <2>1, <2>2 DEF Resumable, CheckpointIsConsistent
  <2>3. CASE Resumable
    <3>1. start' = snapshot.checkpoint /\ UNCHANGED <<checkpoint, partial>>
      BY <1>10, <2>3 DEF Restore
    <3>2. pcm # 0 => start' <= pcm /\ (start' % Step = 0 \/ start' = pcm)
      BY <2>1, <2>3, <3>1 DEF Resumable, CheckpointIsConsistent
    <3> QED
      BY <1>i, <2>1, <2>2, <3>1, <3>2
  <2>4. CASE ~Resumable
    <3>1. saved = 0 /\ start' = start /\ start = 0
      BY <1>10, <2>1, <2>2, <2>4 DEF Restore
    <3>2. 0 % Step = 0
      OBVIOUS
    <3> QED
      BY <1>i, <2>1, <3>1, <3>2
  <2> QED
    BY <2>3, <2>4
<1>11. ASSUME NextWindow PROVE SInv'
  BY <1>i, <1>11 DEF NextWindow, WindowEnd, EndOfWindow
<1>12. ASSUME TranscribeWindow PROVE SInv'
  <2>1. /\ pc = "window" /\ pc' = "save" /\ UNCHANGED <<status, pcm, saved, checkpoint, partial>>
        /\ start' = IF window.isLast THEN window.end ELSE start + Step
    BY <1>12 DEF TranscribeWindow, NextStart
  <2>2. start % Step = 0 => (start + Step) % Step = 0
    <3>1. start \in Int /\ Step \in Int /\ Step > 0
      OBVIOUS
    <3> QED
      BY <3>1, NextMultiple
  <2>3. saved <= start'
    BY <2>1
  <2>4. pcm # 0 => start' <= pcm /\ (start' % Step = 0 \/ start' = pcm)
    BY <2>1, <2>2
  <2> QED
    BY <1>i, <2>1, <2>3, <2>4
<1>13. ASSUME SaveCheckpoint PROVE SInv'
  BY <1>i, <1>13 DEF SaveCheckpoint
<1>14. ASSUME Commit PROVE SInv'
  BY <1>i, <1>14 DEF Commit
<1>15. ASSUME DeletePcm PROVE SInv'
  BY <1>i, <1>15 DEF DeletePcm
<1>16. ASSUME DeleteMarker PROVE SInv'
  BY <1>i, <1>16 DEF DeleteMarker, LeaveExecute
<1>17. ASSUME HonourStop PROVE SInv'
  BY <1>i, <1>17 DEF HonourStop, LeaveExecute, AsksIsCancelled
<1>18. ASSUME Fail PROVE SInv'
  BY <1>i, <1>18 DEF Fail, LeaveExecute, MayFail
<1>19. ASSUME UserCancels PROVE SInv'
  BY <1>i, <1>19 DEF UserCancels
<1>20. ASSUME SystemStops PROVE SInv'
  BY <1>i, <1>20 DEF SystemStops
<1>21. ASSUME Retry PROVE SInv'
  BY <1>i, <1>21 DEF Retry
<1>22. ASSUME EvictCache PROVE SInv'
  <2>1. /\ UNCHANGED <<status, checkpoint, partial, pc, snapshot, rebuilt, total, start, window>>
        /\ (pcm' = 0 /\ saved' = 0) \/ UNCHANGED <<pcm, saved>>
    BY <1>22 DEF EvictCache
  <2>2. CASE pcm' = 0 /\ saved' = 0
    BY <1>i, <2>1, <2>2
  <2>3. CASE UNCHANGED <<pcm, saved>>
    BY <1>i, <2>1, <2>3
  <2> QED
    BY <2>1, <2>2, <2>3
<1>23. ASSUME ProcessDeath PROVE SInv'
  BY <1>i, <1>23 DEF ProcessDeath, LeaveExecute
<1>24. ASSUME UNCHANGED vars PROVE SInv'
  BY <1>i, <1>24 DEF vars
<1> QED
  BY <1>1, <1>2, <1>3, <1>4, <1>5, <1>6, <1>7, <1>8, <1>9, <1>10, <1>11,
     <1>12, <1>13, <1>14, <1>15, <1>16, <1>17, <1>18, <1>19, <1>20, <1>21,
     <1>22, <1>23, <1>24 DEF Next, AttemptStep

\* No window whose segments a checkpoint holds is transcribed again: not after
\* a death, a stop, a failure or a retry, and not when the cache directory is
\* emptied, unless the PCM file itself went away.
THEOREM NothingTwice == Spec => []NoWindowTwice
<1>1. SInv => NoWindowTwice
  BY DEF SInv, IInv, TypeOK, Ahead, NoWindowTwice, At
<1>2. SInv /\ [Next]_vars => SInv'
  BY StepSInv
<1> QED
  BY <1>1, <1>2, InitSInv, PTL DEF Spec
=============================================================================
