------------------------------ MODULE NativeCall ------------------------------
(***************************************************************************)
(* What one call of WhisperNative.fullTranscribeWithPrompt promises its    *)
(* caller.  It goes through the audio from the front, at most one chunk at *)
(* a time, and reports the segments it finds through the listener.  It     *)
(* answers 0 only when the audio is through.  Once the listener's          *)
(* isCancelled() answers true, one more report may come, and then no more. *)
(*                                                                         *)
(* WhisperDecode implements this specification, WhisperEngine builds on it.*)
(***************************************************************************)
EXTENDS Integers

CONSTANTS
    Ends,       \* lengths a call may be given
    Chunk,      \* audio the encoder takes in at once
    DeltaMin,   \* a rest this short is not decoded
    MaxNew      \* segments found in one chunk, at most

VARIABLES
    at,         \* "running" or "over"
    end, pos,   \* length of the audio, and how far the call has come
    heard,      \* segments reported to the listener so far
    stop,       \* isCancelled() answers true
    late,       \* a report came after that
    code        \* "none" until the call returns, then "ok" or "failed"

callVars == <<at, end, pos, heard, stop, late, code>>

CallInit ==
    /\ at = "over" /\ code = "none"
    /\ end = 0 /\ pos = 0 /\ heard = 0
    /\ stop = FALSE /\ late = FALSE

Begin(n) ==
    /\ at = "over"
    /\ at' = "running" /\ code' = "none"
    /\ end' = n /\ pos' = 0 /\ heard' = 0
    /\ stop' \in BOOLEAN /\ late' = FALSE

AskToStop ==
    /\ stop' = TRUE
    /\ UNCHANGED <<at, end, pos, heard, late, code>>

Report ==
    /\ at = "running"
    /\ ~late
    /\ pos' \in pos .. pos + Chunk
    /\ heard' \in heard .. heard + MaxNew
    /\ late' = stop
    /\ UNCHANGED <<at, end, stop, code>>

Return(c) ==
    /\ at = "running"
    /\ c = "ok" => end - pos <= DeltaMin
    /\ at' = "over" /\ code' = c
    /\ UNCHANGED <<end, pos, heard, stop, late>>

CallNext ==
    \/ \E n \in Ends : Begin(n)
    \/ AskToStop
    \/ Report
    \/ Return("ok") \/ Return("failed")

CallSpec == CallInit /\ [][CallNext]_callVars
=============================================================================
