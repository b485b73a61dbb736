---------------------------- MODULE WhisperDecode ----------------------------
(***************************************************************************)
(* whisper_full_with_state() of whisper.cpp as whisper_jni.cpp calls it:   *)
(* greedy sampling, timestamps on, no context from earlier calls.  Each    *)
(* round of the main loop encodes one chunk, decodes it token by token,    *)
(* again at a higher temperature when that fails, reports the segments of  *)
(* the best sequence, and moves to where its last timestamp points.        *)
(*                                                                         *)
(* A token is Text, Eot or the timestamp token that lies n time units into *)
(* the chunk.  Probabilities are left open: any token that the logit       *)
(* filters leave may be sampled, any surviving sequence may score best.    *)
(***************************************************************************)
EXTENDS Integers, Sequences, SequencesExt

CONSTANTS
    Ends,           \* lengths of audio that a call is given
    Chunk,          \* WHISPER_CHUNK_SIZE
    DeltaMin,       \* delta_min
    MaxInitial,     \* max_initial_ts, latest timestamp to begin with
    MaxTokens,      \* n_max, tokens per sequence
    LongSequence,   \* result_len from which the entropy is looked at
    Temperatures,   \* number of temperatures to try
    BestOf,         \* decoders used above temperature 0
    Languages,      \* subset of {"auto", "fixed"}
    KvMayFail,      \* whisper_kv_cache_init() may run out of memory
    MaxCalls        \* bound on the number of calls

ASSUME SizesAssumption ==
    /\ Ends \subseteq Nat
    /\ Chunk \in Nat /\ DeltaMin \in Nat /\ MaxInitial \in 0..Chunk
    /\ {MaxTokens, LongSequence, Temperatures, BestOf} \subseteq Nat \ {0}
    /\ 0 < Chunk
    /\ MaxCalls \in Nat

ASSUME LanguagesAssumption == Languages \subseteq {"auto", "fixed"}

VARIABLES
    pc,         \* the next computation or decision of the call
    language,   \* params.language
    end,        \* seek_end
    seek,       \* start of the chunk at hand
    temp,       \* index into temperatures
    decoder,    \* state->decoders
    best,       \* best_decoder_id
    silent,     \* is_no_speech
    results,    \* state->result_all
    reported,   \* what on_new_segment_callback passed to the listener
    kv,         \* state->kv_self_n_dec, 0 once the state has been freed
    stop,       \* what the listener's isCancelled() answers
    late,       \* (history) a chunk was reported after that
    code,       \* what the call returned
    calls       \* number of calls so far

vars == <<pc, language, end, seek, temp, decoder, best, silent, results,
          reported, kv, stop, late, code, calls>>

Text == -1
Eot == -2
Tokens == {Text, Eot} \cup 0..Chunk

\* A segment is the time it ends at.
Segment == Nat

Decoder ==
    [tokens : Seq(Tokens), len : 0..MaxTokens, delta : 0..Chunk,
     hasTs : BOOLEAN, failed : BOOLEAN, completed : BOOLEAN]

FreshDecoder ==
    [tokens |-> <<>>, len |-> 0, delta |-> Chunk,
     hasTs |-> FALSE, failed |-> FALSE, completed |-> FALSE]

Init ==
    /\ pc = "over" /\ code = "none"
    /\ language = "fixed"
    /\ end = 0 /\ seek = 0
    /\ temp = 1 /\ best = 1 /\ silent = FALSE
    /\ decoder = <<FreshDecoder>>
    /\ results = <<>> /\ reported = <<>>
    /\ kv = 1
    /\ stop = FALSE /\ late = FALSE
    /\ calls = 0
-----------------------------------------------------------------------------
(* The logit filters and the bookkeeping of one decoder.                   *)

IsTimestamp(s) == s >= 0

Over(d) == d.failed \/ d.completed

LastToken(d) == d.tokens[Len(d.tokens)]

\* Timestamps come in pairs, except directly before the end of the text.
Paired(d) == Len(d.tokens) < 2 \/ IsTimestamp(d.tokens[Len(d.tokens) - 1])

\* Faulty: timestamps may go back.
AnyOrder(d) ==
    {s \in Tokens :
        /\ d.tokens = <<>> => s # Eot /\ s <= MaxInitial
        /\ d.tokens # <<>> /\ IsTimestamp(LastToken(d)) =>
               IF Paired(d) THEN ~IsTimestamp(s) ELSE s # Text}

Allowed(d) ==
    {s \in Tokens :
        /\ d.tokens = <<>> => s # Eot /\ s <= MaxInitial
        /\ d.tokens # <<>> /\ IsTimestamp(LastToken(d)) =>
               IF Paired(d) THEN ~IsTimestamp(s) ELSE s # Text
        /\ d.hasTs /\ IsTimestamp(s) => s >= d.delta}

\* Faulty: token_beg itself, the timestamp 0, moves the window too.
MovesWindowAtZero(s) == s >= 0

MovesWindow(s) == s > 0

\* The end of the audio is reached, within 100 ms.
AtEnd(delta) == seek + delta + DeltaMin >= end

\* "Update the decoder state" of the token loop after token s.
Take(d, s) ==
    LET n     == Len(d.tokens) + 1
        moves == MovesWindow(s)
        back  == moves /\ d.hasTs /\ d.delta > s /\ d.len < n - 1
        delta == IF moves THEN s ELSE d.delta
        len   == IF moves THEN n ELSE d.len
        ends  == s = Eot \/ ((d.hasTs \/ moves) /\ AtEnd(delta))
        empty == len = 0 /\ ~AtEnd(delta)
        loops == n = MaxTokens /\ (len = 0 \/ 2 * delta < Chunk)
    IN IF back
       THEN [d EXCEPT !.tokens = Append(@, s), !.failed = TRUE]
       ELSE [d EXCEPT !.tokens    = Append(@, s),
                      !.delta     = delta,
                      !.len       = IF ends /\ len = 0 /\ ~empty THEN n ELSE len,
                      !.hasTs     = @ \/ moves,
                      !.failed    = IF ends THEN empty ELSE loops,
                      !.completed = ends /\ ~empty]

\* The sequence as it is emitted: a segment ends at every timestamp that
\* follows a text, and at the end of the window if some text is left.
Emitted(d) ==
    LET Step(acc, s) ==
            IF s = Text THEN [acc EXCEPT !.text = TRUE]
            ELSE IF s > 0 /\ acc.text
            THEN [segments |-> Append(acc.segments, seek + s), text |-> FALSE]
            ELSE acc
        all == FoldLeft(Step, [segments |-> <<>>, text |-> FALSE], d.tokens)
    IN IF all.text THEN Append(all.segments, seek + d.delta) ELSE all.segments

Smaller(a, b) == IF a < b THEN a ELSE b

\* A chunk that ends with one lone timestamp is skipped to its end.
SingleTimestampEnding(d) ==
    /\ Len(d.tokens) > 1
    /\ ~IsTimestamp(d.tokens[Len(d.tokens) - 1])
    /\ LastToken(d) > 0

\* Faulty: the rest of the audio is skipped, however long.
AdvanceToEnd(d) == IF SingleTimestampEnding(d) THEN end - seek ELSE d.delta

Advance(d) ==
    IF SingleTimestampEnding(d) THEN Smaller(end - seek, Chunk) ELSE d.delta
-----------------------------------------------------------------------------
(* The steps of a call.                                                    *)

chunkVars == <<temp, decoder, best, silent>>
callVars == <<language, end, calls>>

\* What the chunk left in the decoders is not looked at again.
ForgetChunk ==
    /\ temp' = 1 /\ best' = 1 /\ silent' = FALSE
    /\ decoder' = <<FreshDecoder>>

ReturnCode(c) ==
    /\ pc' = "over"
    /\ code' = c
    /\ ForgetChunk
    /\ UNCHANGED <<callVars, seek, results, reported, kv, stop, late>>

\* The JNI function fills in the parameters and calls whisper_full().
Call(n, l) ==
    /\ pc = "over"
    /\ kv > 0
    /\ calls < MaxCalls
    /\ calls' = calls + 1
    /\ pc' = "begin"
    /\ end' = n /\ language' = l
    /\ seek' = 0 /\ code' = "none"
    /\ reported' = <<>>
    /\ stop' \in BOOLEAN /\ late' = FALSE
    /\ UNCHANGED <<chunkVars, results, kv>>

\* A context whose state was freed by a failed call is used again.
CallOnFreedState ==
    /\ pc = "over"
    /\ kv = 0
    /\ calls < MaxCalls
    /\ pc' = "undefined"
    /\ UNCHANGED <<callVars, seek, chunkVars, results, reported, kv, stop,
                   late, code>>

\* The caller cancels: isCancelled() answers true from now on.
CallerCancels ==
    /\ ~stop
    /\ pc \notin {"over", "undefined"}
    /\ stop' = TRUE
    /\ UNCHANGED <<pc, callVars, seek, chunkVars, results, reported, kv,
                   late, code>>

\* From the start of whisper_full_with_state() to its main loop.  The JNI
\* function sets detect_language along with the language "auto".
BeginCall ==
    /\ pc = "begin"
    /\ results' = <<>>
    /\ UNCHANGED <<callVars, seek, chunkVars, reported, kv, stop, late>>
    /\ IF language = "auto"
       THEN pc' = "over" /\ code' \in {"ok", "failed"}
       ELSE IF end < DeltaMin
            THEN pc' = "over" /\ code' = "ok"
            ELSE pc' = "loop" /\ UNCHANGED code

LoopHead ==
    /\ pc = "loop"
    /\ IF seek + DeltaMin >= end
       THEN ReturnCode("ok")
       ELSE /\ pc' = "encode"
            /\ UNCHANGED <<callVars, seek, chunkVars, results, reported,
                           kv, stop, late, code>>

\* An encoder or decoder run ends by asking the abort callback; an abort is
\* returned as a failure.
GoesThrough == ~stop

Encode ==
    /\ pc = "encode"
    /\ \/ ReturnCode("failed")
       \/ /\ GoesThrough
          /\ pc' = "prompt"
          /\ UNCHANGED <<callVars, seek, chunkVars, results, reported, kv,
                         stop, late, code>>

Decoders == IF temp = 1 THEN 1 ELSE BestOf

\* The decoders are initialised for this temperature, the cache is enlarged
\* if there are more of them, and the prompt is decoded.
DecodePrompt ==
    /\ pc = "prompt"
    /\ GoesThrough
    /\ pc' = "token"
    /\ decoder' = [j \in 1..Decoders |-> FreshDecoder]
    /\ kv' = IF kv < Decoders THEN Decoders ELSE kv
    /\ UNCHANGED <<callVars, seek, temp, best, silent, results, reported,
                   stop, late, code>>

DecodePromptFails ==
    /\ pc = "prompt"
    /\ pc' = "over" /\ code' = "failed"
    /\ ForgetChunk
    /\ \/ kv' = IF kv < Decoders THEN Decoders ELSE kv
       \/ KvMayFail /\ kv < Decoders /\ kv' = 0
    /\ UNCHANGED <<callVars, seek, results, reported, stop, late>>

Active == {j \in DOMAIN decoder : ~Over(decoder[j])}

\* Every active decoder samples a token; unless all are over, the next
\* logits are computed.
SampleToken ==
    /\ pc = "token"
    /\ \E s \in [Active -> Tokens] :
         /\ \A j \in Active : s[j] \in Allowed(decoder[j])
         /\ decoder' = [j \in DOMAIN decoder |->
               IF j \in Active THEN Take(decoder[j], s[j]) ELSE decoder[j]]
    /\ LET finished == \A j \in DOMAIN decoder : Over(decoder'[j])
           spent    == \E j \in Active : Len(decoder'[j].tokens) = MaxTokens
       IN \/ finished /\ pc' = "rank"
          \/ ~finished /\ GoesThrough /\ pc' = IF spent THEN "rank" ELSE "token"
    /\ UNCHANGED <<callVars, seek, temp, best, silent, results, reported, kv,
                   stop, late, code>>

\* The same when the computation of the next logits fails or is aborted.
NextLogitsFail ==
    /\ pc = "token"
    /\ \E s \in [Active -> Tokens] :
         /\ \A j \in Active : s[j] \in Allowed(decoder[j])
         /\ \E j \in Active : ~Over(Take(decoder[j], s[j]))
    /\ ReturnCode("failed")

\* Sequences are cut to their result, failed ones are not; a long one may
\* fail for its entropy.  A best sequence that failed, or is unlikely, is
\* tried again at the next temperature while there is one.
Rank ==
    /\ pc = "rank"
    /\ \E low \in SUBSET {j \in DOMAIN decoder :
                            ~decoder[j].failed /\ decoder[j].len > LongSequence} :
         LET cut(j) == SubSeq(decoder[j].tokens, 1, decoder[j].len)
             good   == {j \in DOMAIN decoder : ~decoder[j].failed} \ low
         IN /\ decoder' = [j \in DOMAIN decoder |->
                  IF decoder[j].failed THEN decoder[j]
                  ELSE [decoder[j] EXCEPT !.tokens = cut(j),
                                          !.failed = j \in low]]
            /\ best' \in IF good = {} THEN {best} ELSE good
    /\ \E unlikely, noSpeech \in BOOLEAN :
         LET again == /\ temp < Temperatures
                      /\ decoder'[best'].failed \/ (unlikely /\ ~noSpeech)
         IN /\ silent' = (unlikely /\ noSpeech)
            /\ IF again
               THEN pc' = "prompt" /\ temp' = temp + 1
               ELSE pc' = "emit" /\ UNCHANGED temp
    /\ UNCHANGED <<callVars, seek, results, reported, kv, stop, late, code>>

\* Faulty: the callback passes all segments on, not the new ones.
ReportAll(all, new) == all \o new

\* on_new_segment_callback passes on the last n_new segments.
ReportNew(all, new) == new

\* The segments of the chunk are stored and reported, and the window moves.
EmitSegments ==
    /\ pc = "emit"
    /\ LET d   == decoder[best]
           new == IF silent THEN <<>> ELSE Emitted(d)
       IN /\ results' = results \o new
          /\ reported' = reported \o ReportNew(results, new)
          /\ seek' = seek + Advance(d)
    /\ late' = stop
    /\ pc' = "loop"
    /\ ForgetChunk
    /\ UNCHANGED <<callVars, kv, stop, code>>

CallStep ==
    \/ BeginCall \/ LoopHead \/ Encode \/ DecodePrompt \/ DecodePromptFails
    \/ SampleToken \/ NextLogitsFail \/ Rank \/ EmitSegments

Next ==
    \/ \E n \in Ends, l \in Languages : Call(n, l)
    \/ CallOnFreedState
    \/ CallerCancels
    \/ CallStep

Spec == Init /\ [][Next]_vars

\* A computation that has begun ends.  Nobody has to cancel or to call.
FairSpec == Spec /\ WF_vars(CallStep)
-----------------------------------------------------------------------------
(* What must be true.                                                      *)

TypeOK ==
    /\ pc \in {"over", "begin", "loop", "encode", "prompt", "token", "rank",
              "emit", "undefined"}
    /\ language \in {"auto", "fixed"}
    /\ end \in Ends \cup {0} /\ seek \in Nat
    /\ temp \in 1..Temperatures
    /\ \E n \in {1, BestOf} : decoder \in [1..n -> Decoder]
    /\ best \in DOMAIN decoder
    /\ silent \in BOOLEAN
    /\ results \in Seq(Segment) /\ reported \in Seq(Segment)
    /\ kv \in {0, 1, BestOf}
    /\ stop \in BOOLEAN /\ late \in BOOLEAN
    /\ code \in {"none", "ok", "failed"}
    /\ calls \in 0..MaxCalls

\* Whatever is sampled, cut, repeated at another temperature or skipped: no
\* segment ends before the one that was reported before it.
SegmentsInOrder ==
    \A i \in 1..Len(results) - 1 : results[i] <= results[i + 1]

\* WhisperEngine collects the segments from the callback and reads the stored
\* ones only if none came: both must be the same, in every call.
ReportedOnce == pc \notin {"begin", "undefined"} => reported = results

\* "For auto-detection, set to nullptr, "" or "auto"" (include/whisper.h): a
\* call that answers 0 has gone through the audio, in whatever language.
SuccessIsWhole == code = "ok" => end - seek <= DeltaMin

\* A call ends, although the model decides how far the window moves.
EveryCallEnds == (pc = "begin") ~> (pc \in {"over", "undefined"})

Abstract == INSTANCE NativeCall WITH
    MaxNew <- MaxTokens,
    at     <- IF pc \in {"over", "undefined"} THEN "over" ELSE "running",
    pos    <- seek,
    heard  <- Len(reported)

\* What the engine relies on: no audio is skipped unheard between two chunks
\* or at the end of a successful call, and a cancel is noticed before a
\* second report.
ImplementsNativeCall == Abstract!CallSpec
=============================================================================
