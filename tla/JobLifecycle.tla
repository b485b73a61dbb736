---------------------------- MODULE JobLifecycle ----------------------------
(***************************************************************************)
(* What the transcription queue promises about a job, whoever drains it,   *)
(* stops it or kills it: a job that is submitted waits until it is done,   *)
(* has failed or is cancelled.  It becomes done together with a transcript *)
(* that is saved for it, or by pointing again at one that was.             *)
(*                                                                         *)
(* TranscriptionQueue implements this specification; QUEUED and PROCESSING *)
(* are both "waiting".                                                     *)
(***************************************************************************)
EXTENDS Integers

CONSTANTS
    Jobs,       \* every job ever submitted
    Inherited   \* jobs that an earlier build left waiting with a transcript

VARIABLES
    stage,      \* what the user sees of the job
    result,     \* the transcript the job points at, 0 when none
    saved       \* transcripts saved for the job so far

vars == <<stage, result, saved>>

Stages == {"absent", "waiting", "done", "failed", "cancelled"}

Init ==
    /\ stage = [j \in Jobs |-> IF j \in Inherited THEN "waiting" ELSE "absent"]
    /\ result = [j \in Jobs |-> IF j \in Inherited THEN 1 ELSE 0]
    /\ saved = [j \in Jobs |-> IF j \in Inherited THEN 1 ELSE 0]

Set(j, s, r) ==
    /\ stage' = [stage EXCEPT ![j] = s]
    /\ result' = [result EXCEPT ![j] = r]

Submit(j) ==
    /\ stage[j] = "absent"
    /\ Set(j, "waiting", 0)
    /\ UNCHANGED saved

\* A transcript is saved and the job done in one step.  A cancelled job that
\* was cleared from the history meanwhile stays away.
Save(j) ==
    /\ result[j] = 0
    /\ saved' = [saved EXCEPT ![j] = @ + 1]
    /\ IF stage[j] = "absent"
       THEN UNCHANGED <<stage, result>>
       ELSE Set(j, "done", saved[j] + 1)

\* The job is found to have its transcript already.
Relink(j) ==
    /\ stage[j] \in {"waiting", "cancelled", "done"}
    /\ \E n \in 1..saved[j] : Set(j, "done", n)
    /\ UNCHANGED saved

\* A job that waits fails without a transcript.  One that is done may still
\* fail, and keeps its transcript: the status is written once more after it
\* was saved, and that may go wrong.
Fail(j) ==
    /\ stage[j] \in {"waiting", "cancelled", "done"}
    /\ stage[j] = "waiting" => result[j] = 0
    /\ Set(j, "failed", result[j])
    /\ UNCHANGED saved

Cancel(j) ==
    /\ stage[j] # "absent"
    /\ Set(j, "cancelled", result[j])
    /\ UNCHANGED saved

\* Retry, or a stop of the system: the job starts over.
Restart(j) ==
    /\ stage[j] # "absent"
    /\ Set(j, "waiting", 0)
    /\ UNCHANGED saved

\* The history is cleared.
Forget(S) ==
    /\ \A j \in S : stage[j] \in {"done", "cancelled"}
    /\ stage' = [j \in Jobs |-> IF j \in S THEN "absent" ELSE stage[j]]
    /\ result' = [j \in Jobs |-> IF j \in S THEN 0 ELSE result[j]]
    /\ UNCHANGED saved

Next ==
    \/ \E j \in Jobs : \/ Submit(j) \/ Save(j) \/ Relink(j) \/ Fail(j)
                       \/ Cancel(j) \/ Restart(j)
    \/ \E S \in SUBSET Jobs : Forget(S)

Spec == Init /\ [][Next]_vars
=============================================================================
