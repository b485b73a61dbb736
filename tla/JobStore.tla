------------------------------ MODULE JobStore ------------------------------
(***************************************************************************)
(* The table transcription_jobs as the queue sees it: the rows that        *)
(* TranscriptionJobEntity declares and the statements of                   *)
(* TranscriptionJobDao that TranscriptionQueueRepository forwards to.      *)
(* Every statement is one SQL command, hence one atomic step of whoever    *)
(* issues it; here it is an operator from a table to a table.              *)
(*                                                                         *)
(* A row keeps the columns that decide what the queue does next: status,   *)
(* resultTranscriptId (0 for NULL, n for the n-th transcript ever saved    *)
(* for the job) and whether preparedInputUri is set.  Progress, error      *)
(* texts, names and time stamps are left out; createdAt is the insertion   *)
(* order, which is the order of the ids.                                   *)
(***************************************************************************)
EXTENDS Integers, FiniteSets

CONSTANTS
    MaxJobs,    \* how many rows are ever inserted
    VideoJobs   \* the jobs whose input is a raw video

ASSUME MaxJobsAssumption == MaxJobs \in Nat \ {0}

Jobs == 1..MaxJobs

ASSUME VideoJobsAssumption == VideoJobs \subseteq Jobs

Statuses == {"NONE", "QUEUED", "PROCESSING", "COMPLETED", "FAILED", "CANCELLED"}

Row == [status : Statuses, result : Nat, prepared : BOOLEAN]

Table == [Jobs -> Row]

\* "NONE" is no row: not inserted yet, or deleted from the history.
NoRow == [status |-> "NONE", result |-> 0, prepared |-> FALSE]

Queued(t) == {j \in Jobs : t[j].status = "QUEUED"}

Unfinished(t) == {j \in Jobs : t[j].status \in {"QUEUED", "PROCESSING"}}

Oldest(S) == CHOOSE j \in S : \A k \in S : j <= k

\* An UPDATE ... WHERE id = :id changes nothing when the row is gone.
Update(t, j, row) ==
    IF t[j].status = "NONE" THEN t ELSE [t EXCEPT ![j] = row]

Insert(t, j) ==
    [t EXCEPT ![j] = [status |-> "QUEUED", result |-> 0,
                      prepared |-> j \notin VideoJobs]]

UpdateState(t, j, s) == Update(t, j, [t[j] EXCEPT !.status = s])

SetPreparedInput(t, j) == Update(t, j, [t[j] EXCEPT !.prepared = TRUE])

Complete(t, j, n) ==
    Update(t, j, [t[j] EXCEPT !.status = "COMPLETED", !.result = n])

RetryRow(t, j) ==
    Update(t, j, [t[j] EXCEPT !.status = "QUEUED", !.result = 0])

\* Faulty: interrupted rows are left as they are.
RecoverNothing(t) == t

RecoverInterrupted(t) ==
    [j \in Jobs |-> IF t[j].status = "PROCESSING"
                    THEN [t[j] EXCEPT !.status = "QUEUED"]
                    ELSE t[j]]

ClearFinishedHistory(t) ==
    [j \in Jobs |-> IF t[j].status \in {"COMPLETED", "CANCELLED"}
                    THEN NoRow
                    ELSE t[j]]
=============================================================================
