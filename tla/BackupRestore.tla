--------------------------- MODULE BackupRestore ---------------------------
(* BackupRestoreForegroundService and RestoreCoordinator: backups are made,   *)
(* inspected and restored by jobs of one service.  The service remembers one  *)
(* active job only, but starting another while the first runs is possible:    *)
(* the preview and the create screen stay open after their button is pressed. *)
(* Creating and restoring wait for the lease of HeavyProcessingArbiter,       *)
(* inspecting does not.                                                       *)
(*                                                                            *)
(* The library maps a text (a transcript with its segments) to the operation  *)
(* whose copy of the media file its row points to.  The database transaction  *)
(* is atomic; the files in restored_media are not part of it.                 *)
EXTENDS Naturals, Sequences, FiniteSets

CONSTANTS
    Ops,            \* operations the user may start
    Texts,          \* the texts a library or a backup may hold
    Backup,         \* those in the backup file, each with its media file
    Old,            \* the restore that filled the library before
    NoOp,           \* no operation
    MaxFaults,      \* bound: I/O errors and process deaths
    MaxPresses      \* bound: presses of Cancel, and timeouts by the system

ASSUME BackupAssumption == Backup \subseteq Texts
ASSUME OpsAssumption == Old # NoOp /\ {Old, NoOp} \cap Ops = {}

VARIABLES
    library,        \* the rows: whose media file a text points to, or NoOp
    disk,           \* the files in restored_media: <<operation, text>>
    payload,        \* inspections whose payload.zip is in the cache
    kind, session,  \* what an operation does; the inspection it restores
    pc,             \* where its job is, and how it ended
    required,       \* RestorePlan: the texts whose media it extracts
    staged,         \* createdMedia: the texts whose media it has extracted
    cancelled,      \* jobs that are cancelled
    lease,          \* who holds the HeavyProcessingArbiter
    active, job,    \* activeOperationId and activeJob of the service
    alive,          \* the service exists
    mine,           \* jobs launched by this instance of the service
    last,           \* the operation of the last start, NoOp after a cancel
    inbox,          \* intents on their way to onStartCommand
    shown,          \* BackupOperationStore: one operation and its status
    preview,        \* lastInspection: the session the preview screen is about
    undone,         \* ghost: restores that lost their media after their commit
    leaked,         \* ghost: files nobody is going to delete
    asked,          \* ghost: operations that were cancelled on purpose
    overlapped,     \* ghost: operations another was started on top of
    faults, presses

content == <<library, disk, payload>>
jobs == <<kind, session, pc, required, staged, cancelled, lease>>
service == <<active, job, alive, mine, last, inbox>>
ghosts == <<undone, leaked, asked, overlapped>>
vars == <<content, jobs, service, shown, preview, ghosts, faults, presses>>

Kinds == {"create", "inspect", "merge", "replace"}
Restores == {"merge", "replace"}
Ends == {"ready", "completed", "failed", "cancelled", "gone"}
Nothing == [op |-> NoOp, status |-> "none"]
Show(o, status) == shown' = [op |-> o, status |-> status]
Running == {o \in Ops : pc[o] \notin {"new"} \union Ends}
FilesOf(o) == {o} \X staged[o]
Rows == {<<library[t], t>> : t \in Texts}
Goto(o, step) == pc' = [pc EXCEPT ![o] = step]
Fault == faults < MaxFaults /\ faults' = faults + 1
Press == presses < MaxPresses /\ presses' = presses + 1

Init ==
    /\ \E held \in SUBSET Texts :
          /\ library = [t \in Texts |-> IF t \in held THEN Old ELSE NoOp]
          /\ disk = {Old} \X held
    /\ payload = {}
    /\ kind = [o \in Ops |-> "create"] /\ session = [o \in Ops |-> NoOp]
    /\ pc = [o \in Ops |-> "new"]
    /\ required = [o \in Ops |-> {}] /\ staged = [o \in Ops |-> {}]
    /\ cancelled = {} /\ lease = NoOp
    /\ active = NoOp /\ job = NoOp /\ alive = FALSE /\ mine = {} /\ last = NoOp
    /\ inbox = <<>>
    /\ shown = Nothing /\ preview = NoOp
    /\ undone = {} /\ leaked = {} /\ asked = {} /\ overlapped = {}
    /\ faults = 0 /\ presses = 0

----------------------------------------------------------------------------
(* The screens and the coordinator.                                           *)
Offers(k) ==
    CASE k = "create" -> TRUE
      [] k = "inspect" -> shown.status \in {"none", "ready", "completed"}
      [] OTHER -> preview # NoOp

Request(o, k) ==
    /\ pc[o] = "new" /\ Offers(k)
    /\ Goto(o, "sent")
    /\ kind' = [kind EXCEPT ![o] = k]
    /\ session' = [session EXCEPT ![o] = IF k \in Restores THEN preview ELSE NoOp]
    /\ Show(o, "busy")
    /\ inbox' = Append(inbox, [action |-> "start", op |-> o])
    /\ last' = o
    /\ overlapped' = overlapped \union Running
    /\ UNCHANGED <<content, required, staged, cancelled, lease, active, job, alive,
                   mine, preview, undone, leaked, asked, faults, presses>>

UserCancels ==
    /\ shown.status = "busy" /\ Press
    /\ inbox' = Append(inbox, [action |-> "cancel", op |-> shown.op])
    /\ last' = NoOp
    /\ asked' = asked \union {shown.op}
    /\ UNCHANGED <<content, jobs, active, job, alive, mine, shown, preview, undone,
                   leaked, overlapped, faults>>

Dismiss ==
    /\ shown.status \in {"failed", "cancelled", "completed"}
    /\ shown' = Nothing
    /\ UNCHANGED <<content, jobs, service, preview, ghosts, faults, presses>>

(* onStartCommand: a start replaces whatever was active.                      *)
Deliver ==
    /\ inbox # <<>>
    /\ inbox' = Tail(inbox)
    /\ alive' = TRUE
    /\ LET o == Head(inbox).op
       IN \/ /\ Head(inbox).action = "start"
             /\ Goto(o, IF kind[o] = "inspect" THEN "inspect" ELSE "lease")
             /\ active' = o /\ job' = o /\ mine' = mine \union {o}
             /\ IF kind[o] = "inspect" THEN Show(o, "busy") ELSE UNCHANGED shown
             /\ UNCHANGED cancelled
          \/ /\ Head(inbox).action = "cancel"
             /\ cancelled' = IF o = active THEN cancelled \union {job} ELSE cancelled
             /\ UNCHANGED <<pc, active, job, mine, shown>>
    /\ UNCHANGED <<content, kind, session, required, staged, lease, last, preview,
                   ghosts, faults, presses>>

----------------------------------------------------------------------------
(* The end of a job, on the main thread: the lease is given back, the store   *)
(* told, stopForegroundIfLast() run.  stopSelfResult() destroys the service   *)
(* when no intent was sent after the job's own, and onDestroy() cancels every *)
(* job that is left.                                                          *)
StopSelf(o) == o \in mine                     \* mutant: stopSelf()

StopSelfResult(o) == o \in mine /\ last = o

Destroyed(jobsLeft) ==
    /\ alive' = FALSE /\ active' = NoOp /\ job' = NoOp /\ mine' = {} /\ last' = NoOp
    /\ cancelled' = cancelled \union jobsLeft
    /\ UNCHANGED inbox

KeepLease(o) == lease                         \* mutant: the lease is kept

GiveLease(o) == IF lease = o THEN NoOp ELSE lease

End(o, status) ==
    /\ Goto(o, status)
    /\ lease' = GiveLease(o)
    /\ Show(o, status)
    /\ IF StopSelfResult(o) THEN Destroyed(mine \ {o})
       ELSE /\ active' = IF o \in mine THEN NoOp ELSE active
            /\ UNCHANGED <<job, alive, mine, last, inbox, cancelled>>
    /\ UNCHANGED <<kind, session, required, staged>>

(* Which way the body of a job may end where it can be cancelled.             *)
Outcome(o, good, status) ==
    \/ status = good /\ o \notin cancelled /\ UNCHANGED faults
    \/ status = "cancelled" /\ o \in cancelled /\ UNCHANGED faults
    \/ status = "failed" /\ Fault

Create(o) ==
    /\ pc[o] = "write"
    /\ \E status \in {"completed", "failed", "cancelled"} :
          Outcome(o, "completed", status) /\ End(o, status)
    /\ UNCHANGED <<content, preview, ghosts, presses>>

Inspect(o) ==
    /\ pc[o] = "inspect"
    /\ \E status \in {"ready", "failed", "cancelled"} :
          /\ Outcome(o, "ready", status) /\ End(o, status)
          /\ payload' = IF status = "ready" THEN payload \union {o} ELSE payload
          /\ preview' = IF status = "ready" THEN o ELSE preview
    /\ UNCHANGED <<library, disk, ghosts, presses>>

(* Waiting for the lease can be cancelled.  A restore then validates the      *)
(* payload again, still on the main thread.                                   *)
TakeLease(o) ==
    /\ pc[o] = "lease" /\ o \notin cancelled /\ lease = NoOp
    /\ IF kind[o] \in Restores /\ session[o] \notin payload
       THEN End(o, "failed")
       ELSE /\ lease' = o
            /\ Goto(o, IF kind[o] = "create" THEN "write" ELSE "plan")
            /\ Show(o, "busy")
            /\ UNCHANGED <<kind, session, required, staged, cancelled, service>>
    /\ UNCHANGED <<content, preview, ghosts, faults, presses>>

(* Cleaning up the session also takes the payload from the restore that is    *)
(* running on it.                                                             *)
LeaseCancelled(o) ==
    /\ pc[o] = "lease" /\ o \in cancelled
    /\ End(o, "cancelled")
    /\ payload' = payload \ {session[o]}
    /\ UNCHANGED <<library, disk, preview, ghosts, faults, presses>>

----------------------------------------------------------------------------
(* RestoreCoordinator.restore(), on an I/O thread.                            *)
(* The catch block deletes the staged media, the finally block the session.   *)
UndoAll(o) == {}                              \* mutant: the directory is emptied

Undo(o) == disk \ FilesOf(o)

GiveUp(o, how) ==
    /\ disk' = Undo(o)
    /\ payload' = payload \ {session[o]}
    /\ Goto(o, how)
    /\ UNCHANGED <<library, kind, session, required, staged, cancelled, lease, service>>

Required(o) ==
    IF kind[o] = "replace" THEN Backup ELSE {t \in Backup : library[t] = NoOp}

(* Opening the payload and planning.  Looking for duplicates can be cancelled.*)
Plan(o) ==
    /\ pc[o] = "plan"
    /\ \/ /\ session[o] \in payload
          /\ required' = [required EXCEPT ![o] = Required(o)]
          /\ Goto(o, "extract")
          /\ UNCHANGED <<content, kind, session, staged, cancelled, lease, service, faults>>
       \/ /\ session[o] \notin payload
          /\ GiveUp(o, "failing") /\ UNCHANGED faults
       \/ /\ o \in cancelled
          /\ GiveUp(o, "cancelling") /\ UNCHANGED faults
       \/ /\ Fault /\ GiveUp(o, "failing")
    /\ UNCHANGED <<shown, preview, ghosts, presses>>

(* BackupMediaRestorer: one file, in a loop that nothing can cancel.  Its own *)
(* catch block deletes the files that are complete, not the one it was        *)
(* writing.                                                                   *)
ExtractOne(o, t) ==
    /\ pc[o] = "extract" /\ t \in required[o] \ staged[o]
    /\ \/ /\ disk' = disk \union {<<o, t>>}
          /\ staged' = [staged EXCEPT ![o] = @ \union {t}]
          /\ UNCHANGED <<payload, pc, leaked, faults>>
       \/ /\ Fault
          /\ disk' = (disk \ FilesOf(o)) \union {<<o, t>>}
          /\ leaked' = leaked \union {<<o, t>>}
          /\ payload' = payload \ {session[o]}
          /\ Goto(o, "failing")
          /\ UNCHANGED staged
    /\ UNCHANGED <<library, kind, session, required, cancelled, lease, service, shown,
                   preview, undone, asked, overlapped, presses>>

(* The question at the beginning of the transaction is about activeJob, which *)
(* may be another job by now.                                                 *)
BeginTransaction(o) ==
    /\ pc[o] = "extract" /\ required[o] = staged[o]
    /\ Show(o, "busy")
    /\ IF o \in cancelled \/ (o \in mine /\ job \in cancelled)
       THEN GiveUp(o, "cancelling")
       ELSE /\ Goto(o, "import")
            /\ UNCHANGED <<content, kind, session, required, staged, cancelled, lease, service>>
    /\ UNCHANGED <<preview, ghosts, faults, presses>>

Rollback(o) ==
    /\ pc[o] = "import"
    /\ \/ o \in cancelled /\ GiveUp(o, "cancelling") /\ UNCHANGED faults
       \/ Fault /\ GiveUp(o, "failing")
    /\ UNCHANGED <<shown, preview, ghosts, presses>>

(* The last statements of the transaction, the search index among them, do    *)
(* not notice a cancel.                                                       *)
Imported(o) ==
    [t \in Texts |-> IF t \in required[o] THEN o
                     ELSE IF kind[o] = "replace" THEN NoOp
                     ELSE library[t]]

Commit(o) ==
    /\ pc[o] = "import"
    /\ library' = Imported(o)
    /\ Goto(o, "committed")
    /\ UNCHANGED <<disk, payload, kind, session, required, staged, cancelled, lease,
                   service, shown, preview, undone, leaked, asked, overlapped, faults, presses>>

(* withTransaction() throws on its return when the job was cancelled          *)
(* meanwhile: the catch block deletes the media of rows that are committed.   *)
CancelledTooLate(o) ==
    /\ pc[o] = "committed" /\ o \in cancelled
    /\ GiveUp(o, "cancelling")
    /\ undone' = undone \union {o}
    /\ leaked' = IF kind[o] = "replace" THEN leaked \union (disk \ Rows) ELSE leaked
    /\ UNCHANGED <<shown, preview, asked, overlapped, faults, presses>>

(* REPLACE deletes every file that is not its own.                            *)
Obsolete(o) == disk \ FilesOf(o)

CleanUp(o) ==
    /\ pc[o] = "committed" /\ o \notin cancelled
    /\ disk' = IF kind[o] = "replace" THEN disk \ Obsolete(o) ELSE disk
    /\ payload' = payload \ {session[o]}
    /\ Goto(o, "restored")
    /\ Show(o, "busy")
    /\ UNCHANGED <<library, kind, session, required, staged, cancelled, lease, service,
                   preview, ghosts, faults, presses>>

(* Back on the main thread.  A cancel that comes this late makes the store    *)
(* say CANCELLED of a restore that is complete.                               *)
Verdict(o) ==
    CASE pc[o] = "failing" -> "failed"
      [] pc[o] = "cancelling" -> "cancelled"
      [] OTHER -> IF o \in cancelled THEN "cancelled" ELSE "completed"

Return(o) ==
    /\ pc[o] \in {"failing", "cancelling", "restored"}
    /\ End(o, Verdict(o))
    /\ UNCHANGED <<content, preview, ghosts, faults, presses>>

----------------------------------------------------------------------------
(* The system.  onTimeout() cancels the active job, writes the store and      *)
(* stops the service, which cancels the rest.                                 *)
Timeout ==
    /\ alive /\ inbox = <<>> /\ Press
    /\ Destroyed(mine)
    /\ asked' = asked \union (mine \intersect Running)
    /\ IF active # NoOp THEN Show(active, "cancelled") ELSE UNCHANGED shown
    /\ UNCHANGED <<content, kind, session, pc, required, staged, lease, preview, undone,
                   leaked, overlapped, faults>>

(* The process dies: files and rows stay.                                     *)
Die ==
    /\ Running # {} /\ Fault
    /\ pc' = [o \in Ops |-> IF o \in Running THEN "gone" ELSE pc[o]]
    /\ lease' = NoOp /\ cancelled' = {}
    /\ active' = NoOp /\ job' = NoOp /\ alive' = FALSE /\ mine' = {} /\ last' = NoOp
    /\ inbox' = <<>> /\ shown' = Nothing /\ preview' = NoOp
    /\ leaked' = leaked \union (disk \ Rows)
    /\ UNCHANGED <<content, kind, session, required, staged, undone, asked,
                   overlapped, presses>>

JobStep(o) ==
    \/ Create(o) \/ Inspect(o) \/ TakeLease(o) \/ LeaseCancelled(o)
    \/ Plan(o) \/ (\E t \in Backup : ExtractOne(o, t)) \/ BeginTransaction(o)
    \/ Rollback(o) \/ Commit(o) \/ CancelledTooLate(o) \/ CleanUp(o) \/ Return(o)

Next ==
    \/ \E o \in Ops, k \in Kinds : Request(o, k)
    \/ \E o \in Ops : JobStep(o)
    \/ Deliver \/ UserCancels \/ Dismiss \/ Timeout \/ Die

Spec == Init /\ [][Next]_vars

----------------------------------------------------------------------------
(* Every value has its kind, and a lease belongs to a job that runs.          *)
TypeOK ==
    /\ library \in [Texts -> Ops \union {Old, NoOp}]
    /\ disk \subseteq (Ops \union {Old}) \X Texts
    /\ payload \subseteq Ops
    /\ kind \in [Ops -> Kinds] /\ session \in [Ops -> Ops \union {NoOp}]
    /\ pc \in [Ops -> {"new", "sent", "lease", "write", "inspect", "plan", "extract", "import",
                       "committed", "restored", "failing", "cancelling"} \union Ends]
    /\ \A o \in Ops : staged[o] \subseteq required[o] /\ required[o] \subseteq Backup
    /\ cancelled \subseteq Ops /\ mine \subseteq Ops
    /\ {active, job, last, preview, shown.op} \subseteq Ops \union {NoOp}
    /\ lease \in Running \union {NoOp}
    /\ alive \in BOOLEAN
    /\ undone \subseteq Ops
    /\ asked \union overlapped \subseteq Ops /\ leaked \subseteq (Ops \union {Old}) \X Texts

(* The database transaction and the files agree, whatever is cancelled, fails*)
(* or dies and however many restores are started: no row points to a media    *)
(* file that is gone, and when nothing runs restored_media holds no file      *)
(* without a row.  Excepted are the rows of a restore that was cancelled      *)
(* between its commit and the return of withTransaction(), the file whose     *)
(* copying failed, what a dead process leaves, and the old files of a REPLACE *)
(* cancelled that late.                                                       *)
MediaMatchesRows ==
    /\ \A t \in Texts : library[t] \notin {NoOp} \union undone => <<library[t], t>> \in disk
    /\ Running = {} => disk \ leaked \subseteq Rows

(* An operation the user did not cancel, and on top of which no other was     *)
(* started, is not cancelled: neither by the end of an earlier one nor by a   *)
(* cancel meant for it.                                                       *)
CancelledForAReason ==
    \A o \in Ops : pc[o] = "cancelled" => o \in asked \union overlapped

=============================================================================
