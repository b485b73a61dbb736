------------------------- MODULE BackupRestoreProofs -------------------------
(***************************************************************************)
(* Proofs about BackupRestore, for any number of operations, texts, faults *)
(* and presses.                                                            *)
(*                                                                         *)
(* MediaMatchesRows is inductive only together with what the lease of      *)
(* HeavyProcessingArbiter guarantees to a restore: nobody else touches the *)
(* library or its files between its plan and the end of its clean-up.      *)
(* CancelledForAReason needs the order of the intents: who is started      *)
(* later arrives later, so whoever is replaced as the active job was still *)
(* running when its successor was requested.                               *)
(***************************************************************************)
EXTENDS BackupRestore, TLAPS

\* What the service tells BackupOperationStore.
Statuses == {"none", "busy", "ready", "completed", "failed", "cancelled"}
Shown == [op : Ops \union {NoOp}, status : Statuses]
Intents == [action : {"start", "cancel"}, op : Ops]
Steps == {"new", "sent", "lease", "write", "inspect", "plan", "extract", "import",
          "committed", "restored", "failing", "cancelling"} \union Ends
\* Where a job is before it has extracted a file, and before it has committed.
Unstaged == {"new", "sent", "lease", "write", "inspect", "plan"}
Uncommitted == Unstaged \union {"extract", "import"}
\* Where a job has the lease.
Holding == {"write", "plan", "extract", "import", "committed", "restored",
            "failing", "cancelling"}

\* The types TypeOK leaves open, and who is active.
Shapes ==
    /\ required \in [Ops -> SUBSET Backup] /\ staged \in [Ops -> SUBSET Backup]
    /\ shown \in Shown /\ (shown.status = "busy" => shown.op \in Ops)
    /\ active # NoOp => job = active
    /\ \A o \in Ops : pc[o] \in Unstaged => staged[o] = {}

\* Jobs that change the library take turns.
LeaseInv == \A o \in Ops : pc[o] \in Holding => lease = o

\* A restore finds what it has planned: its files stay until it commits, the
\* texts it leaves out stay in the library, and afterwards its rows are there.
StageInv ==
    /\ \A o \in Ops : pc[o] \in Uncommitted => \A t \in Texts : library[t] # o
    /\ \A o \in Ops : pc[o] \in {"extract", "import", "committed"} => FilesOf(o) \subseteq disk
    /\ \A o \in Ops : pc[o] \in {"import", "committed"} => staged[o] = required[o]
    /\ \A o \in Ops : pc[o] \in {"extract", "import"} /\ kind[o] # "replace" =>
          \A t \in required[o] : library[t] = NoOp
    /\ \A o \in Ops : pc[o] = "committed" =>
          \A t \in Texts : /\ t \in staged[o] => library[t] = o
                           /\ kind[o] = "replace" /\ t \notin staged[o] => library[t] = NoOp

\* MediaMatchesRows, part one: rows have files.
RowsHaveFiles ==
    \A t \in Texts : library[t] \notin {NoOp} \union undone => <<library[t], t>> \in disk

\* Part two at every step: a file without a row is one that a restore has yet
\* to commit, or one that a REPLACE has yet to delete.
FilesHaveRows ==
    \A f \in disk \ leaked :
        \/ f \in Rows
        \/ \E o \in Ops : \/ f \in FilesOf(o) /\ pc[o] \in {"extract", "import"}
                          \/ pc[o] = "committed" /\ kind[o] = "replace"

MediaInv == StageInv /\ RowsHaveFiles /\ FilesHaveRows

\* The user or the system cancelled it, or another was started on top of it.
Excused(o) == o \in asked \union overlapped

Start(i) == i \in 1..Len(inbox) /\ inbox[i].action = "start"

\* A start that has not arrived: its operation waits for it, and those before it
\* know that another was started on top of them.
InboxInv ==
    /\ inbox \in Seq(Intents)
    /\ \A i \in 1..Len(inbox) : inbox[i].action = "cancel" => Excused(inbox[i].op)
    /\ \A i \in 1..Len(inbox) : Start(i) =>
          /\ pc[inbox[i].op] = "sent"
          /\ \A o \in Running : pc[o] # "sent" => o \in overlapped
          /\ \A k \in 1..Len(inbox) : k < i /\ Start(k) =>
                inbox[k].op \in overlapped /\ inbox[k].op # inbox[i].op

\* The same for the operations that have arrived, by what the service has
\* remembered: the last start id, the active job and the jobs it launched.
ReasonInv ==
    /\ \A o \in Ops : pc[o] \in {"new", "sent"} => o \notin mine \union cancelled \union {job}
    /\ \A o \in cancelled \intersect Running : Excused(o)
    /\ \A o \in Ops : pc[o] \in {"cancelling", "cancelled"} => Excused(o)
    /\ \A o \in Running : last \in {NoOp, o} \/ o \in overlapped
    /\ \A o \in mine \intersect Running : job \in {NoOp, o} \/ o \in overlapped

IInv == TypeOK /\ Shapes /\ LeaseInv /\ MediaInv /\ InboxInv /\ ReasonInv

-----------------------------------------------------------------------------
(* One lemma for each part of the invariant.                               *)

\* What the proofs need of the assumptions.
LEMMA Constants ==
    /\ Backup \subseteq Texts /\ Old # NoOp /\ Old \notin Ops /\ NoOp \notin Ops
BY BackupAssumption, OpsAssumption

\* Telling the store keeps it well typed.
LEMMA ShowTypes ==
    ASSUME NEW o \in Ops \union {NoOp}, NEW status \in Statuses \ {"busy"}, Show(o, status)
    PROVE  shown' \in Shown /\ shown'.status # "busy" /\ shown'.op \in Ops \union {NoOp}
BY DEF Show, Shown, Statuses

\* What showBusy() puts on the screen has its type.
LEMMA ShowBusyTypes ==
    ASSUME NEW o \in Ops, Show(o, "busy")
    PROVE  shown' \in Shown /\ shown'.op \in Ops
BY DEF Show, Shown, Statuses

\* The end of a job keeps the fields of the service well typed.
LEMMA EndTypes ==
    ASSUME TypeOK, Shapes, NEW o \in Ops,
           NEW status \in {"ready", "completed", "failed", "cancelled"}, End(o, status)
    PROVE  /\ pc' \in [Ops -> Steps] /\ lease' \in Running' \union {NoOp}
           /\ cancelled' \subseteq Ops /\ mine' \subseteq Ops
           /\ {active', job', last'} \subseteq Ops \union {NoOp} /\ alive' \in BOOLEAN
           /\ shown' \in Shown /\ shown'.status # "busy" /\ shown'.op \in Ops \union {NoOp}
           /\ active' # NoOp => job' = active'
           /\ \A p \in Ops : pc'[p] \in Unstaged => pc[p] \in Unstaged
<1>1. pc' = [pc EXCEPT ![o] = status] /\ status \in Ends
  BY DEF End, Goto, Ends
<1>2. pc' \in [Ops -> Steps] /\ \A p \in Ops : pc'[p] \in Unstaged => pc[p] \in Unstaged
  BY <1>1 DEF TypeOK, Steps, Ends, Unstaged
<1>3. lease' \in Running' \union {NoOp}
  BY <1>1 DEF TypeOK, Running, End, GiveLease
<1>4. shown' \in Shown /\ shown'.status # "busy" /\ shown'.op \in Ops \union {NoOp}
  BY ShowTypes DEF End, Statuses
<1>5. /\ cancelled' \subseteq Ops /\ mine' \subseteq Ops
      /\ {active', job', last'} \subseteq Ops \union {NoOp} /\ alive' \in BOOLEAN
      /\ active' # NoOp => job' = active'
  BY DEF TypeOK, Shapes, End, StopSelfResult, Destroyed
<1> QED
  BY <1>2, <1>3, <1>4, <1>5

\* What the delivery of an intent does to the operation it names.
LEMMA DeliverEffect ==
    ASSUME TypeOK, InboxInv, Deliver
    PROVE  /\ inbox # <<>> /\ inbox' = Tail(inbox)
           /\ 1 \in 1..Len(inbox) /\ inbox[1] \in Intents /\ inbox[1].op \in Ops
           /\ \/ /\ Start(1) /\ pc[inbox[1].op] = "sent"
                 /\ \A p \in Ops \ {inbox[1].op} : pc'[p] = pc[p]
                 /\ pc'[inbox[1].op] \in {"inspect", "lease"}
                 /\ active' = inbox[1].op /\ job' = inbox[1].op /\ mine' = mine \union {inbox[1].op}
                 /\ cancelled' = cancelled
              \/ /\ inbox[1].action = "cancel"
                 /\ cancelled' \in {cancelled, cancelled \union {job}}
                 /\ cancelled' # cancelled => inbox[1].op = active
                 /\ UNCHANGED <<pc, active, job, mine>>
           /\ pc' \in [Ops -> Steps]
           /\ UNCHANGED <<content, kind, session, required, staged, lease, last, preview, ghosts>>
<1> DEFINE o == Head(inbox).op
<1>1. Head(inbox) = inbox[1] /\ 1 \in 1..Len(inbox) /\ inbox[1] \in Intents
      /\ inbox # <<>> /\ inbox' = Tail(inbox)
  BY DEF Deliver, InboxInv
<1>2. o \in Ops /\ (Head(inbox).action = "start" => pc[o] = "sent")
  BY <1>1 DEF Intents, InboxInv, Start
<1> HIDE DEF o
<1>3. \/ /\ Head(inbox).action = "start" /\ pc[o] = "sent"
         /\ active' = o /\ job' = o /\ mine' = mine \union {o}
         /\ pc' \in {[pc EXCEPT ![o] = "inspect"], [pc EXCEPT ![o] = "lease"]}
         /\ cancelled' = cancelled
      \/ /\ Head(inbox).action = "cancel"
         /\ cancelled' \in {cancelled, cancelled \union {job}}
         /\ cancelled' # cancelled => o = active
         /\ UNCHANGED <<pc, active, job, mine>>
  BY <1>2 DEF Deliver, Goto, o
<1>4. UNCHANGED <<content, kind, session, required, staged, lease, last, preview, ghosts>>
  BY DEF Deliver
<1>5. pc \in [Ops -> Steps] /\ pc' \in [Ops -> Steps]
  BY <1>3 DEF TypeOK, Steps
<1> QED
  BY <1>1, <1>2, <1>3, <1>4, <1>5 DEF o, Start

\* Every step preserves the types.
LEMMA TypesStep ==
    ASSUME TypeOK, Shapes, InboxInv, [Next]_vars
    PROVE  TypeOK' /\ Shapes'
<1> USE DEF content, jobs, service, ghosts, Running
<1>1. ASSUME NEW o \in Ops, NEW k \in Kinds, Request(o, k) PROVE TypeOK' /\ Shapes'
  <2>1. shown' \in Shown /\ shown'.op \in Ops
    BY <1>1, ShowBusyTypes DEF Request
  <2> QED
    BY <1>1, <2>1 DEF Request, Goto, TypeOK, Shapes, Restores, Ends, Unstaged
<1>2. ASSUME NEW o \in Ops, Create(o) PROVE TypeOK' /\ Shapes'
  <2>1. PICK status \in {"completed", "failed", "cancelled"} : End(o, status)
    BY <1>2 DEF Create
  <2>2. kind' = kind /\ session' = session /\ required' = required /\ staged' = staged
    BY <2>1 DEF End
  <2> HIDE DEF Running
  <2> QED
    BY <1>2, <2>1, <2>2, EndTypes DEF Create, TypeOK, Shapes, Steps
<1>3. ASSUME NEW o \in Ops, Inspect(o) PROVE TypeOK' /\ Shapes'
  <2>1. PICK status \in {"ready", "failed", "cancelled"} : End(o, status)
    BY <1>3 DEF Inspect
  <2>2. kind' = kind /\ session' = session /\ required' = required /\ staged' = staged
    BY <2>1 DEF End
  <2> HIDE DEF Running
  <2> QED
    BY <1>3, <2>1, <2>2, EndTypes DEF Inspect, TypeOK, Shapes, Steps
<1>4. ASSUME NEW o \in Ops, TakeLease(o) PROVE TypeOK' /\ Shapes'
  <2>1. CASE End(o, "failed")
    <3>1. kind' = kind /\ session' = session /\ required' = required /\ staged' = staged
      BY <2>1 DEF End
    <3> HIDE DEF Running
    <3> QED
      BY <1>4, <2>1, <3>1, EndTypes DEF TakeLease, TypeOK, Shapes, Steps
  <2>2. CASE ~End(o, "failed")
    <3>1. shown' \in Shown /\ shown'.op \in Ops
      BY <1>4, <2>2, ShowBusyTypes DEF TakeLease
    <3> QED
      BY <1>4, <2>2, <3>1 DEF TakeLease, Goto, TypeOK, Shapes, Unstaged, Ends
  <2> QED
    BY <2>1, <2>2
<1>5. ASSUME NEW o \in Ops, LeaseCancelled(o) PROVE TypeOK' /\ Shapes'
  <2>1. End(o, "cancelled")
    BY <1>5 DEF LeaseCancelled
  <2>2. kind' = kind /\ session' = session /\ required' = required /\ staged' = staged
    BY <2>1 DEF End
  <2> HIDE DEF Running
  <2> QED
    BY <1>5, <2>1, <2>2, EndTypes DEF LeaseCancelled, TypeOK, Shapes, Steps
<1>6. ASSUME NEW o \in Ops, Plan(o) PROVE TypeOK' /\ Shapes'
  BY <1>6, Constants
  DEF Plan, GiveUp, Undo, FilesOf, Required, Goto, Ends, TypeOK, Shapes, Unstaged
<1>7. ASSUME NEW o \in Ops, NEW t \in Backup, ExtractOne(o, t) PROVE TypeOK' /\ Shapes'
  BY <1>7, Constants DEF ExtractOne, FilesOf, Goto, Ends, TypeOK, Shapes, Unstaged
<1>8. ASSUME NEW o \in Ops, BeginTransaction(o) PROVE TypeOK' /\ Shapes'
  <2>1. shown' \in Shown /\ shown'.op \in Ops
    BY <1>8, ShowBusyTypes DEF BeginTransaction
  <2>2. /\ pc[o] = "extract" /\ pc' \in {[pc EXCEPT ![o] = "cancelling"], [pc EXCEPT ![o] = "import"]}
        /\ disk' \subseteq disk /\ payload' \subseteq payload
        /\ UNCHANGED <<library, kind, session, required, staged, cancelled, lease, service, preview, ghosts>>
    BY <1>8 DEF BeginTransaction, GiveUp, Undo, Goto
  <2> QED
    BY <2>1, <2>2 DEF TypeOK, Shapes, Ends, Unstaged
<1>9. ASSUME NEW o \in Ops, Rollback(o) PROVE TypeOK' /\ Shapes'
  BY <1>9 DEF Rollback, GiveUp, Undo, FilesOf, Goto, TypeOK, Shapes, Ends, Unstaged
<1>10. ASSUME NEW o \in Ops, Commit(o) PROVE TypeOK' /\ Shapes'
  BY <1>10 DEF Commit, Imported, Goto, TypeOK, Shapes, Ends, Unstaged
<1>11. ASSUME NEW o \in Ops, CancelledTooLate(o) PROVE TypeOK' /\ Shapes'
  BY <1>11
  DEF CancelledTooLate, GiveUp, Undo, FilesOf, Goto, TypeOK, Shapes, Ends, Unstaged
<1>12. ASSUME NEW o \in Ops, CleanUp(o) PROVE TypeOK' /\ Shapes'
  <2>1. shown' \in Shown /\ shown'.op \in Ops
    BY <1>12, ShowBusyTypes DEF CleanUp
  <2> QED
    BY <1>12, <2>1
    DEF CleanUp, Obsolete, FilesOf, Goto, TypeOK, Shapes, Ends, Unstaged
<1>13. ASSUME NEW o \in Ops, Return(o) PROVE TypeOK' /\ Shapes'
  <2>1. End(o, Verdict(o)) /\ Verdict(o) \in {"failed", "cancelled", "completed"}
    BY <1>13 DEF Return, Verdict
  <2>2. kind' = kind /\ session' = session /\ required' = required /\ staged' = staged
    BY <2>1 DEF End
  <2> HIDE DEF Running
  <2> QED
    BY <1>13, <2>1, <2>2, EndTypes DEF Return, TypeOK, Shapes, Steps
<1>14. CASE Deliver
  <2>1. shown' \in Shown /\ (shown'.status = "busy" => shown'.op \in Ops)
        /\ shown'.op \in Ops \union {NoOp}
    BY <1>14, DeliverEffect, ShowBusyTypes DEF Deliver, TypeOK, Shapes
  <2>2. alive' = TRUE
    BY <1>14 DEF Deliver
  <2> QED
    BY <1>14, <2>1, <2>2, DeliverEffect, Constants
    DEF TypeOK, Shapes, Ends, Steps, Unstaged
<1>15. CASE UserCancels
  BY <1>15, Constants DEF UserCancels, Press, TypeOK, Shapes
<1>16. CASE Dismiss
  BY <1>16 DEF Dismiss, Nothing, Shown, Statuses, TypeOK, Shapes
<1>17. CASE Timeout
  <2>1. shown' \in Shown /\ (shown'.status = "busy" => shown'.op \in Ops)
        /\ shown'.op \in Ops \union {NoOp}
    BY <1>17, ShowTypes DEF Timeout, Statuses, TypeOK, Shapes
  <2> QED
    BY <1>17, <2>1 DEF Timeout, Destroyed, TypeOK, Shapes
<1>18. CASE Die
  BY <1>18 DEF Die, Nothing, Shown, Statuses, TypeOK, Shapes, Ends, Unstaged
<1>19. CASE UNCHANGED vars
  BY <1>19, Constants DEF vars, TypeOK, Shapes
<1> QED
  BY <1>1, <1>2, <1>3, <1>4, <1>5, <1>6, <1>7, <1>8, <1>9, <1>10, <1>11, <1>12,
      <1>13, <1>14, <1>15, <1>16, <1>17, <1>18, <1>19
  DEF Next, JobStep

\* The lease is held by one operation at a time.
LEMMA LeaseStep ==
    ASSUME TypeOK, LeaseInv, [Next]_vars
    PROVE  LeaseInv'
<1> USE DEF content, jobs, service, ghosts, Running
<1>1. ASSUME NEW o \in Ops, NEW k \in Kinds, Request(o, k) PROVE LeaseInv'
  BY <1>1 DEF Request, Goto, Show, TypeOK, LeaseInv, Holding
<1>2. ASSUME NEW o \in Ops, Create(o) PROVE LeaseInv'
  BY <1>2
  DEF Create, Outcome, End, Show, Goto, GiveLease, StopSelfResult, Destroyed, Fault,
      TypeOK, LeaseInv, Holding
<1>3. ASSUME NEW o \in Ops, Inspect(o) PROVE LeaseInv'
  BY <1>3
  DEF Inspect, Outcome, End, Show, Goto, GiveLease, StopSelfResult, Destroyed,
      Fault, TypeOK, LeaseInv, Holding
<1>4. ASSUME NEW o \in Ops, TakeLease(o) PROVE LeaseInv'
  <2>1. CASE End(o, "failed")
    BY <1>4, <2>1 DEF TakeLease, End, Goto, GiveLease, TypeOK, LeaseInv, Holding
  <2>2. CASE ~End(o, "failed")
    BY <1>4, <2>2, Constants DEF TakeLease, Goto, TypeOK, LeaseInv, Holding
  <2> QED
    BY <2>1, <2>2
<1>5. ASSUME NEW o \in Ops, LeaseCancelled(o) PROVE LeaseInv'
  BY <1>5
  DEF LeaseCancelled, End, Show, Goto, GiveLease, StopSelfResult, Destroyed, TypeOK,
      LeaseInv, Holding
<1>6. ASSUME NEW o \in Ops, Plan(o) PROVE LeaseInv'
  BY <1>6 DEF Plan, GiveUp, Undo, Required, Goto, Fault, TypeOK, LeaseInv, Holding
<1>7. ASSUME NEW o \in Ops, NEW t \in Backup, ExtractOne(o, t) PROVE LeaseInv'
  BY <1>7 DEF ExtractOne, Goto, Fault, TypeOK, LeaseInv, Holding
<1>8. ASSUME NEW o \in Ops, BeginTransaction(o) PROVE LeaseInv'
  BY <1>8 DEF BeginTransaction, GiveUp, Undo, Goto, Show, TypeOK, LeaseInv, Holding
<1>9. ASSUME NEW o \in Ops, Rollback(o) PROVE LeaseInv'
  BY <1>9 DEF Rollback, GiveUp, Undo, Goto, Fault, TypeOK, LeaseInv, Holding
<1>10. ASSUME NEW o \in Ops, Commit(o) PROVE LeaseInv'
  BY <1>10 DEF Commit, Imported, Goto, TypeOK, LeaseInv, Holding
<1>11. ASSUME NEW o \in Ops, CancelledTooLate(o) PROVE LeaseInv'
  BY <1>11 DEF CancelledTooLate, GiveUp, Undo, Goto, TypeOK, LeaseInv, Holding
<1>12. ASSUME NEW o \in Ops, CleanUp(o) PROVE LeaseInv'
  BY <1>12 DEF CleanUp, Obsolete, Goto, Show, TypeOK, LeaseInv, Holding
<1>13. ASSUME NEW o \in Ops, Return(o) PROVE LeaseInv'
  BY <1>13
  DEF Return, End, Show, Goto, GiveLease, StopSelfResult, Destroyed, Verdict,
      TypeOK, LeaseInv, Holding
<1>14. CASE Deliver
  BY <1>14 DEF Deliver, Goto, Show, TypeOK, LeaseInv, Holding
<1>15. CASE UserCancels
  BY <1>15 DEF UserCancels, Press, TypeOK, LeaseInv, Holding
<1>16. CASE Dismiss
  BY <1>16 DEF Dismiss, Nothing, TypeOK, LeaseInv, Holding
<1>17. CASE Timeout
  BY <1>17 DEF Timeout, Destroyed, Show, Press, TypeOK, LeaseInv, Holding
<1>18. CASE Die
  BY <1>18 DEF Die, Fault, Nothing, TypeOK, LeaseInv, Holding
<1>19. CASE UNCHANGED vars
  BY <1>19 DEF vars, TypeOK, LeaseInv, Holding
<1> QED
  BY <1>1, <1>2, <1>3, <1>4, <1>5, <1>6, <1>7, <1>8, <1>9, <1>10, <1>11, <1>12,
      <1>13, <1>14, <1>15, <1>16, <1>17, <1>18, <1>19
  DEF Next, JobStep

\* What an intent names is an operation.
LEMMA IntentsOp == \A x \in Intents : x.op \in Ops
BY DEF Intents

\* Most steps leave the intents alone, and whom they are about.
LEMMA SameInbox ==
    ASSUME InboxInv, UNCHANGED inbox, asked \subseteq asked', overlapped \subseteq overlapped',
           \A o \in Ops : pc'[o] = "sent" <=> pc[o] = "sent",
           Running' \subseteq Running
    PROVE  InboxInv'
<1>1. \A i : Start(i)' <=> Start(i)
  BY DEF Start
<1>2. \A i \in 1..Len(inbox) : inbox[i].op \in Ops
  <2>1. \A i \in 1..Len(inbox) : inbox[i] \in Intents
    BY DEF InboxInv
  <2> QED
    BY <2>1 DEF Intents
<1>3. \A i \in 1..Len(inbox) : inbox[i].action = "cancel"
                                  => inbox[i].op \in asked' \union overlapped'
  BY DEF InboxInv, Excused
<1>4. \A i \in 1..Len(inbox) : Start(i) =>
         /\ pc'[inbox[i].op] = "sent"
         /\ \A o \in Running' : pc'[o] # "sent" => o \in overlapped'
         /\ \A k \in 1..Len(inbox) : k < i /\ Start(k) =>
               inbox[k].op \in overlapped' /\ inbox[k].op # inbox[i].op
  <2>1. \A o \in Running' : o \in Ops
    BY DEF Running
  <2> QED
    BY <1>2, <2>1 DEF InboxInv
<1> QED
  BY <1>1, <1>3, <1>4 DEF InboxInv, Excused

\* A step that leaves the service alone and cancels only for a reason.
LEMMA SameReason ==
    ASSUME ReasonInv, UNCHANGED <<cancelled, mine, job, last>>,
           \A o \in Ops : pc'[o] \in {"new", "sent"} => pc[o] \in {"new", "sent"},
           asked \subseteq asked', overlapped \subseteq overlapped', Running' \subseteq Running,
           \A o \in Ops : pc'[o] \in {"cancelling", "cancelled"}
                             => pc[o] \in {"cancelling", "cancelled"} \/ Excused(o)
    PROVE  ReasonInv'
BY DEF ReasonInv, Excused

\* What a restore has staged, and what it has committed, is still there.
LEMMA StageStep ==
    ASSUME TypeOK, Shapes, LeaseInv, InboxInv, StageInv, [Next]_vars
    PROVE  StageInv'
<1> USE DEF content, jobs, service, ghosts
<1>1. ASSUME NEW o \in Ops, NEW k \in Kinds, Request(o, k) PROVE StageInv'
  BY <1>1, Constants
  DEF Request, Goto, Show, StageInv, TypeOK, Shapes, LeaseInv, Holding, Unstaged,
      Uncommitted, FilesOf, Ends
<1>2. ASSUME NEW o \in Ops, Create(o) PROVE StageInv'
  BY <1>2, Constants
  DEF Create, Outcome, End, Show, Goto, GiveLease, StopSelfResult, Destroyed, Fault,
      StageInv, TypeOK, Shapes, LeaseInv, Holding, Unstaged, Uncommitted, FilesOf,
      Ends
<1>3. ASSUME NEW o \in Ops, Inspect(o) PROVE StageInv'
  BY <1>3, Constants
  DEF Inspect, Outcome, End, Show, Goto, GiveLease, StopSelfResult, Destroyed,
      Fault, StageInv, TypeOK, Shapes, LeaseInv, Holding, Unstaged, Uncommitted,
      FilesOf, Ends
<1>4. ASSUME NEW o \in Ops, TakeLease(o) PROVE StageInv'
  BY <1>4, Constants
  DEF TakeLease, End, Show, Goto, GiveLease, StopSelfResult, Destroyed, StageInv,
      TypeOK, Shapes, LeaseInv, Holding, Unstaged, Uncommitted, FilesOf, Ends
<1>5. ASSUME NEW o \in Ops, LeaseCancelled(o) PROVE StageInv'
  BY <1>5, Constants
  DEF LeaseCancelled, End, Show, Goto, GiveLease, StopSelfResult, Destroyed,
      StageInv, TypeOK, Shapes, LeaseInv, Holding, Unstaged, Uncommitted, FilesOf,
      Ends
<1>6. ASSUME NEW o \in Ops, Plan(o) PROVE StageInv'
  BY <1>6, Constants
  DEF Plan, GiveUp, Undo, Required, Goto, Fault, StageInv, TypeOK, Shapes, LeaseInv,
      Holding, Unstaged, Uncommitted, FilesOf, Ends
<1>7. ASSUME NEW o \in Ops, NEW t \in Backup, ExtractOne(o, t) PROVE StageInv'
  BY <1>7, Constants
  DEF ExtractOne, Goto, Fault, StageInv, TypeOK, Shapes, LeaseInv, Holding,
      Unstaged, Uncommitted, FilesOf, Ends
<1>8. ASSUME NEW o \in Ops, BeginTransaction(o) PROVE StageInv'
  BY <1>8, Constants
  DEF BeginTransaction, GiveUp, Undo, Goto, Show, StageInv, TypeOK, Shapes,
      LeaseInv, Holding, Unstaged, Uncommitted, FilesOf, Ends
<1>9. ASSUME NEW o \in Ops, Rollback(o) PROVE StageInv'
  BY <1>9, Constants
  DEF Rollback, GiveUp, Undo, Goto, Fault, StageInv, TypeOK, Shapes, LeaseInv,
      Holding, Unstaged, Uncommitted, FilesOf, Ends
<1>10. ASSUME NEW o \in Ops, Commit(o) PROVE StageInv'
  BY <1>10, Constants
  DEF Commit, Imported, Goto, StageInv, TypeOK, Shapes, LeaseInv, Holding, Unstaged,
      Uncommitted, FilesOf, Ends
<1>11. ASSUME NEW o \in Ops, CancelledTooLate(o) PROVE StageInv'
  BY <1>11, Constants
  DEF CancelledTooLate, GiveUp, Undo, Goto, StageInv, TypeOK, Shapes, LeaseInv,
      Holding, Unstaged, Uncommitted, FilesOf, Ends
<1>12. ASSUME NEW o \in Ops, CleanUp(o) PROVE StageInv'
  BY <1>12, Constants
  DEF CleanUp, Obsolete, Goto, Show, StageInv, TypeOK, Shapes, LeaseInv, Holding,
      Unstaged, Uncommitted, FilesOf, Ends
<1>13. ASSUME NEW o \in Ops, Return(o) PROVE StageInv'
  BY <1>13, Constants
  DEF Return, End, Show, Goto, GiveLease, StopSelfResult, Destroyed, Verdict,
      StageInv, TypeOK, Shapes, LeaseInv, Holding, Unstaged, Uncommitted, FilesOf,
      Ends
<1>14. CASE Deliver
  BY <1>14, DeliverEffect DEF StageInv, Uncommitted, Unstaged, FilesOf
<1>15. CASE UserCancels
  BY <1>15, Constants
  DEF UserCancels, Press, StageInv, TypeOK, Shapes, LeaseInv, Holding, Unstaged,
      Uncommitted, FilesOf, Ends
<1>16. CASE Dismiss
  BY <1>16, Constants
  DEF Dismiss, Nothing, StageInv, TypeOK, Shapes, LeaseInv, Holding, Unstaged,
      Uncommitted, FilesOf, Ends
<1>17. CASE Timeout
  BY <1>17, Constants
  DEF Timeout, Destroyed, Show, Press, StageInv, TypeOK, Shapes, LeaseInv, Holding,
      Unstaged, Uncommitted, FilesOf, Ends
<1>18. CASE Die
  BY <1>18, Constants
  DEF Die, Fault, Nothing, StageInv, TypeOK, Shapes, LeaseInv, Holding, Unstaged,
      Uncommitted, FilesOf, Ends
<1>19. CASE UNCHANGED vars
  BY <1>19, Constants
  DEF vars, StageInv, TypeOK, Shapes, LeaseInv, Holding, Unstaged, Uncommitted,
      FilesOf, Ends
<1> QED
  BY <1>1, <1>2, <1>3, <1>4, <1>5, <1>6, <1>7, <1>8, <1>9, <1>10, <1>11, <1>12,
      <1>13, <1>14, <1>15, <1>16, <1>17, <1>18, <1>19
  DEF Next, JobStep

\* Rows point to files.
LEMMA RowsStep ==
    ASSUME TypeOK, Shapes, LeaseInv, InboxInv, StageInv, RowsHaveFiles, [Next]_vars
    PROVE  RowsHaveFiles'
<1> USE DEF content, jobs, service, ghosts
<1>1. ASSUME NEW o \in Ops, NEW k \in Kinds, Request(o, k) PROVE RowsHaveFiles'
  BY <1>1, Constants
  DEF Request, Goto, Show, RowsHaveFiles, StageInv, TypeOK, Shapes, LeaseInv,
      Holding, Unstaged, Uncommitted, FilesOf
<1>2. ASSUME NEW o \in Ops, Create(o) PROVE RowsHaveFiles'
  BY <1>2, Constants
  DEF Create, Outcome, End, Show, Goto, GiveLease, StopSelfResult, Destroyed, Fault,
      RowsHaveFiles, StageInv, TypeOK, Shapes, LeaseInv, Holding, Unstaged,
      Uncommitted, FilesOf
<1>3. ASSUME NEW o \in Ops, Inspect(o) PROVE RowsHaveFiles'
  BY <1>3, Constants
  DEF Inspect, Outcome, End, Show, Goto, GiveLease, StopSelfResult, Destroyed,
      Fault, RowsHaveFiles, StageInv, TypeOK, Shapes, LeaseInv, Holding, Unstaged,
      Uncommitted, FilesOf
<1>4. ASSUME NEW o \in Ops, TakeLease(o) PROVE RowsHaveFiles'
  BY <1>4, Constants
  DEF TakeLease, End, Show, Goto, GiveLease, StopSelfResult, Destroyed,
      RowsHaveFiles, StageInv, TypeOK, Shapes, LeaseInv, Holding, Unstaged,
      Uncommitted, FilesOf
<1>5. ASSUME NEW o \in Ops, LeaseCancelled(o) PROVE RowsHaveFiles'
  BY <1>5, Constants
  DEF LeaseCancelled, End, Show, Goto, GiveLease, StopSelfResult, Destroyed,
      RowsHaveFiles, StageInv, TypeOK, Shapes, LeaseInv, Holding, Unstaged,
      Uncommitted, FilesOf
<1>6. ASSUME NEW o \in Ops, Plan(o) PROVE RowsHaveFiles'
  BY <1>6, Constants
  DEF Plan, GiveUp, Undo, Required, Goto, Fault, RowsHaveFiles, StageInv, TypeOK,
      Shapes, LeaseInv, Holding, Unstaged, Uncommitted, FilesOf
<1>7. ASSUME NEW o \in Ops, NEW t \in Backup, ExtractOne(o, t) PROVE RowsHaveFiles'
  BY <1>7, Constants
  DEF ExtractOne, Goto, Fault, RowsHaveFiles, StageInv, TypeOK, Shapes, LeaseInv,
      Holding, Unstaged, Uncommitted, FilesOf
<1>8. ASSUME NEW o \in Ops, BeginTransaction(o) PROVE RowsHaveFiles'
  BY <1>8, Constants
  DEF BeginTransaction, GiveUp, Undo, Goto, Show, RowsHaveFiles, StageInv, TypeOK,
      Shapes, LeaseInv, Holding, Unstaged, Uncommitted, FilesOf
<1>9. ASSUME NEW o \in Ops, Rollback(o) PROVE RowsHaveFiles'
  BY <1>9, Constants
  DEF Rollback, GiveUp, Undo, Goto, Fault, RowsHaveFiles, StageInv, TypeOK, Shapes,
      LeaseInv, Holding, Unstaged, Uncommitted, FilesOf
<1>10. ASSUME NEW o \in Ops, Commit(o) PROVE RowsHaveFiles'
  BY <1>10, Constants
  DEF Commit, Imported, Goto, RowsHaveFiles, StageInv, TypeOK, Shapes, LeaseInv,
      Holding, Unstaged, Uncommitted, FilesOf
<1>11. ASSUME NEW o \in Ops, CancelledTooLate(o) PROVE RowsHaveFiles'
  BY <1>11, Constants
  DEF CancelledTooLate, GiveUp, Undo, Goto, RowsHaveFiles, StageInv, TypeOK, Shapes,
      LeaseInv, Holding, Unstaged, Uncommitted, FilesOf
<1>12. ASSUME NEW o \in Ops, CleanUp(o) PROVE RowsHaveFiles'
  BY <1>12, Constants
  DEF CleanUp, Obsolete, Goto, Show, RowsHaveFiles, StageInv, TypeOK, Shapes,
      LeaseInv, Holding, Unstaged, Uncommitted, FilesOf
<1>13. ASSUME NEW o \in Ops, Return(o) PROVE RowsHaveFiles'
  BY <1>13, Constants
  DEF Return, End, Show, Goto, GiveLease, StopSelfResult, Destroyed, Verdict,
      RowsHaveFiles, StageInv, TypeOK, Shapes, LeaseInv, Holding, Unstaged,
      Uncommitted, FilesOf
<1>14. CASE Deliver
  BY <1>14, DeliverEffect DEF RowsHaveFiles
<1>15. CASE UserCancels
  BY <1>15, Constants
  DEF UserCancels, Press, RowsHaveFiles, StageInv, TypeOK, Shapes, LeaseInv,
      Holding, Unstaged, Uncommitted, FilesOf
<1>16. CASE Dismiss
  BY <1>16, Constants
  DEF Dismiss, Nothing, RowsHaveFiles, StageInv, TypeOK, Shapes, LeaseInv, Holding,
      Unstaged, Uncommitted, FilesOf
<1>17. CASE Timeout
  BY <1>17, Constants
  DEF Timeout, Destroyed, Show, Press, RowsHaveFiles, StageInv, TypeOK, Shapes,
      LeaseInv, Holding, Unstaged, Uncommitted, FilesOf
<1>18. CASE Die
  BY <1>18, Constants
  DEF Die, Fault, Nothing, RowsHaveFiles, StageInv, TypeOK, Shapes, LeaseInv,
      Holding, Unstaged, Uncommitted, FilesOf
<1>19. CASE UNCHANGED vars
  BY <1>19, Constants
  DEF vars, RowsHaveFiles, StageInv, TypeOK, Shapes, LeaseInv, Holding, Unstaged,
      Uncommitted, FilesOf
<1> QED
  BY <1>1, <1>2, <1>3, <1>4, <1>5, <1>6, <1>7, <1>8, <1>9, <1>10, <1>11, <1>12,
      <1>13, <1>14, <1>15, <1>16, <1>17, <1>18, <1>19
  DEF Next, JobStep

\* Files belong to rows.
LEMMA FilesStep ==
    ASSUME TypeOK, Shapes, LeaseInv, InboxInv, StageInv, FilesHaveRows, [Next]_vars
    PROVE  FilesHaveRows'
<1> USE DEF content, jobs, service, ghosts
<1>1. ASSUME NEW o \in Ops, NEW k \in Kinds, Request(o, k) PROVE FilesHaveRows'
  BY <1>1, Constants
  DEF Request, Goto, Show, FilesHaveRows, StageInv, TypeOK, Shapes, LeaseInv,
      Holding, Unstaged, Uncommitted, FilesOf, Rows
<1>2. ASSUME NEW o \in Ops, Create(o) PROVE FilesHaveRows'
  BY <1>2, Constants
  DEF Create, Outcome, End, Show, Goto, GiveLease, StopSelfResult, Destroyed, Fault,
      FilesHaveRows, StageInv, TypeOK, Shapes, LeaseInv, Holding, Unstaged,
      Uncommitted, FilesOf, Rows
<1>3. ASSUME NEW o \in Ops, Inspect(o) PROVE FilesHaveRows'
  BY <1>3, Constants
  DEF Inspect, Outcome, End, Show, Goto, GiveLease, StopSelfResult, Destroyed,
      Fault, FilesHaveRows, StageInv, TypeOK, Shapes, LeaseInv, Holding, Unstaged,
      Uncommitted, FilesOf, Rows
<1>4. ASSUME NEW o \in Ops, TakeLease(o) PROVE FilesHaveRows'
  BY <1>4, Constants
  DEF TakeLease, End, Show, Goto, GiveLease, StopSelfResult, Destroyed,
      FilesHaveRows, StageInv, TypeOK, Shapes, LeaseInv, Holding, Unstaged,
      Uncommitted, FilesOf, Rows
<1>5. ASSUME NEW o \in Ops, LeaseCancelled(o) PROVE FilesHaveRows'
  BY <1>5, Constants
  DEF LeaseCancelled, End, Show, Goto, GiveLease, StopSelfResult, Destroyed,
      FilesHaveRows, StageInv, TypeOK, Shapes, LeaseInv, Holding, Unstaged,
      Uncommitted, FilesOf, Rows
<1>6. ASSUME NEW o \in Ops, Plan(o) PROVE FilesHaveRows'
  BY <1>6, Constants
  DEF Plan, GiveUp, Undo, Required, Goto, Fault, FilesHaveRows, StageInv, TypeOK,
      Shapes, LeaseInv, Holding, Unstaged, Uncommitted, FilesOf, Rows
<1>7. ASSUME NEW o \in Ops, NEW t \in Backup, ExtractOne(o, t) PROVE FilesHaveRows'
  BY <1>7, Constants
  DEF ExtractOne, Goto, Fault, FilesHaveRows, StageInv, TypeOK, Shapes, LeaseInv,
      Holding, Unstaged, Uncommitted, FilesOf, Rows
<1>8. ASSUME NEW o \in Ops, BeginTransaction(o) PROVE FilesHaveRows'
  BY <1>8, Constants
  DEF BeginTransaction, GiveUp, Undo, Goto, Show, FilesHaveRows, StageInv, TypeOK,
      Shapes, LeaseInv, Holding, Unstaged, Uncommitted, FilesOf, Rows
<1>9. ASSUME NEW o \in Ops, Rollback(o) PROVE FilesHaveRows'
  BY <1>9, Constants
  DEF Rollback, GiveUp, Undo, Goto, Fault, FilesHaveRows, StageInv, TypeOK, Shapes,
      LeaseInv, Holding, Unstaged, Uncommitted, FilesOf, Rows
<1>10. ASSUME NEW o \in Ops, Commit(o) PROVE FilesHaveRows'
  BY <1>10, Constants
  DEF Commit, Imported, Goto, FilesHaveRows, StageInv, TypeOK, Shapes, LeaseInv,
      Holding, Unstaged, Uncommitted, FilesOf, Rows
<1>11. ASSUME NEW o \in Ops, CancelledTooLate(o) PROVE FilesHaveRows'
  BY <1>11, Constants
  DEF CancelledTooLate, GiveUp, Undo, Goto, FilesHaveRows, StageInv, TypeOK, Shapes,
      LeaseInv, Holding, Unstaged, Uncommitted, FilesOf, Rows
<1>12. ASSUME NEW o \in Ops, CleanUp(o) PROVE FilesHaveRows'
  BY <1>12, Constants
  DEF CleanUp, Obsolete, Goto, Show, FilesHaveRows, StageInv, TypeOK, Shapes,
      LeaseInv, Holding, Unstaged, Uncommitted, FilesOf, Rows
<1>13. ASSUME NEW o \in Ops, Return(o) PROVE FilesHaveRows'
  BY <1>13, Constants
  DEF Return, End, Show, Goto, GiveLease, StopSelfResult, Destroyed, Verdict,
      FilesHaveRows, StageInv, TypeOK, Shapes, LeaseInv, Holding, Unstaged,
      Uncommitted, FilesOf, Rows
<1>14. CASE Deliver
  BY <1>14, DeliverEffect DEF FilesHaveRows, FilesOf, Rows
<1>15. CASE UserCancels
  BY <1>15, Constants
  DEF UserCancels, Press, FilesHaveRows, StageInv, TypeOK, Shapes, LeaseInv,
      Holding, Unstaged, Uncommitted, FilesOf, Rows
<1>16. CASE Dismiss
  BY <1>16, Constants
  DEF Dismiss, Nothing, FilesHaveRows, StageInv, TypeOK, Shapes, LeaseInv, Holding,
      Unstaged, Uncommitted, FilesOf, Rows
<1>17. CASE Timeout
  BY <1>17, Constants
  DEF Timeout, Destroyed, Show, Press, FilesHaveRows, StageInv, TypeOK, Shapes,
      LeaseInv, Holding, Unstaged, Uncommitted, FilesOf, Rows
<1>18. CASE Die
  BY <1>18, Constants
  DEF Die, Fault, Nothing, FilesHaveRows, StageInv, TypeOK, Shapes, LeaseInv,
      Holding, Unstaged, Uncommitted, FilesOf, Rows
<1>19. CASE UNCHANGED vars
  BY <1>19, Constants
  DEF vars, FilesHaveRows, StageInv, TypeOK, Shapes, LeaseInv, Holding, Unstaged,
      Uncommitted, FilesOf, Rows
<1> QED
  BY <1>1, <1>2, <1>3, <1>4, <1>5, <1>6, <1>7, <1>8, <1>9, <1>10, <1>11, <1>12,
      <1>13, <1>14, <1>15, <1>16, <1>17, <1>18, <1>19
  DEF Next, JobStep

\* The intents arrive in the order in which they were sent.
LEMMA InboxStep ==
    ASSUME TypeOK, Shapes, InboxInv, [Next]_vars
    PROVE  InboxInv'
<1> USE DEF content, jobs, service, ghosts
<1>1. ASSUME NEW o \in Ops, NEW k \in Kinds, Request(o, k) PROVE InboxInv'
  <2> DEFINE x == [action |-> "start", op |-> o]
             n == Len(inbox) + 1
  <2>1. /\ inbox' = Append(inbox, x) /\ pc[o] = "new" /\ pc' = [pc EXCEPT ![o] = "sent"]
        /\ asked' = asked /\ overlapped' = overlapped \union Running
        /\ pc \in [Ops -> Steps] /\ inbox \in Seq(Intents) /\ x \in Intents
    BY <1>1 DEF Request, Goto, InboxInv, Intents, TypeOK, Steps
  <2>2. /\ inbox' \in Seq(Intents) /\ Len(inbox') = n /\ Len(inbox) \in Nat /\ inbox'[n] = x
        /\ \A i \in 1..Len(inbox) : inbox'[i] = inbox[i] /\ inbox[i] \in Intents
    BY <2>1
  <2> HIDE DEF n
  <2>3. \A i \in 1..n : i = n \/ i \in 1..Len(inbox)
    BY <2>2 DEF n
  <2>4. \A i \in 1..n : inbox'[i].action = "cancel" => inbox'[i].op \in asked' \union overlapped'
    BY <2>1, <2>2, <2>3 DEF InboxInv, Excused
  <2>5. \A p \in Running' : pc'[p] # "sent" => p \in overlapped'
    BY <2>1 DEF Running
  <2>6. \A i \in 1..Len(inbox) : Start(i) => /\ pc[inbox[i].op] = "sent"
                                           /\ inbox[i].op # o /\ inbox[i].op \in Running
    BY <2>1, <2>2 DEF InboxInv, Start, Intents, Running, Ends
  <2>7. ASSUME NEW i \in 1..n, Start(i)'
        PROVE  /\ pc'[inbox'[i].op] = "sent"
               /\ \A m \in 1..n : m < i /\ Start(m)' =>
                     inbox'[m].op \in overlapped' /\ inbox'[m].op # inbox'[i].op
    <3>1. CASE i = n
      BY <2>1, <2>2, <2>3, <2>6, <2>7, <3>1 DEF Start
    <3>2. CASE i \in 1..Len(inbox)
      <4>1. \A m \in 1..n : m < i => m \in 1..Len(inbox)
        BY <2>2, <3>2 DEF n
      <4> QED
        BY <2>1, <2>2, <2>6, <2>7, <3>2, <4>1 DEF Start, InboxInv, Intents
    <3> QED
      BY <2>3, <3>1, <3>2
  <2> QED
    BY <2>2, <2>4, <2>5, <2>7 DEF InboxInv, Excused
<1>2. ASSUME NEW o \in Ops, Create(o) PROVE InboxInv'
  BY <1>2, Constants
  DEF Create, Outcome, End, Show, Goto, GiveLease, StopSelfResult, Destroyed, Fault,
      InboxInv, Excused, Start, Running, Ends, Shapes
<1>3. ASSUME NEW o \in Ops, Inspect(o) PROVE InboxInv'
  BY <1>3, Constants
  DEF Inspect, Outcome, End, Show, Goto, GiveLease, StopSelfResult, Destroyed,
      Fault, InboxInv, Excused, Start, Running, Ends, Shapes
<1>4. ASSUME NEW o \in Ops, TakeLease(o) PROVE InboxInv'
  BY <1>4, SameInbox
  DEF TakeLease, End, Goto, StopSelfResult, Destroyed, TypeOK, Running, Ends
<1>5. ASSUME NEW o \in Ops, LeaseCancelled(o) PROVE InboxInv'
  BY <1>5, Constants
  DEF LeaseCancelled, End, Show, Goto, GiveLease, StopSelfResult, Destroyed,
      InboxInv, Excused, Start, Running, Ends, Shapes
<1>6. ASSUME NEW o \in Ops, Plan(o) PROVE InboxInv'
  <2>1. /\ \/ pc' = pc
           \/ pc' = [pc EXCEPT ![o] = "extract"] \/ pc' = [pc EXCEPT ![o] = "import"]
           \/ pc' = [pc EXCEPT ![o] = "failing"]
           \/ pc' = [pc EXCEPT ![o] = "cancelling"]
        /\ UNCHANGED <<inbox, asked, overlapped>>
    BY <1>6, Constants DEF Plan, GiveUp, Goto
  <2>2. pc \in [Ops -> Steps] /\ o \in Running /\ pc[o] # "sent"
    BY <1>6 DEF Plan, TypeOK, Steps, Running, Ends
  <2>3. /\ Running' \subseteq Running
        /\ \A p \in Ops : (pc'[p] = "sent" <=> pc[p] = "sent") /\ (pc'[p] = "new" => pc[p] = "new")
    BY <2>1, <2>2 DEF Running, Ends
  <2> QED
    BY <2>1, <2>3, SameInbox
<1>7. ASSUME NEW o \in Ops, NEW t \in Backup, ExtractOne(o, t) PROVE InboxInv'
  <2>1. /\ \/ pc' = pc
           \/ pc' = [pc EXCEPT ![o] = "extract"] \/ pc' = [pc EXCEPT ![o] = "import"]
           \/ pc' = [pc EXCEPT ![o] = "failing"]
           \/ pc' = [pc EXCEPT ![o] = "cancelling"]
        /\ UNCHANGED <<inbox, asked, overlapped>>
    BY <1>7, Constants DEF ExtractOne, Goto
  <2>2. pc \in [Ops -> Steps] /\ o \in Running /\ pc[o] # "sent"
    BY <1>7 DEF ExtractOne, TypeOK, Steps, Running, Ends
  <2>3. /\ Running' \subseteq Running
        /\ \A p \in Ops : (pc'[p] = "sent" <=> pc[p] = "sent") /\ (pc'[p] = "new" => pc[p] = "new")
    BY <2>1, <2>2 DEF Running, Ends
  <2> QED
    BY <2>1, <2>3, SameInbox
<1>8. ASSUME NEW o \in Ops, BeginTransaction(o) PROVE InboxInv'
  <2>1. /\ \/ pc' = pc
           \/ pc' = [pc EXCEPT ![o] = "extract"] \/ pc' = [pc EXCEPT ![o] = "import"]
           \/ pc' = [pc EXCEPT ![o] = "failing"]
           \/ pc' = [pc EXCEPT ![o] = "cancelling"]
        /\ UNCHANGED <<inbox, asked, overlapped>>
    BY <1>8, Constants DEF BeginTransaction, GiveUp, Goto
  <2>2. pc \in [Ops -> Steps] /\ o \in Running /\ pc[o] # "sent"
    BY <1>8 DEF BeginTransaction, TypeOK, Steps, Running, Ends
  <2>3. /\ Running' \subseteq Running
        /\ \A p \in Ops : (pc'[p] = "sent" <=> pc[p] = "sent") /\ (pc'[p] = "new" => pc[p] = "new")
    BY <2>1, <2>2 DEF Running, Ends
  <2> QED
    BY <2>1, <2>3, SameInbox
<1>9. ASSUME NEW o \in Ops, Rollback(o) PROVE InboxInv'
  <2>1. /\ \/ pc' = pc
           \/ pc' = [pc EXCEPT ![o] = "extract"] \/ pc' = [pc EXCEPT ![o] = "import"]
           \/ pc' = [pc EXCEPT ![o] = "failing"]
           \/ pc' = [pc EXCEPT ![o] = "cancelling"]
        /\ UNCHANGED <<inbox, asked, overlapped>>
    BY <1>9, Constants DEF Rollback, GiveUp, Goto
  <2>2. pc \in [Ops -> Steps] /\ o \in Running /\ pc[o] # "sent"
    BY <1>9 DEF Rollback, TypeOK, Steps, Running, Ends
  <2>3. /\ Running' \subseteq Running
        /\ \A p \in Ops : (pc'[p] = "sent" <=> pc[p] = "sent") /\ (pc'[p] = "new" => pc[p] = "new")
    BY <2>1, <2>2 DEF Running, Ends
  <2> QED
    BY <2>1, <2>3, SameInbox
<1>10. ASSUME NEW o \in Ops, Commit(o) PROVE InboxInv'
  BY <1>10, Constants
  DEF Commit, Imported, Goto, InboxInv, Excused, Start, Running, Ends, Shapes
<1>11. ASSUME NEW o \in Ops, CancelledTooLate(o) PROVE InboxInv'
  BY <1>11, Constants
  DEF CancelledTooLate, GiveUp, Undo, Goto, InboxInv, Excused, Start, Running, Ends,
      Shapes
<1>12. ASSUME NEW o \in Ops, CleanUp(o) PROVE InboxInv'
  BY <1>12, Constants
  DEF CleanUp, Obsolete, Goto, Show, InboxInv, Excused, Start, Running, Ends, Shapes
<1>13. ASSUME NEW o \in Ops, Return(o) PROVE InboxInv'
  BY <1>13, Constants
  DEF Return, End, Show, Goto, GiveLease, StopSelfResult, Destroyed, Verdict,
      InboxInv, Excused, Start, Running, Ends, Shapes
<1>14. CASE Deliver
  <2> DEFINE o == inbox[1].op
  <2>1. /\ inbox \in Seq(Intents) /\ inbox # <<>> /\ inbox' = Tail(inbox)
    BY <1>14, DeliverEffect DEF InboxInv
  <2>2. /\ inbox' \in Seq(Intents) /\ Len(inbox') = Len(inbox) - 1 /\ Len(inbox) \in Nat
        /\ \A i \in 1..Len(inbox') : i + 1 \in 1..Len(inbox) /\ inbox'[i] = inbox[i + 1]
    BY <2>1
  <2>3. UNCHANGED <<asked, overlapped>>
    BY <1>14, DeliverEffect
  <2>4. \A i \in 1..Len(inbox') : inbox'[i].action = "cancel" => inbox'[i].op \in asked' \union overlapped'
    BY <2>2, <2>3 DEF InboxInv, Excused
  <2>5. ASSUME NEW i \in 1..Len(inbox'), Start(i)'
        PROVE  /\ pc'[inbox'[i].op] = "sent"
               /\ \A p \in Running' : pc'[p] # "sent" => p \in overlapped'
               /\ \A m \in 1..Len(inbox') : m < i /\ Start(m)' =>
                     inbox'[m].op \in overlapped' /\ inbox'[m].op # inbox'[i].op
    <3>1. i + 1 \in 1..Len(inbox) /\ Start(i + 1) /\ 1 < i + 1 /\ inbox'[i] = inbox[i + 1]
          /\ inbox[i + 1] \in Intents /\ inbox[i + 1].op \in Ops
      BY <2>1, <2>2, <2>5, IntentsOp DEF Start
    <3>2. ASSUME NEW k \in 1..Len(inbox'), k < i, Start(k)'
          PROVE  inbox'[k].op \in overlapped' /\ inbox'[k].op # inbox'[i].op
      <4>1. k + 1 \in 1..Len(inbox) /\ Start(k + 1) /\ k + 1 < i + 1 /\ inbox'[k] = inbox[k + 1]
        BY <2>2, <3>2 DEF Start
      <4> QED
        BY <2>3, <3>1, <4>1 DEF InboxInv
    <3>3. /\ pc[inbox[i + 1].op] = "sent"
          /\ \A p \in Running : pc[p] # "sent" => p \in overlapped
          /\ Start(1) => o \in overlapped /\ o # inbox[i + 1].op
      BY <3>1 DEF InboxInv, Start
    <3>4. pc'[inbox'[i].op] = "sent" /\ \A p \in Running' : pc'[p] # "sent" => p \in overlapped'
      BY <1>14, <2>3, <3>1, <3>3, DeliverEffect DEF Running, Ends, TypeOK
    <3> QED
      BY <3>2, <3>4
  <2> QED
    BY <2>2, <2>4, <2>5 DEF InboxInv, Excused
<1>15. CASE UserCancels
  <2> DEFINE x == [action |-> "cancel", op |-> shown.op]
             n == Len(inbox) + 1
  <2>1. /\ inbox' = Append(inbox, x) /\ UNCHANGED <<pc, overlapped>>
        /\ asked' = asked \union {shown.op} /\ inbox \in Seq(Intents) /\ x \in Intents
    BY <1>15 DEF UserCancels, InboxInv, Intents, Shapes
  <2>2. /\ inbox' \in Seq(Intents) /\ Len(inbox') = n /\ Len(inbox) \in Nat /\ inbox'[n] = x
        /\ \A i \in 1..Len(inbox) : inbox'[i] = inbox[i] /\ inbox[i] \in Intents
    BY <2>1
  <2> HIDE DEF n
  <2>3. \A i \in 1..n : i = n \/ i \in 1..Len(inbox)
    BY <2>2 DEF n
  <2>4. \A i \in 1..n : inbox'[i].action = "cancel" => inbox'[i].op \in asked' \union overlapped'
    BY <2>1, <2>2, <2>3 DEF InboxInv, Excused
  <2>5. \A i \in 1..n : Start(i)' => Start(i) /\ inbox'[i] = inbox[i]
    BY <2>2, <2>3 DEF Start
  <2> QED
    BY <2>1, <2>2, <2>4, <2>5 DEF InboxInv, Excused, Running, Start
<1>16. CASE Dismiss
  BY <1>16, Constants
  DEF Dismiss, Nothing, InboxInv, Excused, Start, Running, Ends, Shapes
<1>17. CASE Timeout
  BY <1>17, Constants
  DEF Timeout, Destroyed, Show, Press, InboxInv, Excused, Start, Running, Ends,
      Shapes
<1>18. CASE Die
  BY <1>18, Constants
  DEF Die, Fault, Nothing, InboxInv, Excused, Start, Running, Ends, Shapes
<1>19. CASE UNCHANGED vars
  BY <1>19, Constants DEF vars, InboxInv, Excused, Start, Running, Ends, Shapes
<1> QED
  BY <1>1, <1>2, <1>3, <1>4, <1>5, <1>6, <1>7, <1>8, <1>9, <1>10, <1>11, <1>12,
      <1>13, <1>14, <1>15, <1>16, <1>17, <1>18, <1>19
  DEF Next, JobStep

\* Who is cancelled was meant, or had another started on top.
LEMMA ReasonStep ==
    ASSUME TypeOK, Shapes, InboxInv, ReasonInv, [Next]_vars
    PROVE  ReasonInv'
<1> USE DEF content, jobs, service, ghosts
<1>1. ASSUME NEW o \in Ops, NEW k \in Kinds, Request(o, k) PROVE ReasonInv'
  <2>1. /\ pc[o] = "new" /\ pc' = [pc EXCEPT ![o] = "sent"] /\ last' = o
        /\ UNCHANGED <<cancelled, mine, job, asked>> /\ overlapped' = overlapped \union Running
        /\ pc \in [Ops -> Steps]
    BY <1>1 DEF Request, Goto, TypeOK, Steps
  <2> QED
    BY <2>1 DEF ReasonInv, Excused, Running, Ends, TypeOK
<1>2. ASSUME NEW o \in Ops, Create(o) PROVE ReasonInv'
  BY <1>2, Constants
  DEF Create, Outcome, End, Show, Goto, GiveLease, StopSelfResult, Destroyed, Fault,
      ReasonInv, InboxInv, Excused, Start, Running, Ends, TypeOK, Shapes
<1>3. ASSUME NEW o \in Ops, Inspect(o) PROVE ReasonInv'
  BY <1>3, Constants
  DEF Inspect, Outcome, End, Show, Goto, GiveLease, StopSelfResult, Destroyed,
      Fault, ReasonInv, InboxInv, Excused, Start, Running, Ends, TypeOK, Shapes
<1>4. ASSUME NEW o \in Ops, TakeLease(o) PROVE ReasonInv'
  BY <1>4, Constants
  DEF TakeLease, End, Show, Goto, GiveLease, StopSelfResult, Destroyed, ReasonInv,
      InboxInv, Excused, Start, Running, Ends, TypeOK, Shapes
<1>5. ASSUME NEW o \in Ops, LeaseCancelled(o) PROVE ReasonInv'
  BY <1>5, Constants
  DEF LeaseCancelled, End, Show, Goto, GiveLease, StopSelfResult, Destroyed,
      ReasonInv, InboxInv, Excused, Start, Running, Ends, TypeOK, Shapes
<1>6. ASSUME NEW o \in Ops, Plan(o) PROVE ReasonInv'
  <2>1. /\ \/ pc' = pc
           \/ pc' = [pc EXCEPT ![o] = "extract"] \/ pc' = [pc EXCEPT ![o] = "import"]
           \/ pc' = [pc EXCEPT ![o] = "failing"]
           \/ pc' = [pc EXCEPT ![o] = "cancelling"] /\ Excused(o)
        /\ UNCHANGED <<cancelled, mine, job, last, asked, overlapped>>
    BY <1>6, Constants
    DEF Plan, GiveUp, Goto, ReasonInv, Excused, Running, Ends, TypeOK
  <2>2. pc \in [Ops -> Steps] /\ o \in Running /\ pc[o] # "sent"
    BY <1>6 DEF Plan, TypeOK, Steps, Running, Ends
  <2>3. /\ Running' \subseteq Running
        /\ \A p \in Ops : (pc'[p] = "sent" <=> pc[p] = "sent") /\ (pc'[p] = "new" => pc[p] = "new")
    BY <2>1, <2>2 DEF Running, Ends
  <2>4. \A p \in Ops : pc'[p] \in {"cancelling", "cancelled"}
                    => pc[p] \in {"cancelling", "cancelled"} \/ Excused(p)
    BY <2>1, <2>2
  <2> QED
    BY <2>1, <2>3, <2>4, SameReason
<1>7. ASSUME NEW o \in Ops, NEW t \in Backup, ExtractOne(o, t) PROVE ReasonInv'
  <2>1. /\ \/ pc' = pc
           \/ pc' = [pc EXCEPT ![o] = "extract"] \/ pc' = [pc EXCEPT ![o] = "import"]
           \/ pc' = [pc EXCEPT ![o] = "failing"]
           \/ pc' = [pc EXCEPT ![o] = "cancelling"] /\ Excused(o)
        /\ UNCHANGED <<cancelled, mine, job, last, asked, overlapped>>
    BY <1>7, Constants
    DEF ExtractOne, Goto, ReasonInv, Excused, Running, Ends, TypeOK
  <2>2. pc \in [Ops -> Steps] /\ o \in Running /\ pc[o] # "sent"
    BY <1>7 DEF ExtractOne, TypeOK, Steps, Running, Ends
  <2>3. /\ Running' \subseteq Running
        /\ \A p \in Ops : (pc'[p] = "sent" <=> pc[p] = "sent") /\ (pc'[p] = "new" => pc[p] = "new")
    BY <2>1, <2>2 DEF Running, Ends
  <2>4. \A p \in Ops : pc'[p] \in {"cancelling", "cancelled"}
                    => pc[p] \in {"cancelling", "cancelled"} \/ Excused(p)
    BY <2>1, <2>2
  <2> QED
    BY <2>1, <2>3, <2>4, SameReason
<1>8. ASSUME NEW o \in Ops, BeginTransaction(o) PROVE ReasonInv'
  <2>1. /\ \/ pc' = pc
           \/ pc' = [pc EXCEPT ![o] = "extract"] \/ pc' = [pc EXCEPT ![o] = "import"]
           \/ pc' = [pc EXCEPT ![o] = "failing"]
           \/ pc' = [pc EXCEPT ![o] = "cancelling"] /\ Excused(o)
        /\ UNCHANGED <<cancelled, mine, job, last, asked, overlapped>>
    BY <1>8, Constants
    DEF BeginTransaction, GiveUp, Goto, ReasonInv, Excused, Running, Ends, TypeOK
  <2>2. pc \in [Ops -> Steps] /\ o \in Running /\ pc[o] # "sent"
    BY <1>8 DEF BeginTransaction, TypeOK, Steps, Running, Ends
  <2>3. /\ Running' \subseteq Running
        /\ \A p \in Ops : (pc'[p] = "sent" <=> pc[p] = "sent") /\ (pc'[p] = "new" => pc[p] = "new")
    BY <2>1, <2>2 DEF Running, Ends
  <2>4. \A p \in Ops : pc'[p] \in {"cancelling", "cancelled"}
                    => pc[p] \in {"cancelling", "cancelled"} \/ Excused(p)
    BY <2>1, <2>2
  <2> QED
    BY <2>1, <2>3, <2>4, SameReason
<1>9. ASSUME NEW o \in Ops, Rollback(o) PROVE ReasonInv'
  <2>1. /\ \/ pc' = pc
           \/ pc' = [pc EXCEPT ![o] = "extract"] \/ pc' = [pc EXCEPT ![o] = "import"]
           \/ pc' = [pc EXCEPT ![o] = "failing"]
           \/ pc' = [pc EXCEPT ![o] = "cancelling"] /\ Excused(o)
        /\ UNCHANGED <<cancelled, mine, job, last, asked, overlapped>>
    BY <1>9, Constants
    DEF Rollback, GiveUp, Goto, ReasonInv, Excused, Running, Ends, TypeOK
  <2>2. pc \in [Ops -> Steps] /\ o \in Running /\ pc[o] # "sent"
    BY <1>9 DEF Rollback, TypeOK, Steps, Running, Ends
  <2>3. /\ Running' \subseteq Running
        /\ \A p \in Ops : (pc'[p] = "sent" <=> pc[p] = "sent") /\ (pc'[p] = "new" => pc[p] = "new")
    BY <2>1, <2>2 DEF Running, Ends
  <2>4. \A p \in Ops : pc'[p] \in {"cancelling", "cancelled"}
                    => pc[p] \in {"cancelling", "cancelled"} \/ Excused(p)
    BY <2>1, <2>2
  <2> QED
    BY <2>1, <2>3, <2>4, SameReason
<1>10. ASSUME NEW o \in Ops, Commit(o) PROVE ReasonInv'
  BY <1>10, Constants
  DEF Commit, Imported, Goto, ReasonInv, InboxInv, Excused, Start, Running, Ends,
      TypeOK, Shapes
<1>11. ASSUME NEW o \in Ops, CancelledTooLate(o) PROVE ReasonInv'
  BY <1>11, Constants
  DEF CancelledTooLate, GiveUp, Undo, Goto, ReasonInv, InboxInv, Excused, Start,
      Running, Ends, TypeOK, Shapes
<1>12. ASSUME NEW o \in Ops, CleanUp(o) PROVE ReasonInv'
  BY <1>12, Constants
  DEF CleanUp, Obsolete, Goto, Show, ReasonInv, InboxInv, Excused, Start, Running,
      Ends, TypeOK, Shapes
<1>13. ASSUME NEW o \in Ops, Return(o) PROVE ReasonInv'
  BY <1>13, Constants
  DEF Return, End, Show, Goto, GiveLease, StopSelfResult, Destroyed, Verdict,
      ReasonInv, InboxInv, Excused, Start, Running, Ends, TypeOK, Shapes
<1>14. CASE Deliver
  <2> DEFINE o == inbox[1].op
  <2>1. UNCHANGED <<asked, overlapped, last>>
    BY <1>14, DeliverEffect
  <2>2. CASE Start(1)
    <3>1. /\ \A p \in Running : pc[p] # "sent" => p \in overlapped
          /\ inbox[1].action = "start" /\ inbox[1].op \in Ops
      BY <1>14, <2>2, DeliverEffect DEF InboxInv, Start
    <3>2. /\ pc[o] = "sent" /\ pc'[o] \in {"inspect", "lease"}
          /\ \A p \in Ops \ {o} : pc'[p] = pc[p]
          /\ job' = o /\ mine' = mine \union {o} /\ cancelled' = cancelled
      BY <1>14, <3>1, DeliverEffect
    <3>3. Running' = Running /\ mine \subseteq Ops
      BY <3>1, <3>2 DEF Running, Ends, TypeOK
    <3> HIDE DEF o
    <3>4. \A p \in Ops : pc'[p] \in {"cancelling", "cancelled"} => Excused(p)
      BY <3>2 DEF ReasonInv
    <3>5. \A p \in mine' \intersect Running' : job' \in {NoOp, p} \/ p \in overlapped
      BY <3>1, <3>2, <3>3 DEF ReasonInv
    <3>6. \A p \in Ops : pc'[p] \in {"new", "sent"}
                         => p \notin mine' \union cancelled' \union {job'}
      BY <3>2 DEF ReasonInv
    <3> QED
      BY <2>1, <3>2, <3>3, <3>4, <3>5, <3>6 DEF ReasonInv, Excused
  <2>3. CASE inbox[1].action = "cancel"
    <3>1. Excused(o) /\ o \in Ops
      BY <1>14, <2>3, DeliverEffect DEF InboxInv
    <3>2. /\ cancelled' \in {cancelled, cancelled \union {job}}
          /\ cancelled' # cancelled => o = active
          /\ UNCHANGED <<pc, active, job, mine>>
      BY <1>14, <2>3, DeliverEffect DEF Start
    <3> HIDE DEF o
    <3>3. cancelled' \subseteq cancelled \union {o}
      BY <3>1, <3>2, Constants DEF Shapes
    <3>4. \A p \in Ops : pc[p] \in {"new", "sent"} => p \notin cancelled'
      BY <3>2 DEF ReasonInv
    <3> QED
      BY <2>1, <3>1, <3>2, <3>3, <3>4 DEF ReasonInv, Excused, Running
  <2> QED
    BY <1>14, <2>2, <2>3, DeliverEffect
<1>15. CASE UserCancels
  BY <1>15, Constants
  DEF UserCancels, Press, ReasonInv, InboxInv, Excused, Start, Running, Ends,
      TypeOK, Shapes
<1>16. CASE Dismiss
  BY <1>16, Constants
  DEF Dismiss, Nothing, ReasonInv, InboxInv, Excused, Start, Running, Ends, TypeOK,
      Shapes
<1>17. CASE Timeout
  BY <1>17, Constants
  DEF Timeout, Destroyed, Show, Press, ReasonInv, InboxInv, Excused, Start, Running,
      Ends, TypeOK, Shapes
<1>18. CASE Die
  BY <1>18, Constants
  DEF Die, Fault, Nothing, ReasonInv, InboxInv, Excused, Start, Running, Ends,
      TypeOK, Shapes
<1>19. CASE UNCHANGED vars
  BY <1>19, Constants
  DEF vars, ReasonInv, InboxInv, Excused, Start, Running, Ends, TypeOK, Shapes
<1> QED
  BY <1>1, <1>2, <1>3, <1>4, <1>5, <1>6, <1>7, <1>8, <1>9, <1>10, <1>11, <1>12,
      <1>13, <1>14, <1>15, <1>16, <1>17, <1>18, <1>19
  DEF Next, JobStep

-----------------------------------------------------------------------------
(* The invariant and what follows from it.                                 *)

\* It holds when the application starts.
LEMMA InitInv == Init => IInv
<1> SUFFICES ASSUME Init PROVE IInv
  OBVIOUS
<1> USE Constants DEF Init
<1>1. TypeOK
  BY DEF TypeOK, Nothing, Kinds
<1>2. Shapes
  BY DEF Shapes, Shown, Nothing, Statuses
<1>3. LeaseInv
  BY DEF LeaseInv, Holding
<1>4. StageInv
  BY DEF StageInv
<1>5. RowsHaveFiles /\ FilesHaveRows
  BY DEF RowsHaveFiles, FilesHaveRows, Rows
<1>6. InboxInv
  BY DEF InboxInv, Start, Intents
<1>7. ReasonInv
  BY DEF ReasonInv, Running
<1> QED
  BY <1>1, <1>2, <1>3, <1>4, <1>5, <1>6, <1>7 DEF IInv, MediaInv

\* Every reachable state satisfies it.
THEOREM Invariance == Spec => []IInv
<1>1. IInv /\ [Next]_vars => IInv'
  BY TypesStep, LeaseStep, StageStep, RowsStep, FilesStep, InboxStep, ReasonStep
  DEF IInv, MediaInv
<1> QED
  BY <1>1, InitInv, PTL DEF Spec

\* Every value has its kind, and a lease belongs to a job that runs.
THEOREM TypeCorrect == Spec => []TypeOK
<1>1. IInv => TypeOK
  BY DEF IInv
<1> QED
  BY <1>1, Invariance, PTL

\* The rows and the files of restored_media agree, however many restores and
\* backups are started on top of each other, cancelled, failed or killed: but
\* for the exceptions that RestoreCoordinator makes itself, no row loses its
\* media and no file is left behind.
THEOREM MediaKept == Spec => []MediaMatchesRows
<1>1. IInv => MediaMatchesRows
  <2> SUFFICES ASSUME IInv PROVE MediaMatchesRows
    OBVIOUS
  <2>1. \A o \in Ops : Running = {} => pc[o] \notin {"extract", "import", "committed"}
    BY DEF Running, Ends
  <2> QED
    BY <2>1 DEF IInv, MediaInv, RowsHaveFiles, FilesHaveRows, MediaMatchesRows
<1> QED
  BY <1>1, Invariance, PTL

\* An operation is cancelled only if the user or the system asked for it, or
\* another was started while it ran: the flags, jobs and start ids that the
\* service keeps for one operation only hurt operations that overlap.
THEOREM CancelsAreMeant == Spec => []CancelledForAReason
<1>1. IInv => CancelledForAReason
  BY DEF IInv, ReasonInv, Excused, CancelledForAReason
<1> QED
  BY <1>1, Invariance, PTL
=============================================================================
