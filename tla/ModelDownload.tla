--------------------------- MODULE ModelDownload ---------------------------
(* ModelManager: how a Whisper model file gets into files/whisper_models.     *)
(* A download writes <model>.part, checks it, renames it to the model file    *)
(* and remembers in memory that the file was verified.  Nothing keeps two     *)
(* downloads apart: the Download button stays on the screen until the first   *)
(* block has arrived, so several downloaders share the .part file, the model  *)
(* file, the flag `cancelRequested` and the state the screen shows.           *)
(*                                                                            *)
(* A file is the sequence of its blocks.  Block k of the model has the value  *)
(* k; 0 is a block of something else, or a hole.  An open stream follows the  *)
(* file it was opened on through a rename and a delete (`where`).             *)
EXTENDS Naturals, Sequences, FiniteSets

CONSTANTS
    Models,         \* the catalogue
    Wanted,         \* the models the user downloads
    Downloaders,    \* download() and repair() calls that may run at once
    Size,           \* blocks of a model file
    MinValid,       \* minimumValidBytes
    NoFile,         \* the file is not there
    NoModel,        \* selectedModelId is blank
    Adopter,        \* adoptExistingModels(), run once at the start
    OldModel,       \* the model an older version left in files/models
    MaxFaults,      \* bound: network errors, foreign bodies, full disks, left
                    \* screens and process deaths, together
    MaxPresses      \* bound: presses of Cancel, Repair, Delete, Use model

ASSUME SizeAssumption == Size \in Nat /\ MinValid \in 1..Size
ASSUME BoundsAssumption == MaxFaults \in Nat /\ MaxPresses \in Nat
ASSUME NamesAssumption == NoFile \notin Seq(0..Size) /\ NoModel \notin Models
                           /\ OldModel \in Models /\ Wanted \subseteq Models
                           /\ Adopter \notin Downloaders

VARIABLES
    part, final,      \* the two files of each model
    trusted,          \* verifiedModels holds the model's SHA for this very file
    selected,         \* selectedModelId of the settings
    cancelRequested,  \* the manager's flag, one for all downloads
    screen,           \* downloadState: the model whose progress it shows, if any
    pc,               \* where each call is
    call,             \* its locals: the model it works on, the length of the
                      \* .part file when it looked (existing), whether the
                      \* server answered 206 (resumes), whether the stream
                      \* carries the model (body), the blocks in the file by
                      \* its own count (sent)
    where,            \* the file its stream writes now
    removing,         \* the model a delete() is about to remove
    contended,        \* ghost: models two writers worked on at once
    faults, presses

files == <<part, final, trusted>>
calls == <<pc, call, where>>
bounds == <<faults, presses>>
vars == <<files, selected, cancelRequested, screen, calls, removing,
          contended, bounds>>

Whole == [k \in 1..Size |-> k]
Contents == {NoFile} \union Seq(0..Size)
Writers == Downloaders \union {Adopter}
Length(file) == IF file = NoFile THEN 0 ELSE Len(file)

(* isInstalled() and isModelReady(): long enough, and verified.  A verdict    *)
(* that was computed from the file is not remembered here: the key of the     *)
(* cache (path, length, time) changes with the file, so asking again gives    *)
(* the same.  The verdict that download() stores unasked is `trusted`.        *)
Installed(m) == Length(final[m]) >= MinValid
Ready(m) == Installed(m) /\ (trusted[m] \/ final[m] = Whole)

Working(m) == {d \in Writers : pc[d] # "idle" /\ call[d].model = m}
AtStart == [d \in Writers |-> IF d = Adopter THEN "adopt" ELSE "idle"]
NoCall == [model |-> OldModel, existing |-> 0, resumes |-> FALSE,
           body |-> TRUE, sent |-> 0]
Locals == [model : Models, existing : Nat, resumes : BOOLEAN, body : BOOLEAN,
           sent : 0..Size]
Steps == {"idle", "adopt", "copy", "look", "measure", "connect", "drop", "open", "head", "read",
          "check", "install", "settle"}

Init ==
    /\ part = [m \in Models |-> NoFile]
    /\ final \in {f \in [Models -> {NoFile, Whole, <<0>>}] :
                    \A m \in Models : f[m] # IF m \in Wanted THEN Whole ELSE <<0>>}
    /\ trusted = [m \in Models |-> FALSE]
    /\ selected \in {NoModel} \union {m \in Models : final[m] = Whole}
    /\ cancelRequested = FALSE
    /\ screen = NoModel
    /\ pc = AtStart
    /\ call = [d \in Writers |-> NoCall]
    /\ where = [d \in Writers |-> "closed"]
    /\ removing = [m \in Models |-> FALSE]
    /\ contended = {}
    /\ faults = 0 /\ presses = 0

----------------------------------------------------------------------------
(* Files.  Deleting a path leaves the streams on it writing to nothing; a     *)
(* rename takes them along.                                                   *)
DeletePart(m) == [part EXCEPT ![m] = NoFile]
Unlinked(m, path) ==
    [d \in Writers |->
        IF call[d].model = m /\ where[d] = path THEN "nowhere" ELSE where[d]]
Renamed(m) ==
    [d \in Writers |->
        IF call[d].model # m THEN where[d]
        ELSE CASE where[d] = "final" -> "nowhere"
               [] where[d] = "part" -> "final"
               [] OTHER -> where[d]]
RemoveBoth(m) ==
    /\ part' = DeletePart(m)
    /\ final' = [final EXCEPT ![m] = NoFile]
    /\ trusted' = [trusted EXCEPT ![m] = FALSE]

(* One block through a stream: at the end of the file when it was opened to   *)
(* append, else at the stream's own place, with a hole before it if the file  *)
(* has been cut meanwhile.                                                    *)
Written(file, d) ==
    LET block == IF call[d].body THEN call[d].sent + 1 ELSE 0
    IN IF call[d].resumes THEN Append(file, block)
       ELSE [k \in 1..(IF Len(file) > call[d].sent THEN Len(file) ELSE call[d].sent + 1) |->
                IF k = call[d].sent + 1 THEN block
                ELSE IF k <= Len(file) THEN file[k] ELSE 0]

Show(m) == screen' = m
Goto(d, step) == pc' = [pc EXCEPT ![d] = step]
Leave(d) ==
    /\ Goto(d, "idle")
    /\ call' = [call EXCEPT ![d] = NoCall]
(* Locals that are not read again are forgotten.                              *)
Forget(d) ==
    /\ call' = [call EXCEPT ![d] = [NoCall EXCEPT !.model = call[d].model]]
    /\ UNCHANGED screen
Keep == UNCHANGED <<call, screen>>
Fail(d) == Leave(d) /\ Show(NoModel)
Fault == faults < MaxFaults /\ faults' = faults + 1
Rest == UNCHANGED <<cancelRequested, removing, contended, presses>>
Closed(d) == [where EXCEPT ![d] = "closed"]

----------------------------------------------------------------------------
(* download().                                                                *)
Begins(d, m) ==
    /\ pc[d] = "idle"
    /\ cancelRequested' = FALSE
    /\ call' = [call EXCEPT ![d].model = m]
    /\ contended' = IF Working(m) = {}
                    THEN contended ELSE contended \union {m}
    /\ UNCHANGED <<selected, screen, removing, faults>>

Download(d, m) ==
    /\ Begins(d, m)
    /\ Goto(d, "look")
    /\ UNCHANGED <<files, where, presses>>

(* repair(): both files go first, and whatever is installed is downloaded.    *)
Repair(d, m) ==
    /\ presses < MaxPresses /\ presses' = presses + 1
    /\ Begins(d, m)
    /\ Goto(d, "measure")
    /\ RemoveBoth(m)
    /\ where' = [e \in Writers |->
                    IF call[e].model = m /\ where[e] # "closed" THEN "nowhere"
                    ELSE where[e]]

(* mutant: what is installed is taken away whether it is ready or not.        *)
LooksForTooLittle(d) ==
    LET m == call[d].model IN
    /\ pc[d] = "look"
    /\ Goto(d, "measure")
    /\ final' = [final EXCEPT ![m] = NoFile]
    /\ trusted' = [trusted EXCEPT ![m] = FALSE]
    /\ where' = Unlinked(m, "final")
    /\ UNCHANGED part /\ Keep
    /\ Rest /\ UNCHANGED <<selected, faults>>

LookAtInstalled(d) ==
    LET m == call[d].model IN
    /\ pc[d] = "look"
    /\ IF Ready(m)
       THEN /\ Leave(d) /\ Show(NoModel)
            /\ UNCHANGED <<files, where>>
       ELSE /\ Goto(d, "measure")
            /\ IF Installed(m)
               THEN /\ final' = [final EXCEPT ![m] = NoFile]
                    /\ trusted' = [trusted EXCEPT ![m] = FALSE]
                    /\ where' = Unlinked(m, "final")
               ELSE UNCHANGED <<final, trusted, where>>
            /\ UNCHANGED part /\ Keep
    /\ Rest /\ UNCHANGED <<selected, faults>>

Measure(d) ==
    /\ pc[d] = "measure"
    /\ \/ /\ Goto(d, "connect")
          /\ call' = [call EXCEPT ![d].existing = Length(part[call[d].model])]
          /\ UNCHANGED <<screen, faults>>
       \/ Fault /\ Fail(d)
    /\ Rest /\ UNCHANGED <<files, selected, where>>

(* The server.  A range that starts at the end of the file is refused (416);  *)
(* one inside it may be honoured (206) or not (200, from the start).          *)
Answers(d) ==
    IF call[d].existing = 0 THEN {"200"}
    ELSE IF call[d].existing < Size THEN {"200", "206"} ELSE {"416"}

ResumesAnyway(d, answer) ==      \* mutant: appends to what a range was asked for
    call[d].existing > 0

CanResume(d, answer) == answer = "206"

Connect(d) ==
    /\ pc[d] = "connect"
    /\ \/ "416" \in Answers(d) /\ Fail(d) /\ UNCHANGED faults
       \/ \E answer \in Answers(d) \ {"416"}, ours \in BOOLEAN :
            /\ IF ours THEN UNCHANGED faults ELSE Fault
            /\ call' = [call EXCEPT
                    ![d].existing = 0,
                    ![d].resumes = CanResume(d, answer), ![d].body = ours,
                    ![d].sent = IF answer = "206" THEN call[d].existing ELSE 0]
            /\ Goto(d, IF CanResume(d, answer) THEN "open" ELSE "drop")
            /\ UNCHANGED screen
       \/ Fault /\ Fail(d)
    /\ Rest /\ UNCHANGED <<files, selected, where>>

DropPart(d) ==
    /\ pc[d] = "drop"
    /\ part' = DeletePart(call[d].model)
    /\ where' = Unlinked(call[d].model, "part")
    /\ Goto(d, "open")
    /\ Rest /\ Keep /\ UNCHANGED <<final, trusted, selected, faults>>

Opened(d) ==
    LET file == part[call[d].model] IN
    IF call[d].resumes /\ file # NoFile THEN file ELSE <<>>

Open(d) ==
    /\ pc[d] = "open"
    /\ part' = [part EXCEPT ![call[d].model] = Opened(d)]
    /\ where' = [where EXCEPT ![d] = "part"]
    /\ Goto(d, "head")
    /\ Rest /\ Keep /\ UNCHANGED <<final, trusted, selected, faults>>

(* The head of the copy loop: the only place where a cancel is seen.          *)
LoopHead(d) ==
    /\ pc[d] = "head"
    /\ IF cancelRequested
       THEN Leave(d) /\ Show(NoModel) /\ where' = Closed(d)
       ELSE Goto(d, "read") /\ UNCHANGED where /\ Keep
    /\ Rest /\ UNCHANGED <<files, selected, faults>>

ReadBlock(d) ==
    LET m == call[d].model IN
    /\ pc[d] = "read" /\ call[d].sent < Size
    /\ part' = IF where[d] = "part"
               THEN [part EXCEPT ![m] = Written(part[m], d)] ELSE part
    /\ final' = IF where[d] = "final"
                THEN [final EXCEPT ![m] = Written(final[m], d)] ELSE final
    /\ trusted' = [trusted EXCEPT ![m] = @ /\ where[d] # "final"]
    /\ call' = [call EXCEPT ![d].sent = @ + 1]
    /\ Show(m)
    /\ Goto(d, "head")
    /\ Rest /\ UNCHANGED <<selected, where, faults>>

ReadEnds(d) ==
    /\ pc[d] = "read"
    /\ where' = Closed(d)
    /\ \/ call[d].sent = Size /\ Goto(d, "check") /\ Forget(d) /\ UNCHANGED faults
       \/ Fault /\ Fail(d)
    /\ Rest /\ UNCHANGED <<files, selected>>

(* Length and SHA-256 of the .part file, whoever wrote it.                    *)
LongEnough(file) == Length(file) >= MinValid      \* mutant: no SHA-256

Matches(file) == file = Whole

CheckPart(d) ==
    LET m == call[d].model IN
    /\ pc[d] = "check"
    /\ IF Matches(part[m])
       THEN Goto(d, "install") /\ Keep /\ UNCHANGED <<part, where>>
       ELSE part' = DeletePart(m) /\ where' = Unlinked(m, "part") /\ Fail(d)
    /\ Rest /\ UNCHANGED <<final, trusted, selected, faults>>

(* The model file goes, the .part file takes its name.                        *)
Install(d) ==
    LET m == call[d].model IN
    /\ pc[d] = "install"
    /\ final' = [final EXCEPT ![m] = part[m]]
    /\ trusted' = [trusted EXCEPT ![m] = FALSE]
    /\ part' = DeletePart(m)
    /\ where' = Renamed(m)
    /\ IF part[m] = NoFile THEN Fail(d) ELSE Goto(d, "settle") /\ Keep
    /\ Rest /\ UNCHANGED <<selected, faults>>

(* isInstalled() and the verdict, which is stored without looking again.  The *)
(* screen may have been left: the read of the settings then throws.           *)
Settle(d) ==
    LET m == call[d].model IN
    /\ pc[d] = "settle"
    /\ IF Installed(m)
       THEN /\ trusted' = [trusted EXCEPT ![m] = TRUE]
            /\ UNCHANGED <<final, where>>
            /\ \/ /\ selected' = IF selected = NoModel THEN m ELSE selected
                  /\ Leave(d) /\ Show(NoModel)
                  /\ UNCHANGED faults
               \/ Fault /\ Fail(d) /\ UNCHANGED selected
       ELSE /\ final' = [final EXCEPT ![m] = NoFile]
            /\ where' = Unlinked(m, "final")
            /\ Fail(d)
            /\ UNCHANGED <<trusted, selected, faults>>
    /\ Rest /\ UNCHANGED part

----------------------------------------------------------------------------
(* The rest of the screen, and the start of the application.                  *)
Press == presses < MaxPresses /\ presses' = presses + 1

(* Cancel is on the screen while a download shows progress.                   *)
CancelDownload ==
    /\ Press
    /\ screen # NoModel
    /\ cancelRequested' = TRUE
    /\ UNCHANGED <<files, selected, screen, calls, removing,
                   contended, faults>>

Select(m) ==
    /\ Press
    /\ Ready(m) /\ selected' = m
    /\ UNCHANGED <<files, cancelRequested, screen, calls, removing,
                   contended, faults>>

(* selectedOrBestInstalled(), as every job, import and start asks it.         *)
SelectBest ==
    /\ ~ (selected \in Models /\ Ready(selected))
    /\ \E m \in Models : Ready(m) /\ selected' = m
    /\ UNCHANGED <<files, cancelRequested, screen, calls, removing,
                   contended, bounds>>

(* delete(): the active model gives way to another ready one first.           *)
DeleteModel(m) ==
    /\ Press
    /\ ~ removing[m] /\ removing' = [removing EXCEPT ![m] = TRUE]
    /\ IF selected = m
       THEN \E other \in Models \ {m} : Ready(other) /\ selected' = other
       ELSE UNCHANGED selected
    /\ UNCHANGED <<files, cancelRequested, screen, calls,
                   contended, faults>>

DeleteFiles(m) ==
    /\ removing[m] /\ removing' = [removing EXCEPT ![m] = FALSE]
    /\ RemoveBoth(m)
    /\ where' = [d \in Writers |->
                    IF call[d].model = m /\ where[d] # "closed" THEN "nowhere"
                    ELSE where[d]]
    /\ contended' = IF Working(m) = {} THEN contended
                    ELSE contended \union {m}
    /\ UNCHANGED <<selected, cancelRequested, screen, pc, call, bounds>>

(* adoptExistingModels(), at the start of the process: a file an older        *)
(* version left is copied over a missing model file, under the model's own    *)
(* name, and verified afterwards.                                             *)
AdoptLooks ==
    LET m == call[Adopter].model IN
    /\ pc[Adopter] = "adopt"
    /\ IF Installed(m)
       THEN Goto(Adopter, "idle") /\ UNCHANGED <<final, trusted, where, call, faults>>
       ELSE /\ Goto(Adopter, "copy")
            /\ final' = [final EXCEPT ![m] = <<>>]
            /\ trusted' = [trusted EXCEPT ![m] = FALSE]
            /\ where' = [Unlinked(m, "final") EXCEPT ![Adopter] = "final"]
            /\ \E ours \in BOOLEAN :
                 /\ IF ours THEN UNCHANGED faults ELSE Fault
                 /\ call' = [call EXCEPT ![Adopter].body = ours]
    /\ UNCHANGED <<part, selected, cancelRequested, screen, removing,
                   contended, presses>>

AdoptCopies ==
    LET m == call[Adopter].model IN
    /\ pc[Adopter] = "copy" /\ call[Adopter].sent < Size
    /\ final' = IF where[Adopter] = "final"
                THEN [final EXCEPT ![m] = Written(final[m], Adopter)] ELSE final
    /\ trusted' = [trusted EXCEPT ![m] = @ /\ where[Adopter] # "final"]
    /\ call' = [call EXCEPT ![Adopter].sent = @ + 1]
    /\ UNCHANGED <<part, selected, cancelRequested, screen, pc, where,
                   removing, contended, bounds>>

AdoptVerifies ==
    LET m == call[Adopter].model IN
    /\ pc[Adopter] = "copy" /\ call[Adopter].sent = Size
    /\ Goto(Adopter, "idle") /\ call' = [call EXCEPT ![Adopter] = NoCall]
    /\ IF Ready(m) THEN UNCHANGED <<final, trusted>> /\ where' = Closed(Adopter)
       ELSE /\ final' = [final EXCEPT ![m] = NoFile]
            /\ trusted' = [trusted EXCEPT ![m] = FALSE]
            /\ where' = [Unlinked(m, "final") EXCEPT ![Adopter] = "closed"]
    /\ UNCHANGED <<part, selected, cancelRequested, screen, removing,
                   contended, bounds>>

(* The process dies: the files and the settings stay, the rest is gone.       *)
Crash ==
    /\ Fault
    /\ trusted' = [m \in Models |-> FALSE]
    /\ cancelRequested' = FALSE
    /\ screen' = NoModel
    /\ pc' = AtStart
    /\ call' = [d \in Writers |-> NoCall]
    /\ where' = [d \in Writers |-> "closed"]
    /\ removing' = [m \in Models |-> FALSE]
    /\ UNCHANGED <<part, final, selected, contended, presses>>

----------------------------------------------------------------------------
Proceed(d) ==
    \/ LookAtInstalled(d) \/ Measure(d) \/ Connect(d) \/ DropPart(d) \/ Open(d)
    \/ LoopHead(d) \/ ReadBlock(d) \/ ReadEnds(d) \/ CheckPart(d)
    \/ Install(d) \/ Settle(d)
Adopt == AdoptLooks \/ AdoptCopies \/ AdoptVerifies

Next ==
    \/ \E d \in Downloaders, m \in Wanted : Download(d, m) \/ Repair(d, m)
    \/ \E d \in Downloaders : Proceed(d)
    \/ \E m \in Models : Select(m) \/ DeleteModel(m) \/ DeleteFiles(m)
    \/ CancelDownload \/ SelectBest \/ Adopt \/ Crash

Spec == Init /\ [][Next]_vars

(* Calls run on, and the user presses Download again while a model is missing *)
(* and no call works on it.                                                   *)
TryAgain(m) ==
    Working(m) = {} /\ ~ Ready(m) /\ \E d \in Downloaders : Download(d, m)
FairSpec ==
    /\ Spec
    /\ \A d \in Downloaders : WF_vars(Proceed(d))
    /\ WF_vars(Adopt)
    /\ \A m \in Wanted : SF_vars(TryAgain(m))

----------------------------------------------------------------------------
(* Every variable has its type.                                               *)
TypeOK ==
    /\ part \in [Models -> Contents] /\ final \in [Models -> Contents]
    /\ trusted \in [Models -> BOOLEAN]
    /\ selected \in Models \union {NoModel}
    /\ cancelRequested \in BOOLEAN
    /\ screen \in Models \union {NoModel}
    /\ pc \in [Writers -> Steps]
    /\ call \in [Writers -> Locals]
    /\ where \in [Writers -> {"closed", "part", "final", "nowhere"}]
    /\ \A w \in Writers : where[w] # "closed" => pc[w] \in {"head", "read", "copy"}
    /\ removing \in [Models -> BOOLEAN]
    /\ contended \subseteq Models
    /\ faults \in 0..MaxFaults /\ presses \in 0..MaxPresses

(* A model file that isModelReady() accepts is the model, block for block:    *)
(* the verdict download() stores after the rename (without reading the file   *)
(* again) is true, whatever was resumed, deleted, repaired, adopted or        *)
(* interrupted.  Only two writers of the same model at once may break it.     *)
TrustedModelIsWhole ==
    \A m \in Models \ contended : Ready(m) => final[m] = Whole

(* A .part file holds every block at its place, so that it can be resumed: a  *)
(* resumed stream goes on where the file ended, a stream from the start       *)
(* leaves nothing of an earlier attempt.  Again two writers may break it.     *)
PartIsInPlace ==
    \A m \in Models \ contended : part[m] # NoFile =>
        Len(part[m]) <= Size /\ \A k \in DOMAIN part[m] : part[m][k] \in {0, k}

(* A model that may be used stays so until the user deletes or repairs it: no *)
(* download or adoption that has looked at the file takes it away steps later,*)
(* and a verdict that dies with the process is found again from the file.     *)
(* Again two writers may break it.                                            *)
UserRemoves(m) == DeleteFiles(m) \/ \E d \in Downloaders : Repair(d, m)

ReadyModelStays ==
    [][\A m \in Models \ contended' :
          Ready(m) /\ ~ Ready(m)' => UserRemoves(m)]_vars

(* "Model download killed/restarted: .part resume and SHA validation": a      *)
(* model the user keeps asking for arrives after a kill.                      *)
KilledDownloadResumes ==
    \A m \in Wanted : []<>(Ready(m) \/ m \in contended)
============================================================================
