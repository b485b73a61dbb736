------------------------- MODULE ModelDownloadProofs -------------------------
(***************************************************************************)
(* Proofs about ModelDownload, for any catalogue, any number of downloads, *)
(* any size of the model and any bounds.                                   *)
(*                                                                         *)
(* The verdict that download() stores after the rename is about a file it  *)
(* read before the rename.  TrustedModelIsWhole is therefore inductive     *)
(* only together with what the call has established at each of its steps   *)
(* (Sound), and that only for a model no other call has worked on          *)
(* meanwhile (Alone): the two writers of a contended model are the reason  *)
(* for the exception in both properties.                                   *)
(***************************************************************************)
EXTENDS ModelDownload, TLAPS, SequenceTheorems

\* The places of the calls, and the manager's fields.
Control ==
    /\ pc \in [Writers -> Steps]
    /\ where \in [Writers -> {"closed", "part", "final", "nowhere"}]
    /\ selected \in Models \union {NoModel} /\ screen \in Models \union {NoModel}
    /\ cancelRequested \in BOOLEAN /\ removing \in [Models -> BOOLEAN]
    /\ contended \subseteq Models

\* A stream is open while its loop runs, on a file that is there.
Streams ==
    \A w \in Writers :
        /\ where[w] # "closed" => pc[w] \in {"head", "read", "copy"}
        /\ where[w] = "part" => part[call[w].model] # NoFile
        /\ where[w] = "final" => final[call[w].model] # NoFile

\* Every block is at its place, or is not one of the model.
InPlace(file) ==
    file # NoFile => Len(file) <= Size /\ \A k \in 1..Len(file) : file[k] \in {0, k}

\* At most one call works on the model.
Alone(m) == \A d, e \in Working(m) : d = e

\* What a call that works alone knows of the files at each of its steps: the .part
\* file is as long as it measured, and as long as it counts while it appends; what
\* it has checked it renames, and what it has renamed it trusts.
Sound(d) ==
    LET m == call[d].model IN
    /\ pc[d] = "connect" => call[d].existing = Length(part[m])
    /\ pc[d] = "drop" => ~call[d].resumes
    /\ pc[d] = "open" /\ call[d].resumes => call[d].sent = Length(part[m]) /\ call[d].sent > 0
    /\ pc[d] \in {"head", "read"} =>
          where[d] = "part" /\ (call[d].resumes => call[d].sent = Length(part[m]))
    /\ pc[d] = "install" => part[m] = Whole
    /\ pc[d] = "settle" => final[m] = Whole
    /\ pc[d] \in {"adopt", "copy"} => ~call[d].resumes
    /\ pc[d] = "adopt" => call[d].sent = 0
    /\ pc[d] = "copy" /\ where[d] = "final" => Length(final[m]) = call[d].sent

FilesAt(m) ==
    /\ Alone(m)
    /\ InPlace(part[m])
    /\ trusted[m] => final[m] = Whole
    /\ \A d \in Working(m) : Sound(d)

\* Of the models that nobody contends for, everything holds.
FileInv == \A m \in Models \ contended : FilesAt(m)

IInv == TypeOK /\ Streams /\ FileInv

-----------------------------------------------------------------------------
(* Lemmas about files and locals, then one lemma for each part of the      *)
(* invariant.                                                              *)

\* What the proofs need of the assumptions.
LEMMA Constants ==
    /\ Size \in Nat /\ MinValid \in 1..Size /\ MaxFaults \in Nat /\ MaxPresses \in Nat
    /\ NoFile \notin Seq(0..Size) /\ NoModel \notin Models /\ OldModel \in Models
    /\ Wanted \subseteq Models /\ Adopter \notin Downloaders
    /\ Downloaders \subseteq Writers /\ Adopter \in Writers
BY SizeAssumption, BoundsAssumption, NamesAssumption DEF Writers

\* A file has a length, and one that has blocks is there.
LEMMA LengthType ==
    ASSUME NEW file \in Contents
    PROVE  Length(file) \in Nat /\ (Length(file) > 0 => file # NoFile)
BY DEF Length, Contents

\* The model is a file of Size blocks.
LEMMA WholeIsFile ==
    /\ Whole \in Seq(0..Size) /\ Whole # NoFile /\ Len(Whole) = Size
    /\ Length(Whole) = Size /\ Whole \in Contents
<1>1. Whole \in [1..Size -> 0..Size]
  BY Constants DEF Whole
<1>2. Whole \in Seq(0..Size)
  BY <1>1, SeqDef, Constants
<1>3. DOMAIN Whole = 1..Size /\ DOMAIN Whole = 1..Len(Whole) /\ Len(Whole) \in Nat
  BY <1>1, <1>2, LenProperties
<1>4. Len(Whole) = Size
  BY <1>3, Constants
<1> QED
  BY <1>2, <1>4, Constants DEF Length, Contents

\* Writing a block makes a file that is in place where the file was.
LEMMA WrittenIsFile ==
    ASSUME NEW file \in Seq(0..Size), NEW d \in Writers, call[d] \in Locals,
           call[d].sent < Size
    PROVE  /\ Written(file, d) \in Seq(0..Size) /\ Written(file, d) # NoFile
           /\ Written(file, d) \in Contents
           /\ call[d].resumes \/ Len(file) = call[d].sent =>
                 Len(Written(file, d)) = Len(file) + 1
           /\ InPlace(file) /\ (call[d].resumes => call[d].sent = Len(file))
                 => InPlace(Written(file, d))
<1> DEFINE sent == call[d].sent
           block == IF call[d].body THEN sent + 1 ELSE 0
           n == IF Len(file) > sent THEN Len(file) ELSE sent + 1
<1>1. /\ sent \in 0..Size /\ sent < Size /\ block \in 0..Size /\ block \in {0, sent + 1}
      /\ Len(file) \in Nat /\ n \in Nat /\ n >= sent + 1 /\ n >= Len(file)
      /\ n \in {Len(file), sent + 1} /\ Size \in Nat
  BY Constants DEF Locals
<1>2. CASE call[d].resumes
  <2>1. Written(file, d) = Append(file, block)
    BY <1>2 DEF Written
  <2>2. /\ Append(file, block) \in Seq(0..Size) /\ Len(Append(file, block)) = Len(file) + 1
        /\ \A k \in 1..Len(file) : Append(file, block)[k] = file[k]
        /\ Append(file, block)[Len(file) + 1] = block
    BY <1>1, AppendProperties
  <2> HIDE DEF block, sent
  <2>3. ASSUME InPlace(file), sent = Len(file) PROVE InPlace(Append(file, block))
    <3>1. \A k \in 1..(Len(file) + 1) : k = Len(file) + 1 \/ k \in 1..Len(file)
      BY <1>1
    <3>2. file # NoFile
      BY Constants
    <3> QED
      BY <1>1, <2>2, <2>3, <3>1, <3>2 DEF InPlace
  <2> QED
    BY <1>2, <2>1, <2>2, <2>3, Constants DEF sent, Contents
<1>3. CASE ~call[d].resumes
  <2> DEFINE w == [k \in 1..n |-> IF k = sent + 1 THEN block
                                 ELSE IF k <= Len(file) THEN file[k] ELSE 0]
  <2>1. Written(file, d) = w
    BY <1>3 DEF Written
  <2>2. \A k \in 1..n : k <= Len(file) => k \in 1..Len(file) /\ file[k] \in 0..Size
    BY <1>1
  <2> HIDE DEF n, block, sent
  <2>3. w \in [1..n -> 0..Size]
    BY <1>1, <2>2
  <2>4. w \in Seq(0..Size)
    BY <1>1, <2>3, SeqDef
  <2>5. DOMAIN w = 1..n /\ DOMAIN w = 1..Len(w) /\ Len(w) \in Nat
    BY <2>3, <2>4, LenProperties
  <2> HIDE DEF w
  <2>6. Len(w) = n
    BY <1>1, <2>5
  <2>8. Len(file) = sent => Len(w) = Len(file) + 1
    BY <1>1, <2>6 DEF n
  <2>7. ASSUME InPlace(file) PROVE InPlace(w)
    <3>1. Len(file) <= Size /\ \A k \in 1..Len(file) : file[k] \in {0, k}
      BY <2>7, Constants DEF InPlace
    <3>2. n <= Size
      BY <1>1, <3>1
    <3>3. \A k \in 1..n : w[k] \in {0, k}
      BY <1>1, <2>2, <3>1 DEF w
    <3> QED
      BY <2>6, <3>2, <3>3 DEF InPlace
  <2> QED
    BY <1>3, <2>1, <2>4, <2>7, <2>8, Constants DEF Contents, sent
<1> QED
  BY <1>2, <1>3

\* What the locals of a call are.
LEMMA LocalsTypes ==
    /\ NoCall \in Locals
    /\ \A c \in Locals : c.model \in Models /\ c.existing \in Nat /\ c.sent \in 0..Size
<1>1. NoCall \in Locals
  BY Constants DEF Locals, NoCall
<1> QED
  BY <1>1 DEF Locals

\* A call that assigns one of its locals.
LEMMA LocalsSet ==
    /\ \A c \in Locals, m \in Models : [c EXCEPT !.model = m] \in Locals
    /\ \A c \in Locals, n \in Nat : [c EXCEPT !.existing = n] \in Locals
    /\ \A c \in Locals, b \in BOOLEAN : [c EXCEPT !.body = b] \in Locals
    /\ \A c \in Locals, s \in 0..Size : [c EXCEPT !.sent = s] \in Locals
<1>1. ASSUME NEW c \in Locals, NEW m \in Models
      PROVE  [c EXCEPT !.model = m] \in Locals
  BY DEF Locals
<1>2. ASSUME NEW c \in Locals, NEW n \in Nat
      PROVE  [c EXCEPT !.existing = n] \in Locals
  BY DEF Locals
<1>3. ASSUME NEW c \in Locals, NEW b \in BOOLEAN
      PROVE  [c EXCEPT !.body = b] \in Locals
  BY DEF Locals
<1>4. ASSUME NEW c \in Locals, NEW s \in 0..Size
      PROVE  [c EXCEPT !.sent = s] \in Locals
  BY DEF Locals
<1> QED
  BY <1>1, <1>2, <1>3, <1>4

\* A call that has read the server's answer.
LEMMA LocalsOfAnswer ==
    ASSUME NEW c \in Locals, NEW b \in BOOLEAN, NEW e \in BOOLEAN, NEW s \in 0..Size
    PROVE  [c EXCEPT !.existing = 0, !.resumes = b, !.body = e, !.sent = s] \in Locals
BY DEF Locals

\* Every step keeps the locals of the calls well typed.
LEMMA CallsStep ==
    ASSUME TypeOK, [Next]_vars
    PROVE  call' \in [Writers -> Locals]
<1>t. call \in [Writers -> Locals] /\ part \in [Models -> Contents]
  BY DEF TypeOK
<1> USE DEF files, calls, bounds
<1>1. ASSUME NEW d \in Downloaders, NEW m \in Wanted, Download(d, m)
      PROVE  call' \in [Writers -> Locals]
  <2>1. call' = [call EXCEPT ![d] = [call[d] EXCEPT !.model = m]]
    BY <1>1 DEF Download, Begins
  <2>2. [call[d] EXCEPT !.model = m] \in Locals
    BY <1>t, Constants, LocalsSet
  <2> QED
    BY <1>t, <2>1, <2>2
<1>2. ASSUME NEW d \in Downloaders, NEW m \in Wanted, Repair(d, m)
      PROVE  call' \in [Writers -> Locals]
  <2>1. call' = [call EXCEPT ![d] = [call[d] EXCEPT !.model = m]]
    BY <1>2 DEF Repair, Begins
  <2>2. [call[d] EXCEPT !.model = m] \in Locals
    BY <1>t, Constants, LocalsSet
  <2> QED
    BY <1>t, <2>1, <2>2
<1>3. ASSUME NEW d \in Downloaders, LookAtInstalled(d)
      PROVE  call' \in [Writers -> Locals]
  BY <1>3, Constants, LocalsTypes, <1>t
  DEF LookAtInstalled, Leave, Show, Goto, Keep, Rest, Unlinked
<1>4. ASSUME NEW d \in Downloaders, Measure(d) PROVE call' \in [Writers -> Locals]
  <2> DEFINE n == Length(part[call[d].model])
  <2>1. \/ call' = [call EXCEPT ![d] = [call[d] EXCEPT !.existing = n]]
        \/ call' = [call EXCEPT ![d] = NoCall]
    BY <1>4 DEF Measure, Fail, Leave
  <2>2. n \in Nat
    BY <1>t, Constants, LocalsTypes, LengthType
  <2> HIDE DEF n
  <2>3. [call[d] EXCEPT !.existing = n] \in Locals
    BY <1>t, <2>2, Constants, LocalsSet
  <2> QED
    BY <1>t, <2>1, <2>3, LocalsTypes
<1>5. ASSUME NEW d \in Downloaders, Connect(d) PROVE call' \in [Writers -> Locals]
  <2>1. CASE call' = [call EXCEPT ![d] = NoCall]
    BY <1>t, <2>1, LocalsTypes
  <2>2. ASSUME NEW answer \in Answers(d), NEW ours \in BOOLEAN,
               call' = [call EXCEPT
                    ![d].existing = 0,
                    ![d].resumes = CanResume(d, answer), ![d].body = ours,
                    ![d].sent = IF answer = "206" THEN call[d].existing ELSE 0]
        PROVE  call' \in [Writers -> Locals]
    <3> DEFINE s == IF answer = "206" THEN call[d].existing ELSE 0
    <3>1. s \in 0..Size
      BY <1>t, <2>2, Constants, LocalsTypes DEF Answers
    <3>2. CanResume(d, answer) \in BOOLEAN
      BY DEF CanResume
    <3>3. call' = [call EXCEPT ![d].existing = 0, ![d].resumes = CanResume(d, answer),
                               ![d].body = ours, ![d].sent = s]
      BY <2>2
    <3> HIDE DEF s
    <3> DEFINE r == CanResume(d, answer)
    <3> HIDE DEF r
    <3>4. call' = [call EXCEPT ![d].existing = 0, ![d].resumes = r,
                               ![d].body = ours, ![d].sent = s]
      BY <3>3 DEF r
    <3>5. DOMAIN call' = Writers /\ \A w \in Writers \ {d} : call'[w] = call[w]
      BY <1>t, <3>4
    <3>6. call'[d] = [call[d] EXCEPT !.existing = 0, !.resumes = r, !.body = ours, !.sent = s]
      BY <1>t, <3>4, Constants DEF Locals
    <3>7. call'[d] \in Locals
      <4>1. call[d] \in Locals /\ s \in 0..Size /\ r \in BOOLEAN /\ ours \in BOOLEAN
        BY <1>t, <3>1, <3>2, Constants DEF r
      <4>2. PICK c \in Locals, u \in BOOLEAN, v \in BOOLEAN, n \in 0..Size :
               call'[d] = [c EXCEPT !.existing = 0, !.resumes = u, !.body = v, !.sent = n]
        BY <3>6, <4>1, Zenon
      <4>3. [c EXCEPT !.existing = 0, !.resumes = u, !.body = v, !.sent = n] \in Locals
        BY LocalsOfAnswer
      <4> QED
        BY <4>2, <4>3, Zenon
    <3>8. call' = [w \in Writers |-> call'[w]]
      BY <1>t, <3>4
    <3> QED
      BY <1>t, <3>5, <3>7, <3>8
  <2> QED
    BY <1>5, <2>1, <2>2 DEF Connect, Fail, Leave
<1>6. ASSUME NEW d \in Downloaders, DropPart(d) PROVE call' \in [Writers -> Locals]
  BY <1>6, Constants, LocalsTypes, <1>t
  DEF DropPart, InPlace, DeletePart, Unlinked, Goto, Rest, Keep
<1>7. ASSUME NEW d \in Downloaders, Open(d) PROVE call' \in [Writers -> Locals]
  BY <1>7, Constants, LocalsTypes, <1>t DEF Open, Opened, Goto, Rest, Keep
<1>8. ASSUME NEW d \in Downloaders, LoopHead(d) PROVE call' \in [Writers -> Locals]
  BY <1>8, Constants, LocalsTypes, <1>t
  DEF LoopHead, Leave, Show, Closed, Goto, Rest, Keep
<1>9. ASSUME NEW d \in Downloaders, ReadBlock(d) PROVE call' \in [Writers -> Locals]
  <2>1. /\ call' = [call EXCEPT ![d] = [call[d] EXCEPT !.sent = call[d].sent + 1]]
        /\ call[d].sent < Size
    BY <1>9 DEF ReadBlock
  <2>2. call[d].sent + 1 \in 0..Size
    BY <1>t, <2>1, Constants, LocalsTypes
  <2>3. [call[d] EXCEPT !.sent = call[d].sent + 1] \in Locals
    BY <1>t, <2>2, Constants, LocalsSet
  <2> QED
    BY <1>t, <2>1, <2>3
<1>10. ASSUME NEW d \in Downloaders, ReadEnds(d) PROVE call' \in [Writers -> Locals]
  <2>1. \/ call' = [call EXCEPT ![d] = NoCall]
        \/ call' = [call EXCEPT ![d] = [NoCall EXCEPT !.model = call[d].model]]
    BY <1>10 DEF ReadEnds, Forget, Fail, Leave
  <2>2. [NoCall EXCEPT !.model = call[d].model] \in Locals
    BY <1>t, Constants, LocalsTypes, LocalsSet
  <2> QED
    BY <1>t, <2>1, <2>2, LocalsTypes
<1>11. ASSUME NEW d \in Downloaders, CheckPart(d)
       PROVE  call' \in [Writers -> Locals]
  BY <1>11, Constants, LocalsTypes, <1>t
  DEF CheckPart, InPlace, Matches, Goto, Keep, DeletePart, Unlinked, Fail, Leave,
      Show, Rest
<1>12. ASSUME NEW d \in Downloaders, Install(d) PROVE call' \in [Writers -> Locals]
  BY <1>12, Constants, LocalsTypes, <1>t
  DEF Install, InPlace, DeletePart, Renamed, Fail, Leave, Show, Goto, Keep, Rest
<1>13. ASSUME NEW d \in Downloaders, Settle(d) PROVE call' \in [Writers -> Locals]
  BY <1>13, Constants, LocalsTypes, <1>t
  DEF Settle, Goto, Unlinked, Fail, Leave, Show, Fault, Rest
<1>14. ASSUME NEW m \in Models, Select(m) PROVE call' \in [Writers -> Locals]
  BY <1>14, Constants, LocalsTypes, <1>t DEF Select, Press
<1>15. ASSUME NEW m \in Models, DeleteModel(m) PROVE call' \in [Writers -> Locals]
  BY <1>15, Constants, LocalsTypes, <1>t DEF DeleteModel, Press
<1>16. ASSUME NEW m \in Models, DeleteFiles(m) PROVE call' \in [Writers -> Locals]
  BY <1>16, Constants, LocalsTypes, <1>t DEF DeleteFiles, RemoveBoth, DeletePart
<1>17. CASE CancelDownload
  BY <1>17, Constants, LocalsTypes, <1>t DEF CancelDownload, Press
<1>18. CASE SelectBest
  BY <1>18, Constants, LocalsTypes, <1>t DEF SelectBest
<1>19. CASE AdoptLooks
  <2>1. \/ call' = call
        \/ \E ours \in BOOLEAN :
              call' = [call EXCEPT ![Adopter] = [call[Adopter] EXCEPT !.body = ours]]
    BY <1>19 DEF AdoptLooks
  <2>2. \A ours \in BOOLEAN : [call[Adopter] EXCEPT !.body = ours] \in Locals
    BY <1>t, Constants, LocalsSet
  <2> QED
    BY <1>t, <2>1, <2>2
<1>20. CASE AdoptCopies
  <2>1. /\ call' = [call EXCEPT ![Adopter] = [call[Adopter] EXCEPT !.sent = call[Adopter].sent + 1]]
        /\ call[Adopter].sent < Size
    BY <1>20 DEF AdoptCopies
  <2>2. call[Adopter].sent + 1 \in 0..Size
    BY <1>t, <2>1, Constants, LocalsTypes
  <2>3. [call[Adopter] EXCEPT !.sent = call[Adopter].sent + 1] \in Locals
    BY <1>t, <2>2, Constants, LocalsSet
  <2> QED
    BY <1>t, <2>1, <2>3
<1>21. CASE AdoptVerifies
  BY <1>21, Constants, LocalsTypes, <1>t DEF AdoptVerifies, Goto, Closed, Unlinked
<1>22. CASE Crash
  BY <1>22, Constants, LocalsTypes, <1>t DEF Crash, Fault, AtStart
<1>23. CASE UNCHANGED vars
  BY <1>23, Constants, LocalsTypes, <1>t DEF vars
<1> QED
  BY <1>1, <1>2, <1>3, <1>4, <1>5, <1>6, <1>7, <1>8, <1>9, <1>10, <1>11, <1>12,
      <1>13, <1>14, <1>15, <1>16, <1>17, <1>18, <1>19, <1>20, <1>21, <1>22, <1>23
  DEF Next, Proceed, Adopt

\* Every step leaves files, and nothing stored of them but verdicts.
LEMMA FilesTypes ==
    ASSUME TypeOK, Streams, [Next]_vars
    PROVE  /\ part' \in [Models -> Contents]
           /\ final' \in [Models -> Contents]
           /\ trusted' \in [Models -> BOOLEAN]
<1>t. /\ call \in [Writers -> Locals] /\ part \in [Models -> Contents]
      /\ final \in [Models -> Contents] /\ trusted \in [Models -> BOOLEAN]
  BY DEF TypeOK
<1> USE DEF files, calls, bounds
<1>1. ASSUME NEW d \in Downloaders, NEW m \in Wanted, Download(d, m)
      PROVE  /\ part' \in [Models -> Contents]
             /\ final' \in [Models -> Contents]
             /\ trusted' \in [Models -> BOOLEAN]
  BY <1>1, Constants, LocalsTypes, <1>t DEF Download, Begins, Goto, Contents
<1>2. ASSUME NEW d \in Downloaders, NEW m \in Wanted, Repair(d, m)
      PROVE  /\ part' \in [Models -> Contents]
             /\ final' \in [Models -> Contents]
             /\ trusted' \in [Models -> BOOLEAN]
  BY <1>2, Constants, LocalsTypes, <1>t
  DEF Repair, Begins, Goto, RemoveBoth, DeletePart, Contents
<1>3. ASSUME NEW d \in Downloaders, LookAtInstalled(d)
      PROVE  /\ part' \in [Models -> Contents]
             /\ final' \in [Models -> Contents]
             /\ trusted' \in [Models -> BOOLEAN]
  BY <1>3, Constants, LocalsTypes, <1>t
  DEF LookAtInstalled, Leave, Show, Goto, Keep, Rest, Unlinked, Contents
<1>4. ASSUME NEW d \in Downloaders, Measure(d)
      PROVE  /\ part' \in [Models -> Contents]
             /\ final' \in [Models -> Contents]
             /\ trusted' \in [Models -> BOOLEAN]
  BY <1>4, Constants, LocalsTypes, <1>t
  DEF Measure, Fail, Leave, Show, Goto, Fault, Rest, Contents
<1>5. ASSUME NEW d \in Downloaders, Connect(d)
      PROVE  /\ part' \in [Models -> Contents]
             /\ final' \in [Models -> Contents]
             /\ trusted' \in [Models -> BOOLEAN]
  BY <1>5, Constants, LocalsTypes, <1>t
  DEF Connect, Answers, CanResume, Fail, Leave, Show, Goto, Fault, Rest, Contents
<1>6. ASSUME NEW d \in Downloaders, DropPart(d)
      PROVE  /\ part' \in [Models -> Contents]
             /\ final' \in [Models -> Contents]
             /\ trusted' \in [Models -> BOOLEAN]
  BY <1>6, Constants, LocalsTypes, <1>t
  DEF DropPart, InPlace, DeletePart, Unlinked, Goto, Rest, Keep, Contents
<1>7. ASSUME NEW d \in Downloaders, Open(d)
      PROVE  /\ part' \in [Models -> Contents]
             /\ final' \in [Models -> Contents]
             /\ trusted' \in [Models -> BOOLEAN]
  <2>1. Opened(d) \in Contents
    BY <1>t, EmptySeq, Constants, LocalsTypes DEF Opened, Contents
  <2> QED
    BY <1>7, <1>t, <2>1 DEF Open
<1>8. ASSUME NEW d \in Downloaders, LoopHead(d)
      PROVE  /\ part' \in [Models -> Contents]
             /\ final' \in [Models -> Contents]
             /\ trusted' \in [Models -> BOOLEAN]
  BY <1>8, Constants, LocalsTypes, <1>t
  DEF LoopHead, Leave, Show, Closed, Goto, Rest, Keep, Contents
<1>9. ASSUME NEW d \in Downloaders, ReadBlock(d)
      PROVE  /\ part' \in [Models -> Contents]
             /\ final' \in [Models -> Contents]
             /\ trusted' \in [Models -> BOOLEAN]
  <2> DEFINE m == call[d].model
  <2>1. /\ call[d].sent < Size
        /\ \/ part' = part \/ (where[d] = "part" /\ part' = [part EXCEPT ![m] = Written(part[m], d)])
        /\ \/ final' = final \/ (where[d] = "final" /\ final' = [final EXCEPT ![m] = Written(final[m], d)])
    BY <1>9 DEF ReadBlock
  <2>2. trusted' \in [Models -> BOOLEAN]
    BY <1>9, <1>t DEF ReadBlock
  <2>3. call[d] \in Locals /\ d \in Writers /\ m \in Models
    BY <1>t, Constants, LocalsTypes
  <2>4. /\ where[d] = "part" => part[m] \in Seq(0..Size)
        /\ where[d] = "final" => final[m] \in Seq(0..Size)
    BY <1>t, <2>3 DEF Streams, Contents
  <2>5. /\ where[d] = "part" => Written(part[m], d) \in Contents
        /\ where[d] = "final" => Written(final[m], d) \in Contents
    BY <2>1, <2>3, <2>4, WrittenIsFile
  <2> HIDE DEF m
  <2> QED
    BY <1>t, <2>1, <2>2, <2>3, <2>5
<1>10. ASSUME NEW d \in Downloaders, ReadEnds(d)
       PROVE  /\ part' \in [Models -> Contents]
              /\ final' \in [Models -> Contents]
              /\ trusted' \in [Models -> BOOLEAN]
  BY <1>10, Constants, LocalsTypes, <1>t
  DEF ReadEnds, Closed, Goto, Forget, Fault, Fail, Leave, Show, Rest, Contents
<1>11. ASSUME NEW d \in Downloaders, CheckPart(d)
       PROVE  /\ part' \in [Models -> Contents]
              /\ final' \in [Models -> Contents]
              /\ trusted' \in [Models -> BOOLEAN]
  BY <1>11, Constants, LocalsTypes, <1>t
  DEF CheckPart, InPlace, Matches, Goto, Keep, DeletePart, Unlinked, Fail, Leave,
      Show, Rest, Contents
<1>12. ASSUME NEW d \in Downloaders, Install(d)
       PROVE  /\ part' \in [Models -> Contents]
              /\ final' \in [Models -> Contents]
              /\ trusted' \in [Models -> BOOLEAN]
  BY <1>12, Constants, LocalsTypes, <1>t
  DEF Install, InPlace, DeletePart, Renamed, Fail, Leave, Show, Goto, Keep, Rest,
      Contents
<1>13. ASSUME NEW d \in Downloaders, Settle(d)
       PROVE  /\ part' \in [Models -> Contents]
              /\ final' \in [Models -> Contents]
              /\ trusted' \in [Models -> BOOLEAN]
  BY <1>13, Constants, LocalsTypes, <1>t
  DEF Settle, Goto, Unlinked, Fail, Leave, Show, Fault, Rest, Contents
<1>14. ASSUME NEW m \in Models, Select(m)
       PROVE  /\ part' \in [Models -> Contents]
              /\ final' \in [Models -> Contents]
              /\ trusted' \in [Models -> BOOLEAN]
  BY <1>14, Constants, LocalsTypes, <1>t DEF Select, Press, Contents
<1>15. ASSUME NEW m \in Models, DeleteModel(m)
       PROVE  /\ part' \in [Models -> Contents]
              /\ final' \in [Models -> Contents]
              /\ trusted' \in [Models -> BOOLEAN]
  BY <1>15, Constants, LocalsTypes, <1>t DEF DeleteModel, Press, Contents
<1>16. ASSUME NEW m \in Models, DeleteFiles(m)
       PROVE  /\ part' \in [Models -> Contents]
              /\ final' \in [Models -> Contents]
              /\ trusted' \in [Models -> BOOLEAN]
  BY <1>16, Constants, LocalsTypes, <1>t
  DEF DeleteFiles, RemoveBoth, DeletePart, Contents
<1>17. CASE CancelDownload
  BY <1>17, Constants, LocalsTypes, <1>t DEF CancelDownload, Press, Contents
<1>18. CASE SelectBest
  BY <1>18, Constants, LocalsTypes, <1>t DEF SelectBest, Contents
<1>19. CASE AdoptLooks
  <2>1. <<>> \in Contents
    BY EmptySeq DEF Contents
  <2>2. /\ \/ final' = final \/ final' = [final EXCEPT ![call[Adopter].model] = <<>>]
        /\ part' = part
    BY <1>19 DEF AdoptLooks
  <2>3. trusted' \in [Models -> BOOLEAN]
    BY <1>19, <1>t DEF AdoptLooks
  <2> QED
    BY <1>t, <2>1, <2>2, <2>3
<1>20. CASE AdoptCopies
  <2> DEFINE m == call[Adopter].model
  <2>1. /\ call[Adopter].sent < Size
        /\ \/ part' = part \/ (where[Adopter] = "part" /\ part' = [part EXCEPT ![m] = Written(part[m], Adopter)])
        /\ \/ final' = final \/ (where[Adopter] = "final" /\ final' = [final EXCEPT ![m] = Written(final[m], Adopter)])
    BY <1>20 DEF AdoptCopies
  <2>2. trusted' \in [Models -> BOOLEAN]
    BY <1>20, <1>t DEF AdoptCopies
  <2>3. call[Adopter] \in Locals /\ Adopter \in Writers /\ m \in Models
    BY <1>t, Constants, LocalsTypes
  <2>4. /\ where[Adopter] = "part" => part[m] \in Seq(0..Size)
        /\ where[Adopter] = "final" => final[m] \in Seq(0..Size)
    BY <1>t, <2>3 DEF Streams, Contents
  <2>5. /\ where[Adopter] = "part" => Written(part[m], Adopter) \in Contents
        /\ where[Adopter] = "final" => Written(final[m], Adopter) \in Contents
    BY <2>1, <2>3, <2>4, WrittenIsFile
  <2> HIDE DEF m
  <2> QED
    BY <1>t, <2>1, <2>2, <2>3, <2>5
<1>21. CASE AdoptVerifies
  BY <1>21, Constants, LocalsTypes, <1>t
  DEF AdoptVerifies, Goto, Closed, Unlinked, Contents
<1>22. CASE Crash
  BY <1>22, Constants, LocalsTypes, <1>t DEF Crash, Fault, AtStart, Contents
<1>23. CASE UNCHANGED vars
  BY <1>23, Constants, LocalsTypes, <1>t DEF vars, Contents
<1> QED
  BY <1>1, <1>2, <1>3, <1>4, <1>5, <1>6, <1>7, <1>8, <1>9, <1>10, <1>11, <1>12,
      <1>13, <1>14, <1>15, <1>16, <1>17, <1>18, <1>19, <1>20, <1>21, <1>22, <1>23
  DEF Next, Proceed, Adopt

\* Every step keeps the places of the calls, and the manager's fields, well typed.
LEMMA ControlTypes ==
    ASSUME TypeOK, [Next]_vars
    PROVE  Control'
<1>t. Control /\ call \in [Writers -> Locals]
  BY DEF TypeOK, Control
<1> USE DEF files, calls, bounds
<1>1. ASSUME NEW d \in Downloaders, NEW m \in Wanted, Download(d, m) PROVE Control'
  BY <1>1, Constants, LocalsTypes, <1>t DEF Download, Begins, Goto, Control, Steps
<1>2. ASSUME NEW d \in Downloaders, NEW m \in Wanted, Repair(d, m) PROVE Control'
  BY <1>2, Constants, LocalsTypes, <1>t
  DEF Repair, Begins, Goto, RemoveBoth, DeletePart, Control, Steps
<1>3. ASSUME NEW d \in Downloaders, LookAtInstalled(d) PROVE Control'
  BY <1>3, Constants, LocalsTypes, <1>t
  DEF LookAtInstalled, Leave, Show, Goto, Keep, Rest, Unlinked, Control, Steps
<1>4. ASSUME NEW d \in Downloaders, Measure(d) PROVE Control'
  BY <1>4, Constants, LocalsTypes, <1>t
  DEF Measure, Fail, Leave, Show, Goto, Fault, Rest, Control, Steps
<1>5. ASSUME NEW d \in Downloaders, Connect(d) PROVE Control'
  BY ZenonT(60), <1>5, Constants, LocalsTypes, <1>t
  DEF Connect, Answers, CanResume, Fail, Leave, Show, Goto, Fault, Rest, Control,
      Steps
<1>6. ASSUME NEW d \in Downloaders, DropPart(d) PROVE Control'
  BY <1>6, Constants, LocalsTypes, <1>t
  DEF DropPart, InPlace, DeletePart, Unlinked, Goto, Rest, Keep, Control, Steps
<1>7. ASSUME NEW d \in Downloaders, Open(d) PROVE Control'
  BY <1>7, Constants, LocalsTypes, <1>t
  DEF Open, Opened, Goto, Rest, Keep, Control, Steps
<1>8. ASSUME NEW d \in Downloaders, LoopHead(d) PROVE Control'
  BY <1>8, Constants, LocalsTypes, <1>t
  DEF LoopHead, Leave, Show, Closed, Goto, Rest, Keep, Control, Steps
<1>9. ASSUME NEW d \in Downloaders, ReadBlock(d) PROVE Control'
  BY <1>9, Constants, LocalsTypes, <1>t
  DEF ReadBlock, Show, Goto, Rest, Control, Steps
<1>10. ASSUME NEW d \in Downloaders, ReadEnds(d) PROVE Control'
  BY <1>10, Constants, LocalsTypes, <1>t
  DEF ReadEnds, Closed, Goto, Forget, Fault, Fail, Leave, Show, Rest, Control, Steps
<1>11. ASSUME NEW d \in Downloaders, CheckPart(d) PROVE Control'
  <2>1. screen' \in {screen, NoModel}
        /\ UNCHANGED <<selected, cancelRequested, removing, contended>>
    BY <1>11 DEF CheckPart, Keep, Fail, Leave, Show, Rest
  <2>2. pc' \in [Writers -> Steps]
    BY <1>11, <1>t DEF CheckPart, Goto, Fail, Leave, Control, Steps
  <2>3. where' \in [Writers -> {"closed", "part", "final", "nowhere"}]
    BY <1>11, <1>t DEF CheckPart, Unlinked, Control
  <2> QED
    BY <1>t, <2>1, <2>2, <2>3 DEF Control
<1>12. ASSUME NEW d \in Downloaders, Install(d) PROVE Control'
  BY <1>12, Constants, LocalsTypes, <1>t
  DEF Install, InPlace, DeletePart, Renamed, Fail, Leave, Show, Goto, Keep, Rest,
      Control, Steps
<1>13. ASSUME NEW d \in Downloaders, Settle(d) PROVE Control'
  <2>1. /\ screen' \in {screen, NoModel}
        /\ selected' \in {selected, call[d].model}
        /\ UNCHANGED <<cancelRequested, removing, contended>>
    BY <1>13 DEF Settle, Fail, Leave, Show, Rest
  <2>2. pc' \in [Writers -> Steps]
    BY <1>13, <1>t DEF Settle, Goto, Fail, Leave, Control, Steps
  <2>3. where' \in [Writers -> {"closed", "part", "final", "nowhere"}]
    BY <1>13, <1>t DEF Settle, Unlinked, Control
  <2>4. call[d].model \in Models
    BY <1>t, Constants, LocalsTypes
  <2> QED
    BY <1>t, <2>1, <2>2, <2>3, <2>4 DEF Control
<1>14. ASSUME NEW m \in Models, Select(m) PROVE Control'
  BY <1>14, Constants, LocalsTypes, <1>t DEF Select, Press, Control, Steps
<1>15. ASSUME NEW m \in Models, DeleteModel(m) PROVE Control'
  BY <1>15, Constants, LocalsTypes, <1>t DEF DeleteModel, Press, Control, Steps
<1>16. ASSUME NEW m \in Models, DeleteFiles(m) PROVE Control'
  BY <1>16, Constants, LocalsTypes, <1>t
  DEF DeleteFiles, RemoveBoth, DeletePart, Control, Steps
<1>17. CASE CancelDownload
  <2>1. Working(screen) \ {Adopter} \subseteq Downloaders
    BY DEF Working, Writers
  <2> QED
    BY <1>17, <1>t, <2>1 DEF CancelDownload, Control
<1>18. CASE SelectBest
  BY <1>18, Constants, LocalsTypes, <1>t DEF SelectBest, Control, Steps
<1>19. CASE AdoptLooks
  BY <1>19, Constants, LocalsTypes, <1>t
  DEF AdoptLooks, Goto, Unlinked, Fault, Control, Steps
<1>20. CASE AdoptCopies
  BY <1>20, Constants, LocalsTypes, <1>t DEF AdoptCopies, Control, Steps
<1>21. CASE AdoptVerifies
  BY <1>21, Constants, LocalsTypes, <1>t
  DEF AdoptVerifies, Goto, Closed, Unlinked, Control, Steps
<1>22. CASE Crash
  BY <1>22, Constants, LocalsTypes, <1>t DEF Crash, Fault, AtStart, Control, Steps
<1>23. CASE UNCHANGED vars
  BY <1>23, Constants, LocalsTypes, <1>t DEF vars, Control, Steps
<1> QED
  BY <1>1, <1>2, <1>3, <1>4, <1>5, <1>6, <1>7, <1>8, <1>9, <1>10, <1>11, <1>12,
      <1>13, <1>14, <1>15, <1>16, <1>17, <1>18, <1>19, <1>20, <1>21, <1>22, <1>23
  DEF Next, Proceed, Adopt

\* The bounds are kept.
LEMMA BoundsTypes ==
    ASSUME TypeOK, [Next]_vars
    PROVE  faults' \in 0..MaxFaults /\ presses' \in 0..MaxPresses
<1>t. faults \in 0..MaxFaults /\ presses \in 0..MaxPresses
  BY DEF TypeOK
<1> USE DEF files, calls, bounds
<1>1. ASSUME NEW d \in Downloaders, NEW m \in Wanted, Download(d, m)
      PROVE  faults' \in 0..MaxFaults /\ presses' \in 0..MaxPresses
  BY <1>1, Constants, <1>t DEF Download, Begins, Goto
<1>2. ASSUME NEW d \in Downloaders, NEW m \in Wanted, Repair(d, m)
      PROVE  faults' \in 0..MaxFaults /\ presses' \in 0..MaxPresses
  BY <1>2, Constants, <1>t DEF Repair, Begins, Goto, RemoveBoth, DeletePart
<1>3. ASSUME NEW d \in Downloaders, LookAtInstalled(d)
      PROVE  faults' \in 0..MaxFaults /\ presses' \in 0..MaxPresses
  BY <1>3, Constants, <1>t
  DEF LookAtInstalled, Leave, Show, Goto, Keep, Rest, Unlinked
<1>4. ASSUME NEW d \in Downloaders, Measure(d)
      PROVE  faults' \in 0..MaxFaults /\ presses' \in 0..MaxPresses
  BY <1>4, Constants, <1>t DEF Measure, Fail, Leave, Show, Goto, Fault, Rest
<1>5. ASSUME NEW d \in Downloaders, Connect(d)
      PROVE  faults' \in 0..MaxFaults /\ presses' \in 0..MaxPresses
  <2>1. (faults' = faults \/ Fault) /\ presses' = presses
    BY <1>5 DEF Connect, Rest
  <2> QED
    BY <1>t, <2>1, Constants DEF Fault
<1>6. ASSUME NEW d \in Downloaders, DropPart(d)
      PROVE  faults' \in 0..MaxFaults /\ presses' \in 0..MaxPresses
  BY <1>6, Constants, <1>t
  DEF DropPart, InPlace, DeletePart, Unlinked, Goto, Rest, Keep
<1>7. ASSUME NEW d \in Downloaders, Open(d)
      PROVE  faults' \in 0..MaxFaults /\ presses' \in 0..MaxPresses
  BY <1>7, Constants, <1>t DEF Open, Opened, Goto, Rest, Keep
<1>8. ASSUME NEW d \in Downloaders, LoopHead(d)
      PROVE  faults' \in 0..MaxFaults /\ presses' \in 0..MaxPresses
  BY <1>8, Constants, <1>t DEF LoopHead, Leave, Show, Closed, Goto, Rest, Keep
<1>9. ASSUME NEW d \in Downloaders, ReadBlock(d)
      PROVE  faults' \in 0..MaxFaults /\ presses' \in 0..MaxPresses
  BY <1>9, Constants, <1>t DEF ReadBlock, Show, Goto, Rest
<1>10. ASSUME NEW d \in Downloaders, ReadEnds(d)
       PROVE  faults' \in 0..MaxFaults /\ presses' \in 0..MaxPresses
  BY <1>10, Constants, <1>t
  DEF ReadEnds, Closed, Goto, Forget, Fault, Fail, Leave, Show, Rest
<1>11. ASSUME NEW d \in Downloaders, CheckPart(d)
       PROVE  faults' \in 0..MaxFaults /\ presses' \in 0..MaxPresses
  BY <1>11, Constants, <1>t
  DEF CheckPart, InPlace, Matches, Goto, Keep, DeletePart, Unlinked, Fail, Leave,
      Show, Rest
<1>12. ASSUME NEW d \in Downloaders, Install(d)
       PROVE  faults' \in 0..MaxFaults /\ presses' \in 0..MaxPresses
  BY <1>12, Constants, <1>t
  DEF Install, InPlace, DeletePart, Renamed, Fail, Leave, Show, Goto, Keep, Rest
<1>13. ASSUME NEW d \in Downloaders, Settle(d)
       PROVE  faults' \in 0..MaxFaults /\ presses' \in 0..MaxPresses
  BY <1>13, Constants, <1>t
  DEF Settle, Goto, Unlinked, Fail, Leave, Show, Fault, Rest
<1>14. ASSUME NEW m \in Models, Select(m)
       PROVE  faults' \in 0..MaxFaults /\ presses' \in 0..MaxPresses
  BY <1>14, Constants, <1>t DEF Select, Press
<1>15. ASSUME NEW m \in Models, DeleteModel(m)
       PROVE  faults' \in 0..MaxFaults /\ presses' \in 0..MaxPresses
  BY <1>15, Constants, <1>t DEF DeleteModel, Press
<1>16. ASSUME NEW m \in Models, DeleteFiles(m)
       PROVE  faults' \in 0..MaxFaults /\ presses' \in 0..MaxPresses
  BY <1>16, Constants, <1>t DEF DeleteFiles, RemoveBoth, DeletePart
<1>17. CASE CancelDownload
  BY <1>17, Constants, <1>t DEF CancelDownload, Press
<1>18. CASE SelectBest
  BY <1>18, Constants, <1>t DEF SelectBest
<1>19. CASE AdoptLooks
  BY <1>19, Constants, <1>t DEF AdoptLooks, Goto, Unlinked, Fault
<1>20. CASE AdoptCopies
  BY <1>20, Constants, <1>t DEF AdoptCopies
<1>21. CASE AdoptVerifies
  BY <1>21, Constants, <1>t DEF AdoptVerifies, Goto, Closed, Unlinked
<1>22. CASE Crash
  BY <1>22, Constants, <1>t DEF Crash, Fault, AtStart
<1>23. CASE UNCHANGED vars
  BY <1>23, Constants, <1>t DEF vars
<1> QED
  BY <1>1, <1>2, <1>3, <1>4, <1>5, <1>6, <1>7, <1>8, <1>9, <1>10, <1>11, <1>12,
      <1>13, <1>14, <1>15, <1>16, <1>17, <1>18, <1>19, <1>20, <1>21, <1>22, <1>23
  DEF Next, Proceed, Adopt

\* A stream is open while its loop runs, on a file that is there.
LEMMA StreamsStep ==
    ASSUME TypeOK, Streams, [Next]_vars
    PROVE  Streams'
<1>t. /\ call \in [Writers -> Locals] /\ part \in [Models -> Contents]
      /\ final \in [Models -> Contents] /\ pc \in [Writers -> Steps]
      /\ where \in [Writers -> {"closed", "part", "final", "nowhere"}]
  BY DEF TypeOK
<1> USE DEF files, calls, bounds
<1>1. ASSUME NEW d \in Downloaders, NEW m \in Wanted, Download(d, m) PROVE Streams'
  BY <1>1, Constants, LocalsTypes, <1>t
  DEF Download, Begins, Goto, Streams, Contents
<1>2. ASSUME NEW d \in Downloaders, NEW m \in Wanted, Repair(d, m) PROVE Streams'
  BY <1>2, Constants, LocalsTypes, <1>t
  DEF Repair, Begins, Goto, RemoveBoth, DeletePart, Streams, Contents
<1>3. ASSUME NEW d \in Downloaders, LookAtInstalled(d) PROVE Streams'
  BY <1>3, Constants, LocalsTypes, <1>t
  DEF LookAtInstalled, Leave, Show, Goto, Keep, Rest, Unlinked, Streams, Contents
<1>4. ASSUME NEW d \in Downloaders, Measure(d) PROVE Streams'
  BY <1>4, Constants, LocalsTypes, <1>t
  DEF Measure, Fail, Leave, Show, Goto, Fault, Rest, Streams, Contents
<1>5. ASSUME NEW d \in Downloaders, Connect(d) PROVE Streams'
  BY ZenonT(60), <1>5, Constants, LocalsTypes, <1>t
  DEF Connect, Answers, CanResume, Fail, Leave, Show, Goto, Fault, Rest, Streams,
      Contents
<1>6. ASSUME NEW d \in Downloaders, DropPart(d) PROVE Streams'
  BY <1>6, Constants, LocalsTypes, <1>t
  DEF DropPart, InPlace, DeletePart, Unlinked, Goto, Rest, Keep, Streams, Contents
<1>7. ASSUME NEW d \in Downloaders, Open(d) PROVE Streams'
  <2>1. Opened(d) # NoFile
    BY EmptySeq, Constants DEF Opened
  <2> QED
    BY <1>7, <1>t, <2>1, Constants, LocalsTypes DEF Open, Goto, Rest, Keep, Streams
<1>8. ASSUME NEW d \in Downloaders, LoopHead(d) PROVE Streams'
  BY <1>8, Constants, LocalsTypes, <1>t
  DEF LoopHead, Leave, Show, Closed, Goto, Rest, Keep, Streams, Contents
<1>9. ASSUME NEW d \in Downloaders, ReadBlock(d) PROVE Streams'
  <2> DEFINE m == call[d].model
  <2>1. /\ call[d].sent < Size
        /\ \/ part' = part \/ (where[d] = "part" /\ part' = [part EXCEPT ![m] = Written(part[m], d)])
        /\ \/ final' = final \/ (where[d] = "final" /\ final' = [final EXCEPT ![m] = Written(final[m], d)])
        /\ where' = where /\ pc[d] \in {"read", "copy"}
        /\ \/ pc' = pc \/ pc' = [pc EXCEPT ![d] = "head"]
        /\ call' = [call EXCEPT ![d] = [call[d] EXCEPT !.sent = call[d].sent + 1]]
    BY <1>9 DEF ReadBlock, Goto
  <2>2. call[d] \in Locals /\ d \in Writers /\ m \in Models
    BY <1>t, Constants, LocalsTypes
  <2>3. /\ where[d] = "part" => part[m] \in Seq(0..Size)
        /\ where[d] = "final" => final[m] \in Seq(0..Size)
    BY <1>t, <2>2 DEF Streams, Contents
  <2>4. /\ where[d] = "part" => Written(part[m], d) # NoFile
        /\ where[d] = "final" => Written(final[m], d) # NoFile
    BY <2>1, <2>2, <2>3, WrittenIsFile
  <2>5. \A w \in Writers : call'[w].model = call[w].model
    BY <1>t, <2>1, <2>2 DEF Locals
  <2> HIDE DEF m
  <2>6. \A k \in Models : /\ part[k] # NoFile => part'[k] # NoFile
                          /\ final[k] # NoFile => final'[k] # NoFile
    BY <1>t, <2>1, <2>2, <2>4
  <2>7. \A w \in Writers : call[w].model \in Models
    BY <1>t, LocalsTypes
  <2> QED
    BY <1>t, <2>1, <2>5, <2>6, <2>7 DEF Streams
<1>10. ASSUME NEW d \in Downloaders, ReadEnds(d) PROVE Streams'
  BY <1>10, Constants, LocalsTypes, <1>t
  DEF ReadEnds, Closed, Goto, Forget, Fault, Fail, Leave, Show, Rest, Streams,
      Contents
<1>11. ASSUME NEW d \in Downloaders, CheckPart(d) PROVE Streams'
  BY <1>11, Constants, LocalsTypes, <1>t
  DEF CheckPart, InPlace, Matches, Goto, Keep, DeletePart, Unlinked, Fail, Leave,
      Show, Rest, Streams, Contents
<1>12. ASSUME NEW d \in Downloaders, Install(d) PROVE Streams'
  BY <1>12, Constants, LocalsTypes, <1>t
  DEF Install, InPlace, DeletePart, Renamed, Fail, Leave, Show, Goto, Keep, Rest,
      Streams, Contents
<1>13. ASSUME NEW d \in Downloaders, Settle(d) PROVE Streams'
  <2>1. CASE Installed(call[d].model)
    BY <1>13, <1>t, <2>1, Constants, LocalsTypes
    DEF Settle, Fail, Leave, Goto, Streams
  <2>2. CASE ~Installed(call[d].model)
    <3>1. pc[d] = "settle" /\ call' = [call EXCEPT ![d] = NoCall] /\ pc' = [pc EXCEPT ![d] = "idle"]
          /\ final' = [final EXCEPT ![call[d].model] = NoFile] /\ part' = part
          /\ where' = Unlinked(call[d].model, "final")
      BY <1>13, <2>2 DEF Settle, Fail, Leave, Goto
    <3>2. where[d] = "closed"
      BY <1>t, <3>1, Constants DEF Streams
    <3> QED
      BY <1>t, <3>1, <3>2, Constants, LocalsTypes DEF Unlinked, Streams
  <2> QED
    BY <2>1, <2>2
<1>14. ASSUME NEW m \in Models, Select(m) PROVE Streams'
  BY <1>14, Constants, LocalsTypes, <1>t DEF Select, Press, Streams, Contents
<1>15. ASSUME NEW m \in Models, DeleteModel(m) PROVE Streams'
  BY <1>15, Constants, LocalsTypes, <1>t DEF DeleteModel, Press, Streams, Contents
<1>16. ASSUME NEW m \in Models, DeleteFiles(m) PROVE Streams'
  BY <1>16, Constants, LocalsTypes, <1>t
  DEF DeleteFiles, RemoveBoth, DeletePart, Streams, Contents
<1>17. CASE CancelDownload
  BY <1>17, Constants, LocalsTypes, <1>t
  DEF CancelDownload, Press, Streams, Contents
<1>18. CASE SelectBest
  BY <1>18, Constants, LocalsTypes, <1>t DEF SelectBest, Streams, Contents
<1>19. CASE AdoptLooks
  <2> DEFINE m == call[Adopter].model
  <2>1. CASE Installed(m)
    BY <1>19, <1>t, <2>1, Constants, LocalsTypes DEF AdoptLooks, Goto, Streams
  <2>2. CASE ~Installed(m)
    <3>1. /\ pc[Adopter] = "adopt" /\ pc' = [pc EXCEPT ![Adopter] = "copy"]
          /\ final' = [final EXCEPT ![m] = <<>>] /\ part' = part
          /\ where' = [Unlinked(m, "final") EXCEPT ![Adopter] = "final"]
          /\ \E ours \in BOOLEAN : call' = [call EXCEPT ![Adopter] = [call[Adopter] EXCEPT !.body = ours]]
      BY <1>19, <2>2 DEF AdoptLooks, Goto
    <3>2. \A w \in Writers : call'[w].model = call[w].model /\ call[w].model \in Models
      BY <1>t, <3>1, Constants DEF Locals
    <3>3. <<>> # NoFile
      BY EmptySeq, Constants
    <3> HIDE DEF m
    <3>4. \A w \in Writers : w # Adopter =>
             where'[w] = IF call[w].model = m /\ where[w] = "final" THEN "nowhere" ELSE where[w]
      BY <3>1, Constants DEF Unlinked
    <3>5. where'[Adopter] = "final" /\ final'[m] = <<>> /\ m = call[Adopter].model
      BY <1>t, <3>1, <3>2, Constants DEF Unlinked, m
    <3> QED
      BY <1>t, <3>1, <3>2, <3>3, <3>4, <3>5, Constants DEF Streams
  <2> QED
    BY <2>1, <2>2
<1>20. CASE AdoptCopies
  <2> DEFINE m == call[Adopter].model
  <2>1. /\ call[Adopter].sent < Size
        /\ \/ part' = part \/ (where[Adopter] = "part" /\ part' = [part EXCEPT ![m] = Written(part[m], Adopter)])
        /\ \/ final' = final \/ (where[Adopter] = "final" /\ final' = [final EXCEPT ![m] = Written(final[m], Adopter)])
        /\ where' = where /\ pc[Adopter] \in {"read", "copy"}
        /\ \/ pc' = pc \/ pc' = [pc EXCEPT ![Adopter] = "head"]
        /\ call' = [call EXCEPT ![Adopter] = [call[Adopter] EXCEPT !.sent = call[Adopter].sent + 1]]
    BY <1>20 DEF AdoptCopies, Goto
  <2>2. call[Adopter] \in Locals /\ Adopter \in Writers /\ m \in Models
    BY <1>t, Constants, LocalsTypes
  <2>3. /\ where[Adopter] = "part" => part[m] \in Seq(0..Size)
        /\ where[Adopter] = "final" => final[m] \in Seq(0..Size)
    BY <1>t, <2>2 DEF Streams, Contents
  <2>4. /\ where[Adopter] = "part" => Written(part[m], Adopter) # NoFile
        /\ where[Adopter] = "final" => Written(final[m], Adopter) # NoFile
    BY <2>1, <2>2, <2>3, WrittenIsFile
  <2>5. \A w \in Writers : call'[w].model = call[w].model
    BY <1>t, <2>1, <2>2 DEF Locals
  <2> HIDE DEF m
  <2>6. \A k \in Models : /\ part[k] # NoFile => part'[k] # NoFile
                          /\ final[k] # NoFile => final'[k] # NoFile
    BY <1>t, <2>1, <2>2, <2>4
  <2>7. \A w \in Writers : call[w].model \in Models
    BY <1>t, LocalsTypes
  <2> QED
    BY <1>t, <2>1, <2>5, <2>6, <2>7 DEF Streams
<1>21. CASE AdoptVerifies
  <2> DEFINE m == call[Adopter].model
  <2>1. pc' = [pc EXCEPT ![Adopter] = "idle"] /\ call' = [call EXCEPT ![Adopter] = NoCall]
        /\ part' = part
    BY <1>21 DEF AdoptVerifies, Goto
  <2>2. CASE Ready(m)
    BY <1>21, <1>t, <2>1, <2>2, Constants, LocalsTypes
    DEF AdoptVerifies, Closed, Streams
  <2>3. CASE ~Ready(m)
    <3>1. /\ final' = [final EXCEPT ![m] = NoFile]
          /\ where' = [Unlinked(m, "final") EXCEPT ![Adopter] = "closed"]
      BY <1>21, <2>3 DEF AdoptVerifies
    <3> HIDE DEF m
    <3> QED
      BY <1>t, <2>1, <3>1, Constants, LocalsTypes DEF Unlinked, Streams
  <2> QED
    BY <2>2, <2>3
<1>22. CASE Crash
  BY <1>22, Constants, LocalsTypes, <1>t
  DEF Crash, Fault, AtStart, Streams, Contents
<1>23. CASE UNCHANGED vars
  BY <1>23, Constants, LocalsTypes, <1>t DEF vars, Streams, Contents
<1> QED
  BY <1>1, <1>2, <1>3, <1>4, <1>5, <1>6, <1>7, <1>8, <1>9, <1>10, <1>11, <1>12,
      <1>13, <1>14, <1>15, <1>16, <1>17, <1>18, <1>19, <1>20, <1>21, <1>22, <1>23
  DEF Next, Proceed, Adopt

\* A step that leaves the files of a model and those who work on it alone.
LEMMA LeavesAlone ==
    ASSUME NEW m \in Models, FilesAt(m), part'[m] = part[m], final'[m] = final[m],
           trusted'[m] => trusted[m],
           \A e \in Writers : e \in Working(m)' =>
              /\ e \in Working(m) /\ pc'[e] = pc[e] /\ call'[e] = call[e] /\ where'[e] = where[e]
    PROVE  FilesAt(m)'
<1>1. Alone(m)'
  BY DEF FilesAt, Alone, Working
<1>2. InPlace(part[m])' /\ (trusted'[m] => final'[m] = Whole)
  BY DEF FilesAt, InPlace, Whole
<1>3. ASSUME NEW e \in Working(m)' PROVE Sound(e)'
  <2>1. e \in Writers /\ e \in Working(m) /\ call[e].model = m
    BY <1>3 DEF Working
  <2>2. Sound(e)
    BY <2>1 DEF FilesAt
  <2> QED
    BY <2>1, <2>2 DEF Sound, Whole, Length
<1> QED
  BY <1>1, <1>2, <1>3 DEF FilesAt

\* A step of the one who works on a model.
LEMMA WorksAlone ==
    ASSUME NEW m \in Models, FilesAt(m), NEW d \in Working(m),
           \A e \in Writers \ {d} : pc'[e] = pc[e] /\ call'[e] = call[e],
           InPlace(part'[m]), trusted'[m] => final'[m] = Whole,
           d \in Working(m)' => Sound(d)'
    PROVE  FilesAt(m)'
<1>1. \A e \in Working(m)' : e = d
  BY DEF FilesAt, Alone, Working
<1> QED
  BY <1>1 DEF FilesAt, Alone, InPlace, Whole

\* A step of one who works on another model.
LEMMA WorksElsewhere ==
    ASSUME NEW m \in Models, FilesAt(m), NEW d \in Writers, call[d].model # m,
           \A e \in Writers \ {d} : pc'[e] = pc[e] /\ call'[e] = call[e],
           pc'[d] = "idle" \/ call'[d].model = call[d].model,
           part'[m] = part[m], final'[m] = final[m], trusted'[m] => trusted[m],
           \A e \in Writers \ {d} : call[e].model = m => where'[e] = where[e]
    PROVE  FilesAt(m)'
BY LeavesAlone DEF Working

\* A model stays contended.
LEMMA ContendedGrows ==
    ASSUME TRUE, [Next]_vars
    PROVE  contended \subseteq contended'
<1> USE DEF files, calls, bounds
<1>1. ASSUME NEW d \in Downloaders, NEW m \in Wanted, Download(d, m)
      PROVE  contended \subseteq contended'
  BY <1>1 DEF Download, Begins, Goto
<1>2. ASSUME NEW d \in Downloaders, NEW m \in Wanted, Repair(d, m)
      PROVE  contended \subseteq contended'
  BY <1>2 DEF Repair, Begins, Goto, RemoveBoth, DeletePart
<1>3. ASSUME NEW d \in Downloaders, LookAtInstalled(d)
      PROVE  contended \subseteq contended'
  BY <1>3 DEF LookAtInstalled, Leave, Show, Goto, Keep, Rest, Unlinked
<1>4. ASSUME NEW d \in Downloaders, Measure(d) PROVE contended \subseteq contended'
  BY <1>4 DEF Measure, Fail, Leave, Show, Goto, Fault, Rest
<1>5. ASSUME NEW d \in Downloaders, Connect(d) PROVE contended \subseteq contended'
  BY <1>5 DEF Connect, Answers, CanResume, Fail, Leave, Show, Goto, Fault, Rest
<1>6. ASSUME NEW d \in Downloaders, DropPart(d) PROVE contended \subseteq contended'
  BY <1>6 DEF DropPart, InPlace, DeletePart, Unlinked, Goto, Rest, Keep
<1>7. ASSUME NEW d \in Downloaders, Open(d) PROVE contended \subseteq contended'
  BY <1>7 DEF Open, Opened, Goto, Rest, Keep
<1>8. ASSUME NEW d \in Downloaders, LoopHead(d) PROVE contended \subseteq contended'
  BY <1>8 DEF LoopHead, Leave, Show, Closed, Goto, Rest, Keep
<1>9. ASSUME NEW d \in Downloaders, ReadBlock(d)
      PROVE  contended \subseteq contended'
  BY <1>9 DEF ReadBlock, Show, Goto, Rest
<1>10. ASSUME NEW d \in Downloaders, ReadEnds(d)
       PROVE  contended \subseteq contended'
  BY <1>10 DEF ReadEnds, Closed, Goto, Forget, Fault, Fail, Leave, Show, Rest
<1>11. ASSUME NEW d \in Downloaders, CheckPart(d)
       PROVE  contended \subseteq contended'
  BY <1>11
  DEF CheckPart, InPlace, Matches, Goto, Keep, DeletePart, Unlinked, Fail, Leave,
      Show, Rest
<1>12. ASSUME NEW d \in Downloaders, Install(d) PROVE contended \subseteq contended'
  BY <1>12
  DEF Install, InPlace, DeletePart, Renamed, Fail, Leave, Show, Goto, Keep, Rest
<1>13. ASSUME NEW d \in Downloaders, Settle(d) PROVE contended \subseteq contended'
  BY <1>13 DEF Settle, Goto, Unlinked, Fail, Leave, Show, Fault, Rest
<1>14. ASSUME NEW m \in Models, Select(m) PROVE contended \subseteq contended'
  BY <1>14 DEF Select, Press
<1>15. ASSUME NEW m \in Models, DeleteModel(m) PROVE contended \subseteq contended'
  BY <1>15 DEF DeleteModel, Press
<1>16. ASSUME NEW m \in Models, DeleteFiles(m) PROVE contended \subseteq contended'
  BY <1>16 DEF DeleteFiles, RemoveBoth, DeletePart
<1>17. CASE CancelDownload
  BY <1>17 DEF CancelDownload, Press
<1>18. CASE SelectBest
  BY <1>18 DEF SelectBest
<1>19. CASE AdoptLooks
  BY <1>19 DEF AdoptLooks, Goto, Unlinked, Fault
<1>20. CASE AdoptCopies
  BY <1>20 DEF AdoptCopies
<1>21. CASE AdoptVerifies
  BY <1>21 DEF AdoptVerifies, Goto, Closed, Unlinked
<1>22. CASE Crash
  BY <1>22 DEF Crash, Fault, AtStart
<1>23. CASE UNCHANGED vars
  BY <1>23 DEF vars
<1> QED
  BY <1>1, <1>2, <1>3, <1>4, <1>5, <1>6, <1>7, <1>8, <1>9, <1>10, <1>11, <1>12,
      <1>13, <1>14, <1>15, <1>16, <1>17, <1>18, <1>19, <1>20, <1>21, <1>22, <1>23
  DEF Next, Proceed, Adopt

\* Every step keeps the files of a model that nobody contends for sound.
LEMMA FilesStep ==
    ASSUME TypeOK, Streams, FileInv, [Next]_vars, Streams', NEW m \in Models \ contended'
    PROVE  FilesAt(m)'
<1> USE DEF files, calls, bounds
<1>t. /\ call \in [Writers -> Locals] /\ part \in [Models -> Contents]
      /\ final \in [Models -> Contents] /\ pc \in [Writers -> Steps]
      /\ trusted \in [Models -> BOOLEAN]
      /\ where \in [Writers -> {"closed", "part", "final", "nowhere"}]
  BY DEF TypeOK
<1>c. contended \subseteq contended'
  BY ContendedGrows
<1>m. m \in Models /\ m \notin contended /\ FilesAt(m)
  BY <1>c DEF FileInv
<1>1. ASSUME NEW d \in Downloaders, NEW n \in Wanted, Download(d, n)
      PROVE  FilesAt(m)'
  <2>1. /\ UNCHANGED <<part, final, trusted, where>>
        /\ pc' = [pc EXCEPT ![d] = "look"] /\ call' = [call EXCEPT ![d].model = n]
        /\ contended' = IF Working(n) = {} THEN contended ELSE contended \union {n}
    BY <1>1 DEF Download, Begins, Goto
  <2>2. \A e \in Writers \ {d} : pc'[e] = pc[e] /\ call'[e] = call[e]
    BY <1>t, <2>1
  <2>3. pc'[d] = "look" /\ call'[d].model = n
    BY <1>t, <2>1, Constants DEF Locals
  <2>4. CASE n # m
    BY <1>m, <2>1, <2>2, <2>3, <2>4, LeavesAlone DEF Working
  <2>5. CASE n = m
    <3>1. Working(m) = {}
      BY <1>m, <2>1, <2>5
    <3>2. \A e \in Working(m)' : e = d
      BY <2>2, <3>1 DEF Working
    <3>3. Sound(d)'
      BY <2>3 DEF Sound
    <3>4. Alone(m)' /\ \A e \in Working(m)' : Sound(e)'
      BY <3>2, <3>3 DEF Alone
    <3> QED
      BY <1>m, <2>1, <3>4 DEF FilesAt, InPlace, Whole
  <2> QED
    BY <2>4, <2>5
<1>2. ASSUME NEW d \in Downloaders, NEW n \in Wanted, Repair(d, n) PROVE FilesAt(m)'
  <2>1. /\ pc' = [pc EXCEPT ![d] = "measure"] /\ call' = [call EXCEPT ![d].model = n]
        /\ contended' = IF Working(n) = {} THEN contended ELSE contended \union {n}
        /\ part' = [part EXCEPT ![n] = NoFile] /\ final' = [final EXCEPT ![n] = NoFile]
        /\ trusted' = [trusted EXCEPT ![n] = FALSE]
        /\ \A e \in Writers : call[e].model # n => where'[e] = where[e]
    BY <1>2 DEF Repair, Begins, Goto, RemoveBoth, DeletePart
  <2>2. \A e \in Writers \ {d} : pc'[e] = pc[e] /\ call'[e] = call[e]
    BY <1>t, <2>1
  <2>3. pc'[d] = "measure" /\ call'[d].model = n
    BY <1>t, <2>1, Constants DEF Locals
  <2>4. CASE n # m
    BY <1>t, <1>m, <2>1, <2>2, <2>3, <2>4, LeavesAlone DEF Working
  <2>5. CASE n = m
    <3>1. Working(m) = {}
      BY <1>m, <2>1, <2>5
    <3>2. \A e \in Working(m)' : e = d
      BY <2>2, <3>1 DEF Working
    <3>3. Sound(d)'
      BY <2>3 DEF Sound
    <3>4. Alone(m)' /\ \A e \in Working(m)' : Sound(e)'
      BY <3>2, <3>3 DEF Alone
    <3>5. part'[m] = NoFile /\ trusted'[m] = FALSE
      BY <1>t, <2>1, <2>5
    <3> QED
      BY <3>4, <3>5 DEF FilesAt, InPlace
  <2> QED
    BY <2>4, <2>5
<1>3. ASSUME NEW d \in Downloaders, LookAtInstalled(d) PROVE FilesAt(m)'
  <2>1. /\ \A e \in Writers \ {d} : pc'[e] = pc[e] /\ call'[e] = call[e]
        /\ pc'[d] = "idle" \/ call'[d].model = call[d].model
        /\ pc[d] # "idle" /\ d \in Writers
    BY <1>3, <1>t, Constants, LocalsTypes
    DEF LookAtInstalled, Leave, Show, Goto, Keep, Rest, Unlinked, Locals
  <2>2. CASE call[d].model = m
    <3>1. d \in Working(m)
      BY <2>1, <2>2 DEF Working
    <3>2. InPlace(part[m]) /\ Sound(d) /\ (trusted[m] => final[m] = Whole)
      BY <1>m, <3>1 DEF FilesAt
    <3>3. InPlace(part'[m]) /\ (trusted'[m] => final'[m] = Whole)
      BY <1>3, <1>t, <2>2, <3>2, Constants, LocalsTypes
      DEF LookAtInstalled, Leave, Show, Goto, Keep, Rest, Unlinked
    <3>4. ASSUME d \in Working(m)' PROVE Sound(d)'
      BY <1>3, <1>t, <2>2, <3>1, <3>2, <3>4, Constants, LocalsTypes
      DEF LookAtInstalled, Leave, Show, Goto, Keep, Rest, Unlinked, Sound, Working,
          Whole, Length
    <3> QED
      BY <1>m, <2>1, <3>1, <3>3, <3>4, WorksAlone
  <2>3. CASE call[d].model # m
    <3>1. part'[m] = part[m] /\ final'[m] = final[m] /\ (trusted'[m] => trusted[m])
      BY <1>3, <1>t, <1>m, <2>1, <2>3, LocalsTypes
      DEF LookAtInstalled, Leave, Show, Goto, Keep, Rest, Unlinked
    <3>2. \A e \in Writers \ {d} : call[e].model = m => where'[e] = where[e]
      BY <1>3, <1>t, <2>1, <2>3
      DEF LookAtInstalled, Leave, Show, Goto, Keep, Rest, Unlinked
    <3> QED
      BY <1>m, <2>1, <2>3, <3>1, <3>2, WorksElsewhere
  <2> QED
    BY <2>2, <2>3
<1>4. ASSUME NEW d \in Downloaders, Measure(d) PROVE FilesAt(m)'
  <2>1. /\ \A e \in Writers \ {d} : pc'[e] = pc[e] /\ call'[e] = call[e]
        /\ pc'[d] = "idle" \/ call'[d].model = call[d].model
        /\ pc[d] # "idle" /\ d \in Writers
    <3>1. CASE Fail(d)
      BY <1>4, <1>t, <3>1, Constants DEF Measure, Fail, Leave, Goto
    <3>2. CASE ~Fail(d)
      <4>1. /\ pc[d] = "measure" /\ pc' = [pc EXCEPT ![d] = "connect"]
            /\ call' = [call EXCEPT ![d].existing = Length(part[call[d].model])]
        BY <1>4, <3>2 DEF Measure, Goto
      <4> QED
        BY <1>t, <4>1, Constants DEF Locals
    <3> QED
      BY <3>1, <3>2
  <2>2. CASE call[d].model = m
    <3>1. d \in Working(m)
      BY <2>1, <2>2 DEF Working
    <3>2. InPlace(part[m]) /\ Sound(d) /\ (trusted[m] => final[m] = Whole)
      BY <1>m, <3>1 DEF FilesAt
    <3>3. InPlace(part'[m]) /\ (trusted'[m] => final'[m] = Whole)
      BY <1>4, <3>2 DEF Measure
    <3>4. ASSUME d \in Working(m)' PROVE Sound(d)'
      <4>1. pc'[d] # "idle"
        BY <3>4 DEF Working
      <4>2. ~Fail(d)
        BY <1>t, <4>1, Constants DEF Fail, Leave, Goto
      <4>3. /\ pc' = [pc EXCEPT ![d] = "connect"] /\ part' = part
            /\ call' = [call EXCEPT ![d].existing = Length(part[call[d].model])]
        BY <1>4, <4>2 DEF Measure, Goto
      <4>4. pc'[d] = "connect" /\ call'[d].existing = Length(part[m]) /\ call'[d].model = m
        BY <1>t, <2>2, <4>3, Constants DEF Locals
      <4> QED
        BY <4>3, <4>4 DEF Sound, Length
    <3> QED
      BY <1>m, <2>1, <3>1, <3>3, <3>4, WorksAlone
  <2>3. CASE call[d].model # m
    <3>1. part'[m] = part[m] /\ final'[m] = final[m] /\ (trusted'[m] => trusted[m])
      BY <1>4, <1>t, <1>m, <2>1, <2>3, LocalsTypes
      DEF Measure, Fail, Leave, Show, Goto, Fault, Rest
    <3>2. \A e \in Writers \ {d} : call[e].model = m => where'[e] = where[e]
      BY <1>4, <1>t, <2>1, <2>3 DEF Measure, Fail, Leave, Show, Goto, Fault, Rest
    <3> QED
      BY <1>m, <2>1, <2>3, <3>1, <3>2, WorksElsewhere
  <2> QED
    BY <2>2, <2>3
<1>5. ASSUME NEW d \in Downloaders, Connect(d) PROVE FilesAt(m)'
  <2>1. /\ \A e \in Writers \ {d} : pc'[e] = pc[e] /\ call'[e] = call[e]
        /\ pc'[d] = "idle" \/ call'[d].model = call[d].model
        /\ pc[d] # "idle" /\ d \in Writers
    <3>1. CASE Fail(d)
      BY <1>5, <1>t, <3>1, Constants DEF Connect, Fail, Leave, Goto
    <3>2. CASE ~Fail(d)
      <4>1. PICK answer \in Answers(d), ours \in BOOLEAN :
              /\ pc[d] = "connect" /\ pc' \in {[pc EXCEPT ![d] = "open"], [pc EXCEPT ![d] = "drop"]}
              /\ call' = [call EXCEPT
                    ![d].existing = 0,
                    ![d].resumes = CanResume(d, answer), ![d].body = ours,
                    ![d].sent = IF answer = "206" THEN call[d].existing ELSE 0]
        BY <1>5, <3>2 DEF Connect, Goto
      <4> QED
        BY <1>t, <4>1, Constants DEF Locals
    <3> QED
      BY <3>1, <3>2
  <2>2. CASE call[d].model = m
    <3>1. d \in Working(m)
      BY <2>1, <2>2 DEF Working
    <3>2. InPlace(part[m]) /\ Sound(d) /\ (trusted[m] => final[m] = Whole)
      BY <1>m, <3>1 DEF FilesAt
    <3>3. InPlace(part'[m]) /\ (trusted'[m] => final'[m] = Whole)
      BY <1>5, <3>2 DEF Connect
    <3>4. ASSUME d \in Working(m)' PROVE Sound(d)'
      <4>1. pc'[d] # "idle"
        BY <3>4 DEF Working
      <4>2. ~Fail(d)
        BY <1>t, <4>1, Constants DEF Fail, Leave, Goto
      <4>3. PICK answer \in Answers(d), ours \in BOOLEAN :
              /\ pc[d] = "connect" /\ part' = part
              /\ pc' = [pc EXCEPT ![d] = IF answer = "206" THEN "open" ELSE "drop"]
              /\ call' = [call EXCEPT
                    ![d].existing = 0,
                    ![d].resumes = (answer = "206"), ![d].body = ours,
                    ![d].sent = IF answer = "206" THEN call[d].existing ELSE 0]
        BY <1>5, <4>2 DEF Connect, Goto, CanResume
      <4>4. /\ call'[d].resumes = (answer = "206")
            /\ call'[d].sent = IF answer = "206" THEN call[d].existing ELSE 0
            /\ call'[d].model = m
        BY <1>t, <2>2, <4>3, Constants DEF Locals
      <4>5. pc'[d] = IF answer = "206" THEN "open" ELSE "drop"
        BY <1>t, <4>3, Constants
      <4>6. call[d].existing = Length(part[m]) /\ (answer = "206" => call[d].existing > 0)
        BY <1>t, <2>2, <3>2, <4>3, Constants, LocalsTypes DEF Sound, Answers
      <4>7. CASE answer = "206"
        <5>1. pc'[d] = "open" /\ call'[d].sent = Length(part'[m]) /\ call'[d].sent > 0
          BY <4>3, <4>4, <4>5, <4>6, <4>7 DEF Length
        <5> QED
          BY <4>4, <5>1 DEF Sound, Length
      <4>8. CASE answer # "206"
        <5>1. pc'[d] = "drop" /\ ~call'[d].resumes
          BY <4>4, <4>5, <4>8, Zenon
        <5> QED
          BY <5>1 DEF Sound
      <4> QED
        BY <4>7, <4>8
    <3> QED
      BY <1>m, <2>1, <3>1, <3>3, <3>4, WorksAlone
  <2>3. CASE call[d].model # m
    <3>1. part'[m] = part[m] /\ final'[m] = final[m] /\ (trusted'[m] => trusted[m])
      BY <1>5, <1>t, <1>m, <2>1, <2>3, LocalsTypes
      DEF Connect, Answers, CanResume, Fail, Leave, Show, Goto, Fault, Rest
    <3>2. \A e \in Writers \ {d} : call[e].model = m => where'[e] = where[e]
      BY <1>5, <1>t, <2>1, <2>3
      DEF Connect, Answers, CanResume, Fail, Leave, Show, Goto, Fault, Rest
    <3> QED
      BY <1>m, <2>1, <2>3, <3>1, <3>2, WorksElsewhere
  <2> QED
    BY <2>2, <2>3
<1>6. ASSUME NEW d \in Downloaders, DropPart(d) PROVE FilesAt(m)'
  <2>1. /\ \A e \in Writers \ {d} : pc'[e] = pc[e] /\ call'[e] = call[e]
        /\ pc'[d] = "idle" \/ call'[d].model = call[d].model
        /\ pc[d] # "idle" /\ d \in Writers
    BY <1>6, <1>t, Constants, LocalsTypes
    DEF DropPart, InPlace, DeletePart, Unlinked, Goto, Rest, Keep, Locals
  <2>2. CASE call[d].model = m
    <3>1. d \in Working(m)
      BY <2>1, <2>2 DEF Working
    <3>2. InPlace(part[m]) /\ Sound(d) /\ (trusted[m] => final[m] = Whole)
      BY <1>m, <3>1 DEF FilesAt
    <3>3. InPlace(part'[m]) /\ (trusted'[m] => final'[m] = Whole)
      BY <1>6, <1>t, <2>2, <3>2, Constants, LocalsTypes
      DEF DropPart, InPlace, DeletePart, Unlinked, Goto, Rest, Keep
    <3>4. ASSUME d \in Working(m)' PROVE Sound(d)'
      BY <1>6, <1>t, <2>2, <3>1, <3>2, <3>4, Constants, LocalsTypes
      DEF DropPart, InPlace, DeletePart, Unlinked, Goto, Rest, Keep, Sound, Working,
          Whole, Length
    <3> QED
      BY <1>m, <2>1, <3>1, <3>3, <3>4, WorksAlone
  <2>3. CASE call[d].model # m
    <3>1. part'[m] = part[m] /\ final'[m] = final[m] /\ (trusted'[m] => trusted[m])
      BY <1>6, <1>t, <1>m, <2>1, <2>3, LocalsTypes
      DEF DropPart, InPlace, DeletePart, Unlinked, Goto, Rest, Keep
    <3>2. \A e \in Writers \ {d} : call[e].model = m => where'[e] = where[e]
      BY <1>6, <1>t, <2>1, <2>3
      DEF DropPart, InPlace, DeletePart, Unlinked, Goto, Rest, Keep
    <3> QED
      BY <1>m, <2>1, <2>3, <3>1, <3>2, WorksElsewhere
  <2> QED
    BY <2>2, <2>3
<1>7. ASSUME NEW d \in Downloaders, Open(d) PROVE FilesAt(m)'
  <2>1. /\ \A e \in Writers \ {d} : pc'[e] = pc[e] /\ call'[e] = call[e]
        /\ pc'[d] = "idle" \/ call'[d].model = call[d].model
        /\ pc[d] # "idle" /\ d \in Writers
    BY <1>7, <1>t, Constants, LocalsTypes DEF Open, Opened, Goto, Rest, Keep, Locals
  <2>2. CASE call[d].model = m
    <3>1. d \in Working(m)
      BY <2>1, <2>2 DEF Working
    <3>2. InPlace(part[m]) /\ Sound(d) /\ (trusted[m] => final[m] = Whole)
      BY <1>m, <3>1 DEF FilesAt
    <3>3. InPlace(part'[m]) /\ (trusted'[m] => final'[m] = Whole)
      <4>1. part'[m] \in {part[m], <<>>} /\ UNCHANGED <<final, trusted>>
        BY <1>7, <1>t, <2>2, LocalsTypes, Constants DEF Open, Opened
      <4>2. InPlace(<<>>)
        BY EmptySeq, Constants DEF InPlace
      <4> QED
        BY <3>2, <4>1, <4>2
    <3>4. ASSUME d \in Working(m)' PROVE Sound(d)'
      BY <1>7, <1>t, <2>2, <3>1, <3>2, <3>4, Constants, LocalsTypes
      DEF Open, Opened, Goto, Keep, Sound, Working, Whole, Length
    <3> QED
      BY <1>m, <2>1, <3>1, <3>3, <3>4, WorksAlone
  <2>3. CASE call[d].model # m
    <3>1. part'[m] = part[m] /\ final'[m] = final[m] /\ (trusted'[m] => trusted[m])
      BY <1>7, <1>t, <1>m, <2>1, <2>3, LocalsTypes
      DEF Open, Opened, Goto, Rest, Keep
    <3>2. \A e \in Writers \ {d} : call[e].model = m => where'[e] = where[e]
      BY <1>7, <1>t, <2>1, <2>3 DEF Open, Opened, Goto, Rest, Keep
    <3> QED
      BY <1>m, <2>1, <2>3, <3>1, <3>2, WorksElsewhere
  <2> QED
    BY <2>2, <2>3
<1>8. ASSUME NEW d \in Downloaders, LoopHead(d) PROVE FilesAt(m)'
  <2>1. /\ \A e \in Writers \ {d} : pc'[e] = pc[e] /\ call'[e] = call[e]
        /\ pc'[d] = "idle" \/ call'[d].model = call[d].model
        /\ pc[d] # "idle" /\ d \in Writers
    BY <1>8, <1>t, Constants, LocalsTypes
    DEF LoopHead, Leave, Show, Closed, Goto, Rest, Keep, Locals
  <2>2. CASE call[d].model = m
    <3>1. d \in Working(m)
      BY <2>1, <2>2 DEF Working
    <3>2. InPlace(part[m]) /\ Sound(d) /\ (trusted[m] => final[m] = Whole)
      BY <1>m, <3>1 DEF FilesAt
    <3>3. InPlace(part'[m]) /\ (trusted'[m] => final'[m] = Whole)
      BY <1>8, <1>t, <2>2, <3>2, Constants, LocalsTypes
      DEF LoopHead, Leave, Show, Closed, Goto, Rest, Keep
    <3>4. ASSUME d \in Working(m)' PROVE Sound(d)'
      BY <1>8, <1>t, <2>2, <3>1, <3>2, <3>4, Constants, LocalsTypes
      DEF LoopHead, Leave, Show, Closed, Goto, Rest, Keep, Sound, Working, Whole,
          Length
    <3> QED
      BY <1>m, <2>1, <3>1, <3>3, <3>4, WorksAlone
  <2>3. CASE call[d].model # m
    <3>1. part'[m] = part[m] /\ final'[m] = final[m] /\ (trusted'[m] => trusted[m])
      BY <1>8, <1>t, <1>m, <2>1, <2>3, LocalsTypes
      DEF LoopHead, Leave, Show, Closed, Goto, Rest, Keep
    <3>2. \A e \in Writers \ {d} : call[e].model = m => where'[e] = where[e]
      BY <1>8, <1>t, <2>1, <2>3 DEF LoopHead, Leave, Show, Closed, Goto, Rest, Keep
    <3> QED
      BY <1>m, <2>1, <2>3, <3>1, <3>2, WorksElsewhere
  <2> QED
    BY <2>2, <2>3
<1>9. ASSUME NEW d \in Downloaders, ReadBlock(d) PROVE FilesAt(m)'
  <2>1. /\ \A e \in Writers \ {d} : pc'[e] = pc[e] /\ call'[e] = call[e]
        /\ pc'[d] = "idle" \/ call'[d].model = call[d].model
        /\ pc[d] # "idle" /\ d \in Writers
    BY <1>9, <1>t, Constants, LocalsTypes DEF ReadBlock, Show, Goto, Rest, Locals
  <2>2. CASE call[d].model = m
    <3>1. d \in Working(m)
      BY <2>1, <2>2 DEF Working
    <3>2. InPlace(part[m]) /\ Sound(d) /\ (trusted[m] => final[m] = Whole)
      BY <1>m, <3>1 DEF FilesAt
    <3>3. InPlace(part'[m]) /\ (trusted'[m] => final'[m] = Whole)
      <4>1. /\ where[d] = "part" /\ call[d].sent < Size /\ UNCHANGED <<final, where>>
            /\ part' = [part EXCEPT ![m] = Written(part[m], d)] /\ trusted'[m] = trusted[m]
        BY <1>9, <1>t, <2>2, <3>2, Constants DEF ReadBlock, Rest, Sound
      <4>2. part[m] \in Seq(0..Size)
        BY <1>t, <2>1, <2>2, <4>1 DEF Streams, Contents
      <4>3. call[d] \in Locals /\ (call[d].resumes => call[d].sent = Len(part[m]))
        BY <1>9, <1>t, <2>1, <2>2, <3>2, <4>2, Constants
        DEF ReadBlock, Sound, Length
      <4>4. InPlace(Written(part[m], d))
        BY <2>1, <3>2, <4>1, <4>2, <4>3, WrittenIsFile
      <4> QED
        BY <1>t, <3>2, <4>1, <4>4
    <3>4. ASSUME d \in Working(m)' PROVE Sound(d)'
      <4>1. /\ where[d] = "part" /\ call[d].sent < Size /\ where' = where
            /\ part' = [part EXCEPT ![m] = Written(part[m], d)]
            /\ call' = [call EXCEPT ![d] = [call[d] EXCEPT !.sent = call[d].sent + 1]]
            /\ pc' = [pc EXCEPT ![d] = "head"]
        BY <1>9, <1>t, <2>2, <3>2, Constants DEF ReadBlock, Rest, Sound, Goto
      <4>2. part[m] \in Seq(0..Size)
        BY <1>t, <2>1, <2>2, <4>1 DEF Streams, Contents
      <4>3. call[d] \in Locals /\ (call[d].resumes => call[d].sent = Len(part[m]))
        BY <1>9, <1>t, <2>1, <2>2, <3>2, <4>2, Constants
        DEF ReadBlock, Sound, Length
      <4>4. /\ part'[m] # NoFile
            /\ call[d].resumes => Len(part'[m]) = Len(part[m]) + 1
        BY <1>t, <2>1, <4>1, <4>2, <4>3, WrittenIsFile
      <4>5. /\ call'[d].model = m /\ call'[d].resumes = call[d].resumes
            /\ call'[d].sent = call[d].sent + 1 /\ pc'[d] = "head" /\ where'[d] = "part"
        BY <1>t, <2>1, <2>2, <4>1, <4>3 DEF Locals
      <4> QED
        BY <4>3, <4>4, <4>5 DEF Sound, Length
    <3> QED
      BY <1>m, <2>1, <3>1, <3>3, <3>4, WorksAlone
  <2>3. CASE call[d].model # m
    <3>1. part'[m] = part[m] /\ final'[m] = final[m] /\ (trusted'[m] => trusted[m])
      BY <1>9, <1>t, <1>m, <2>1, <2>3, LocalsTypes DEF ReadBlock, Show, Goto, Rest
    <3>2. \A e \in Writers \ {d} : call[e].model = m => where'[e] = where[e]
      BY <1>9, <1>t, <2>1, <2>3 DEF ReadBlock, Show, Goto, Rest
    <3> QED
      BY <1>m, <2>1, <2>3, <3>1, <3>2, WorksElsewhere
  <2> QED
    BY <2>2, <2>3
<1>10. ASSUME NEW d \in Downloaders, ReadEnds(d) PROVE FilesAt(m)'
  <2>1. /\ \A e \in Writers \ {d} : pc'[e] = pc[e] /\ call'[e] = call[e]
        /\ pc'[d] = "idle" \/ call'[d].model = call[d].model
        /\ pc[d] # "idle" /\ d \in Writers
    BY <1>10, <1>t, Constants, LocalsTypes
    DEF ReadEnds, Closed, Goto, Forget, Fault, Fail, Leave, Show, Rest, Locals
  <2>2. CASE call[d].model = m
    <3>1. d \in Working(m)
      BY <2>1, <2>2 DEF Working
    <3>2. InPlace(part[m]) /\ Sound(d) /\ (trusted[m] => final[m] = Whole)
      BY <1>m, <3>1 DEF FilesAt
    <3>3. InPlace(part'[m]) /\ (trusted'[m] => final'[m] = Whole)
      BY <1>10, <1>t, <2>2, <3>2, Constants, LocalsTypes
      DEF ReadEnds, Closed, Goto, Forget, Fault, Fail, Leave, Show, Rest
    <3>4. ASSUME d \in Working(m)' PROVE Sound(d)'
      BY <1>10, <1>t, <2>2, <3>1, <3>2, <3>4, Constants, LocalsTypes
      DEF ReadEnds, Closed, Goto, Forget, Fault, Fail, Leave, Show, Rest, Sound,
          Working, Whole, Length
    <3> QED
      BY <1>m, <2>1, <3>1, <3>3, <3>4, WorksAlone
  <2>3. CASE call[d].model # m
    <3>1. part'[m] = part[m] /\ final'[m] = final[m] /\ (trusted'[m] => trusted[m])
      BY <1>10, <1>t, <1>m, <2>1, <2>3, LocalsTypes
      DEF ReadEnds, Closed, Goto, Forget, Fault, Fail, Leave, Show, Rest
    <3>2. \A e \in Writers \ {d} : call[e].model = m => where'[e] = where[e]
      BY <1>10, <1>t, <2>1, <2>3
      DEF ReadEnds, Closed, Goto, Forget, Fault, Fail, Leave, Show, Rest
    <3> QED
      BY <1>m, <2>1, <2>3, <3>1, <3>2, WorksElsewhere
  <2> QED
    BY <2>2, <2>3
<1>11. ASSUME NEW d \in Downloaders, CheckPart(d) PROVE FilesAt(m)'
  <2>1. /\ \A e \in Writers \ {d} : pc'[e] = pc[e] /\ call'[e] = call[e]
        /\ pc'[d] = "idle" \/ call'[d].model = call[d].model
        /\ pc[d] # "idle" /\ d \in Writers
    BY <1>11, <1>t, Constants, LocalsTypes
    DEF CheckPart, InPlace, Matches, Goto, Keep, DeletePart, Unlinked, Fail, Leave,
        Show, Rest, Locals
  <2>2. CASE call[d].model = m
    <3>1. d \in Working(m)
      BY <2>1, <2>2 DEF Working
    <3>2. InPlace(part[m]) /\ Sound(d) /\ (trusted[m] => final[m] = Whole)
      BY <1>m, <3>1 DEF FilesAt
    <3>3. InPlace(part'[m]) /\ (trusted'[m] => final'[m] = Whole)
      BY <1>11, <1>t, <2>2, <3>2, Constants, LocalsTypes
      DEF CheckPart, InPlace, Matches, Goto, Keep, DeletePart, Unlinked, Fail,
          Leave, Show, Rest
    <3>4. ASSUME d \in Working(m)' PROVE Sound(d)'
      BY <1>11, <1>t, <2>2, <3>1, <3>2, <3>4, Constants, LocalsTypes
      DEF CheckPart, InPlace, Matches, Goto, Keep, DeletePart, Unlinked, Fail,
          Leave, Show, Rest, Sound, Working, Whole, Length
    <3> QED
      BY <1>m, <2>1, <3>1, <3>3, <3>4, WorksAlone
  <2>3. CASE call[d].model # m
    <3>1. part'[m] = part[m] /\ final'[m] = final[m] /\ (trusted'[m] => trusted[m])
      BY <1>11, <1>t, <1>m, <2>1, <2>3, LocalsTypes
      DEF CheckPart, InPlace, Matches, Goto, Keep, DeletePart, Unlinked, Fail,
          Leave, Show, Rest
    <3>2. \A e \in Writers \ {d} : call[e].model = m => where'[e] = where[e]
      BY <1>11, <1>t, <2>1, <2>3
      DEF CheckPart, InPlace, Matches, Goto, Keep, DeletePart, Unlinked, Fail,
          Leave, Show, Rest
    <3> QED
      BY <1>m, <2>1, <2>3, <3>1, <3>2, WorksElsewhere
  <2> QED
    BY <2>2, <2>3
<1>12. ASSUME NEW d \in Downloaders, Install(d) PROVE FilesAt(m)'
  <2>1. /\ \A e \in Writers \ {d} : pc'[e] = pc[e] /\ call'[e] = call[e]
        /\ pc'[d] = "idle" \/ call'[d].model = call[d].model
        /\ pc[d] # "idle" /\ d \in Writers
    BY <1>12, <1>t, Constants, LocalsTypes
    DEF Install, InPlace, DeletePart, Renamed, Fail, Leave, Show, Goto, Keep, Rest,
        Locals
  <2>2. CASE call[d].model = m
    <3>1. d \in Working(m)
      BY <2>1, <2>2 DEF Working
    <3>2. InPlace(part[m]) /\ Sound(d) /\ (trusted[m] => final[m] = Whole)
      BY <1>m, <3>1 DEF FilesAt
    <3>3. InPlace(part'[m]) /\ (trusted'[m] => final'[m] = Whole)
      BY <1>12, <1>t, <2>2, <3>2, Constants, LocalsTypes
      DEF Install, InPlace, DeletePart, Renamed, Fail, Leave, Show, Goto, Keep, Rest
    <3>4. ASSUME d \in Working(m)' PROVE Sound(d)'
      BY ZenonT(60), <1>12, <1>t, <2>2, <3>1, <3>2, <3>4, Constants, LocalsTypes
      DEF Install, InPlace, DeletePart, Renamed, Fail, Leave, Show, Goto, Keep,
          Rest, Sound, Working, Whole, Length
    <3> QED
      BY <1>m, <2>1, <3>1, <3>3, <3>4, WorksAlone
  <2>3. CASE call[d].model # m
    <3>1. part'[m] = part[m] /\ final'[m] = final[m] /\ (trusted'[m] => trusted[m])
      BY <1>12, <1>t, <1>m, <2>1, <2>3, LocalsTypes
      DEF Install, InPlace, DeletePart, Renamed, Fail, Leave, Show, Goto, Keep, Rest
    <3>2. \A e \in Writers \ {d} : call[e].model = m => where'[e] = where[e]
      BY <1>12, <1>t, <2>1, <2>3
      DEF Install, InPlace, DeletePart, Renamed, Fail, Leave, Show, Goto, Keep, Rest
    <3> QED
      BY <1>m, <2>1, <2>3, <3>1, <3>2, WorksElsewhere
  <2> QED
    BY <2>2, <2>3
<1>13. ASSUME NEW d \in Downloaders, Settle(d) PROVE FilesAt(m)'
  <2>1. /\ \A e \in Writers \ {d} : pc'[e] = pc[e] /\ call'[e] = call[e]
        /\ pc'[d] = "idle" \/ call'[d].model = call[d].model
        /\ pc[d] # "idle" /\ d \in Writers
    BY <1>13, <1>t, Constants, LocalsTypes DEF Settle, Fail, Leave, Goto
  <2>2. CASE call[d].model = m
    <3>1. d \in Working(m)
      BY <2>1, <2>2 DEF Working
    <3>2. InPlace(part[m]) /\ Sound(d) /\ (trusted[m] => final[m] = Whole)
      BY <1>m, <3>1 DEF FilesAt
    <3>3. InPlace(part'[m]) /\ (trusted'[m] => final'[m] = Whole)
      <4>1. final[m] = Whole
        BY <1>13, <2>2, <3>2 DEF Settle, Sound
      <4>2. Installed(m)
        BY <4>1, WholeIsFile, Constants DEF Installed
      <4>3. UNCHANGED <<part, final>>
        BY <1>13, <2>2, <4>2 DEF Settle
      <4> QED
        BY <3>2, <4>1, <4>3
    <3>4. ASSUME d \in Working(m)' PROVE Sound(d)'
      BY <1>13, <1>t, <2>2, <3>1, <3>2, <3>4, Constants, LocalsTypes
      DEF Settle, Goto, Unlinked, Fail, Leave, Show, Fault, Rest, Sound, Working, Whole, Length
    <3> QED
      BY <1>m, <2>1, <3>1, <3>3, <3>4, WorksAlone
  <2>3. CASE call[d].model # m
    <3>1. part'[m] = part[m] /\ final'[m] = final[m] /\ (trusted'[m] => trusted[m])
      BY <1>13, <1>t, <1>m, <2>1, <2>3, LocalsTypes
      DEF Settle, Goto, Unlinked, Fail, Leave, Show, Fault, Rest
    <3>2. \A e \in Writers \ {d} : call[e].model = m => where'[e] = where[e]
      BY <1>13, <1>t, <2>1, <2>3
      DEF Settle, Goto, Unlinked, Fail, Leave, Show, Fault, Rest
    <3> QED
      BY <1>m, <2>1, <2>3, <3>1, <3>2, WorksElsewhere
  <2> QED
    BY <2>2, <2>3
<1>14. ASSUME NEW n \in Models, Select(n) PROVE FilesAt(m)'
  BY <1>14, <1>t, <1>m, Constants, LeavesAlone DEF Select, Press, Working
<1>15. ASSUME NEW n \in Models, DeleteModel(n) PROVE FilesAt(m)'
  BY <1>15, <1>t, <1>m, Constants, LeavesAlone DEF DeleteModel, Press, Working
<1>16. ASSUME NEW n \in Models, DeleteFiles(n) PROVE FilesAt(m)'
  <2>1. /\ UNCHANGED <<pc, call>>
        /\ contended' = IF Working(n) = {} THEN contended ELSE contended \union {n}
        /\ part' = [part EXCEPT ![n] = NoFile] /\ final' = [final EXCEPT ![n] = NoFile]
        /\ trusted' = [trusted EXCEPT ![n] = FALSE]
        /\ \A e \in Writers : call[e].model # n => where'[e] = where[e]
    BY <1>16 DEF DeleteFiles, RemoveBoth, DeletePart
  <2>2. CASE n # m
    BY <1>t, <1>m, <2>1, <2>2, LeavesAlone DEF Working
  <2>3. CASE n = m
    <3>1. Working(m)' = {}
      BY <1>m, <2>1, <2>3 DEF Working
    <3>2. part'[m] = NoFile /\ trusted'[m] = FALSE
      BY <1>t, <2>1, <2>3
    <3> QED
      BY <3>1, <3>2 DEF FilesAt, InPlace, Alone
  <2> QED
    BY <2>2, <2>3
<1>17. CASE CancelDownload
  BY <1>17, <1>t, <1>m, Constants, LeavesAlone DEF CancelDownload, Press, Working
<1>18. CASE SelectBest
  BY <1>18, <1>t, <1>m, Constants, LeavesAlone DEF SelectBest, Working
<1>19. CASE AdoptLooks
  <2>1. /\ \A e \in Writers \ {Adopter} : pc'[e] = pc[e] /\ call'[e] = call[e]
        /\ pc'[Adopter] = "idle" \/ call'[Adopter].model = call[Adopter].model
        /\ pc[Adopter] # "idle" /\ Adopter \in Writers
    BY <1>19, <1>t, Constants, LocalsTypes
    DEF AdoptLooks, Goto, Unlinked, Fault, Locals
  <2>2. CASE call[Adopter].model = m
    <3>1. Adopter \in Working(m)
      BY <2>1, <2>2 DEF Working
    <3>2. InPlace(part[m]) /\ Sound(Adopter) /\ (trusted[m] => final[m] = Whole)
      BY <1>m, <3>1 DEF FilesAt
    <3>3. InPlace(part'[m]) /\ (trusted'[m] => final'[m] = Whole)
      BY <1>19, <1>t, <2>2, <3>2, Constants, LocalsTypes
      DEF AdoptLooks, Goto, Unlinked, Fault
    <3>4. ASSUME Adopter \in Working(m)' PROVE Sound(Adopter)'
      <4>1. /\ pc[Adopter] = "adopt" /\ pc'[Adopter] = "copy"
            /\ final'[m] = <<>> /\ where'[Adopter] = "final"
            /\ call'[Adopter].sent = call[Adopter].sent
            /\ call'[Adopter].resumes = call[Adopter].resumes /\ call'[Adopter].model = m
        BY <1>19, <1>t, <2>1, <2>2, <3>4, LocalsTypes
        DEF AdoptLooks, Goto, Unlinked, Fault, Working, Locals
      <4>2. Length(<<>>) = 0
        BY Constants DEF Length
      <4>3. call[Adopter].sent = 0 /\ ~call[Adopter].resumes
        BY <3>2, <4>1 DEF Sound
      <4> QED
        BY <4>1, <4>2, <4>3 DEF Sound, Length
    <3> QED
      BY <1>m, <2>1, <3>1, <3>3, <3>4, WorksAlone
  <2>3. CASE call[Adopter].model # m
    <3>1. part'[m] = part[m] /\ final'[m] = final[m] /\ (trusted'[m] => trusted[m])
      BY <1>19, <1>t, <1>m, <2>1, <2>3, LocalsTypes
      DEF AdoptLooks, Goto, Unlinked, Fault
    <3>2. \A e \in Writers \ {Adopter} : call[e].model = m => where'[e] = where[e]
      BY <1>19, <1>t, <2>1, <2>3 DEF AdoptLooks, Goto, Unlinked, Fault
    <3> QED
      BY <1>m, <2>1, <2>3, <3>1, <3>2, WorksElsewhere
  <2> QED
    BY <2>2, <2>3
<1>20. CASE AdoptCopies
  <2>1. /\ \A e \in Writers \ {Adopter} : pc'[e] = pc[e] /\ call'[e] = call[e]
        /\ pc'[Adopter] = "idle" \/ call'[Adopter].model = call[Adopter].model
        /\ pc[Adopter] # "idle" /\ Adopter \in Writers
    BY <1>20, <1>t, Constants, LocalsTypes DEF AdoptCopies, Locals
  <2>2. CASE call[Adopter].model = m
    <3>1. Adopter \in Working(m)
      BY <2>1, <2>2 DEF Working
    <3>2. InPlace(part[m]) /\ Sound(Adopter) /\ (trusted[m] => final[m] = Whole)
      BY <1>m, <3>1 DEF FilesAt
    <3>3. InPlace(part'[m]) /\ (trusted'[m] => final'[m] = Whole)
      BY <1>20, <1>t, <2>2, <3>2, Constants, LocalsTypes DEF AdoptCopies
    <3>4. ASSUME Adopter \in Working(m)' PROVE Sound(Adopter)'
      <4>1. /\ pc[Adopter] = "copy" /\ pc'[Adopter] = "copy"
            /\ call[Adopter] \in Locals /\ call[Adopter].sent < Size
            /\ call'[Adopter].sent = call[Adopter].sent + 1
            /\ call'[Adopter].resumes = call[Adopter].resumes /\ call'[Adopter].model = m
            /\ where'[Adopter] = where[Adopter]
        BY <1>20, <1>t, <2>1, <2>2, LocalsTypes DEF AdoptCopies, Locals
      <4>2. ~call[Adopter].resumes
        BY <3>2, <4>1 DEF Sound
      <4>3. ASSUME where[Adopter] = "final" PROVE Length(final'[m]) = call'[Adopter].sent
        <5>1. final[m] # NoFile /\ final[m] \in Seq(0..Size)
          BY <1>t, <2>1, <2>2, <4>3 DEF Streams, Contents
        <5>2. Len(final[m]) = call[Adopter].sent
          BY <2>2, <3>2, <4>1, <4>3, <5>1 DEF Sound, Length
        <5>3. final'[m] = Written(final[m], Adopter)
          BY <1>20, <1>t, <2>2, <4>3 DEF AdoptCopies
        <5> QED
          BY <2>1, <4>1, <5>1, <5>2, <5>3, WrittenIsFile DEF Length
      <4> QED
        BY <4>1, <4>2, <4>3 DEF Sound
    <3> QED
      BY <1>m, <2>1, <3>1, <3>3, <3>4, WorksAlone
  <2>3. CASE call[Adopter].model # m
    <3>1. part'[m] = part[m] /\ final'[m] = final[m] /\ (trusted'[m] => trusted[m])
      BY <1>20, <1>t, <1>m, <2>1, <2>3, LocalsTypes DEF AdoptCopies
    <3>2. \A e \in Writers \ {Adopter} : call[e].model = m => where'[e] = where[e]
      BY <1>20, <1>t, <2>1, <2>3 DEF AdoptCopies
    <3> QED
      BY <1>m, <2>1, <2>3, <3>1, <3>2, WorksElsewhere
  <2> QED
    BY <2>2, <2>3
<1>21. CASE AdoptVerifies
  <2>1. /\ \A e \in Writers \ {Adopter} : pc'[e] = pc[e] /\ call'[e] = call[e]
        /\ pc'[Adopter] = "idle" \/ call'[Adopter].model = call[Adopter].model
        /\ pc[Adopter] # "idle" /\ Adopter \in Writers
    BY <1>21, <1>t, Constants, LocalsTypes
    DEF AdoptVerifies, Goto, Closed, Unlinked, Locals
  <2>2. CASE call[Adopter].model = m
    <3>1. Adopter \in Working(m)
      BY <2>1, <2>2 DEF Working
    <3>2. InPlace(part[m]) /\ Sound(Adopter) /\ (trusted[m] => final[m] = Whole)
      BY <1>m, <3>1 DEF FilesAt
    <3>3. InPlace(part'[m]) /\ (trusted'[m] => final'[m] = Whole)
      BY <1>21, <1>t, <2>2, <3>2, Constants, LocalsTypes
      DEF AdoptVerifies, Goto, Closed, Unlinked
    <3>4. ASSUME Adopter \in Working(m)' PROVE Sound(Adopter)'
      BY <1>21, <1>t, <2>2, <3>1, <3>2, <3>4, Constants, LocalsTypes
      DEF AdoptVerifies, Goto, Closed, Unlinked, Sound, Working, Whole, Length
    <3> QED
      BY <1>m, <2>1, <3>1, <3>3, <3>4, WorksAlone
  <2>3. CASE call[Adopter].model # m
    <3>1. part'[m] = part[m] /\ final'[m] = final[m] /\ (trusted'[m] => trusted[m])
      BY <1>21, <1>t, <1>m, <2>1, <2>3, LocalsTypes
      DEF AdoptVerifies, Goto, Closed, Unlinked
    <3>2. \A e \in Writers \ {Adopter} : call[e].model = m => where'[e] = where[e]
      BY <1>21, <1>t, <2>1, <2>3 DEF AdoptVerifies, Goto, Closed, Unlinked
    <3> QED
      BY <1>m, <2>1, <2>3, <3>1, <3>2, WorksElsewhere
  <2> QED
    BY <2>2, <2>3
<1>22. CASE Crash
  <2>1. /\ UNCHANGED <<part, final>> /\ trusted' = [k \in Models |-> FALSE]
        /\ pc' = AtStart
    BY <1>22 DEF Crash
  <2>2. \A e \in Writers : pc'[e] \in {"adopt", "idle"} /\ (pc'[e] # "idle" => e = Adopter)
    BY <2>1 DEF AtStart
  <2>3. \A e \in Writers : ~call'[e].resumes /\ call'[e].sent = 0
    BY <1>22 DEF Crash, NoCall
  <2>4. Alone(m)' /\ \A e \in Working(m)' : Sound(e)'
    BY <2>2, <2>3 DEF Alone, Working, Sound
  <2> QED
    BY <1>m, <2>1, <2>4 DEF FilesAt, InPlace
<1>23. CASE UNCHANGED vars
  BY <1>23, <1>t, <1>m, Constants, LeavesAlone DEF vars, Working
<1> QED
  BY <1>1, <1>2, <1>3, <1>4, <1>5, <1>6, <1>7, <1>8, <1>9, <1>10, <1>11, <1>12,
      <1>13, <1>14, <1>15, <1>16, <1>17, <1>18, <1>19, <1>20, <1>21, <1>22, <1>23
  DEF Next, Proceed, Adopt

\* The invariant holds at the start of the process.
LEMMA InitInv == ASSUME Init PROVE IInv
<1> USE DEF Init
<1>1. <<0>> \in Contents
  BY Constants DEF Contents
<1>2. final \in [Models -> Contents]
  BY <1>1, WholeIsFile DEF Contents
<1>3. call \in [Writers -> Locals]
  BY LocalsTypes
<1>4. pc \in [Writers -> Steps]
  BY DEF AtStart, Steps
<1>5. selected \in Models \union {NoModel}
  OBVIOUS
<1>8. part \in [Models -> Contents]
  BY DEF Contents
<1>9. where \in [Writers -> {"closed", "part", "final", "nowhere"}]
      /\ \A w \in Writers : where[w] = "closed"
  OBVIOUS
<1>10. faults \in 0..MaxFaults /\ presses \in 0..MaxPresses
  BY Constants
<1>11. /\ trusted \in [Models -> BOOLEAN] /\ removing \in [Models -> BOOLEAN]
       /\ cancelRequested \in BOOLEAN /\ screen \in Models \union {NoModel}
       /\ contended \subseteq Models
  OBVIOUS
<1>6. TypeOK
  BY <1>2, <1>3, <1>4, <1>5, <1>8, <1>9, <1>10, <1>11 DEF TypeOK
<1>7. ASSUME NEW m \in Models PROVE FilesAt(m)
  <2>1. \A d \in Working(m) :
           d = Adopter /\ pc[d] = "adopt" /\ ~call[d].resumes /\ call[d].sent = 0
    BY DEF Working, AtStart, NoCall
  <2> QED
    BY <2>1 DEF FilesAt, Alone, InPlace, Sound
<1> QED
  BY <1>6, <1>7 DEF IInv, Streams, FileInv

\* Every step keeps the invariant.
LEMMA Invariance == ASSUME IInv, [Next]_vars PROVE IInv'
<1>0. TypeOK /\ Streams /\ FileInv
  BY DEF IInv
<1>1. Streams'
  BY <1>0, StreamsStep
<1>2. TypeOK'
  BY <1>0, <1>1, CallsStep, FilesTypes, ControlTypes, BoundsTypes
  DEF TypeOK, Control, Streams
<1>3. FileInv'
  BY <1>0, <1>1, FilesStep DEF FileInv
<1> QED
  BY <1>1, <1>2, <1>3 DEF IInv

\* ModelManager's fields, the locals of its calls and the two files of each model
\* always have their types.
THEOREM TypeCorrect == Spec => []TypeOK
<1>1. IInv => TypeOK
  BY DEF IInv
<1> QED
  BY <1>1, InitInv, Invariance, PTL DEF Spec

\* isModelReady() accepts the model and nothing else: whatever download(),
\* repair(), delete(), adoptExistingModels() and kills of the process did before,
\* as long as no two calls have worked on that model at once.
THEOREM TrustedIsWhole == Spec => []TrustedModelIsWhole
<1>1. IInv => TrustedModelIsWhole
  BY DEF IInv, FileInv, FilesAt, TrustedModelIsWhole, Ready
<1> QED
  BY <1>1, InitInv, Invariance, PTL DEF Spec

\* Under the same condition the .part file that download() resumes has each block
\* at its place, however often it was resumed or started again.
THEOREM PartsAreInPlace == Spec => []PartIsInPlace
<1>1. ASSUME IInv PROVE PartIsInPlace
  <2>1. \A m \in Models \ contended : part[m] # NoFile =>
           part[m] \in Seq(0..Size) /\ InPlace(part[m])
    BY <1>1 DEF IInv, FileInv, FilesAt, TypeOK, Contents
  <2>2. \A s \in Seq(0..Size) : DOMAIN s = 1..Len(s)
    OBVIOUS
  <2> QED
    BY <2>1, <2>2 DEF PartIsInPlace, InPlace
<1> QED
  BY <1>1, InitInv, Invariance, PTL DEF Spec

\* A usable model is the model, and a step that is not the user's leaves it so.
LEMMA StaysWhole ==
    ASSUME IInv, [Next]_vars, NEW m \in Models \ contended, final[m] = Whole,
           ~UserRemoves(m)
    PROVE  final'[m] = Whole
<1> USE DEF files, calls, bounds
<1>t. /\ call \in [Writers -> Locals] /\ part \in [Models -> Contents]
      /\ final \in [Models -> Contents] /\ pc \in [Writers -> Steps]
      /\ FilesAt(m) /\ Streams
  BY DEF IInv, TypeOK, FileInv
<1>s. \A d \in Writers : call[d].model \in Models /\ call[d].sent \in 0..Size
  BY <1>t, LocalsTypes
<1>w. Installed(m) /\ Ready(m) /\ Length(final[m]) = Size
  BY WholeIsFile, Constants DEF Installed, Ready, Length, Whole
<1>d. ASSUME NEW d \in Writers, call[d].model = m, pc[d] # "idle" PROVE Sound(d)
  BY <1>t, <1>d DEF FilesAt, Working
<1>1. ASSUME NEW d \in Downloaders, NEW n \in Wanted, Download(d, n) PROVE final'[m] = Whole
  BY <1>1 DEF Download
<1>2. ASSUME NEW d \in Downloaders, NEW n \in Wanted, Repair(d, n) PROVE final'[m] = Whole
  BY <1>2, <1>t DEF Repair, RemoveBoth, UserRemoves
<1>3. ASSUME NEW d \in Downloaders, LookAtInstalled(d) PROVE final'[m] = Whole
  BY <1>3, <1>t, <1>w DEF LookAtInstalled
<1>4. ASSUME NEW d \in Downloaders,
             Measure(d) \/ Connect(d) \/ DropPart(d) \/ Open(d) \/ LoopHead(d) \/
             ReadEnds(d) \/ CheckPart(d)
      PROVE  final'[m] = Whole
  BY <1>4 DEF Measure, Connect, DropPart, Open, LoopHead, ReadEnds, CheckPart
<1>5. ASSUME NEW d \in Downloaders, ReadBlock(d) PROVE final'[m] = Whole
  <2>1. d \in Writers /\ pc[d] = "read"
    BY <1>5 DEF ReadBlock, Writers
  <2>2. call[d].model = m => where[d] # "final"
    BY <1>d, <2>1 DEF Sound
  <2> QED
    BY <1>5, <1>t, <2>2 DEF ReadBlock
<1>6. ASSUME NEW d \in Downloaders, Install(d) PROVE final'[m] = Whole
  <2>1. d \in Writers /\ pc[d] = "install"
    BY <1>6 DEF Install, Writers
  <2>2. call[d].model = m => part[m] = Whole
    BY <1>d, <2>1 DEF Sound
  <2> QED
    BY <1>6, <1>t, <2>2 DEF Install
<1>7. ASSUME NEW d \in Downloaders, Settle(d) PROVE final'[m] = Whole
  BY <1>7, <1>t, <1>w DEF Settle
<1>8. ASSUME NEW n \in Models, Select(n) \/ DeleteModel(n) PROVE final'[m] = Whole
  BY <1>8 DEF Select, DeleteModel
<1>9. ASSUME NEW n \in Models, DeleteFiles(n) PROVE final'[m] = Whole
  BY <1>9, <1>t DEF DeleteFiles, RemoveBoth, UserRemoves
<1>10. CASE CancelDownload \/ SelectBest \/ Crash \/ UNCHANGED vars
  BY <1>10 DEF CancelDownload, SelectBest, Crash, vars
<1>11. CASE AdoptLooks
  BY <1>11, <1>t, <1>w DEF AdoptLooks
<1>12. CASE AdoptCopies
  <2>1. Adopter \in Writers /\ pc[Adopter] = "copy" /\ call[Adopter].sent < Size
    BY <1>12 DEF AdoptCopies, Writers
  <2>2. call[Adopter].model = m /\ where[Adopter] = "final" => FALSE
    BY <1>d, <1>s, <1>w, <2>1, Constants DEF Sound
  <2> QED
    BY <1>12, <1>t, <2>2 DEF AdoptCopies
<1>13. CASE AdoptVerifies
  BY <1>13, <1>t, <1>w DEF AdoptVerifies
<1> QED
  BY <1>1, <1>2, <1>3, <1>4, <1>5, <1>6, <1>7, <1>8, <1>9, <1>10, <1>11, <1>12, <1>13
  DEF Next, Proceed, Adopt

\* A model that isModelReady() accepts stays so until the user deletes or repairs
\* it, as long as no two calls work on it at once.
THEOREM ModelsStay == Spec => ReadyModelStays
<1> DEFINE Stays == \A m \in Models \ contended' : Ready(m) /\ ~Ready(m)' => UserRemoves(m)
<1>1. ASSUME IInv, [Next]_vars PROVE Stays
  <2> SUFFICES ASSUME NEW m \in Models \ contended', Ready(m), ~UserRemoves(m)
               PROVE  Ready(m)'
    OBVIOUS
  <2>1. m \in Models \ contended
    BY <1>1, ContendedGrows
  <2>2. final[m] = Whole
    BY <1>1, <2>1 DEF IInv, FileInv, FilesAt, Ready
  <2>3. final'[m] = Whole
    BY <1>1, <2>1, <2>2, StaysWhole
  <2> QED
    BY <2>3, WholeIsFile, Constants DEF Ready, Installed, Length, Whole
<1>2. IInv /\ [Next]_vars => [Stays]_vars
  BY <1>1
<1> QED
  BY <1>2, InitInv, Invariance, PTL DEF Spec, ReadyModelStays
=============================================================================
