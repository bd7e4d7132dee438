-------------------------- MODULE FetchStepProofs --------------------------
(***************************************************************************)
(* For any number of attempts and any imagery, told apart by size or not:  *)
(* the fetch step meets, keeps and leaves whole files, and is never        *)
(* without one.  For any images and settings with room for them: what is   *)
(* accepted is converted, and an item is true of its files.                *)
(***************************************************************************)
EXTENDS FetchStep, ProcessImage, WellFoundedInduction, TLAPS

Stored  == {"archived", "published", "hashed", "reported", "done"}
Placed  == {"published", "hashed", "reported", "done"}

(* A partial file is the one its pod is building, and whole once it has come. *)
OwnParts   == \A p \in Pods : part[p] # None => part[p].by = p
WholeParts == \A p \in Pods : pod[p].pc \in {"fetched", "archived"} /\ part[p] # None => part[p].whole

(* Whoever is past the archive, or reads from it, leaves something there; the
   cleanup only comes when the step has failed. *)
ObjectThere ==
  step # "purged" => \A p \in Pods :
    pod[p].pc \in Stored \/ (At(p, "streaming") /\ ~pod[p].url) => archive # None

InputThere  == \A p \in Pods : pod[p].pc \in Placed => input # None
SuccessDone == step = "succeeded" => At(attempt, "done")

FilesInv ==
  /\ TypeOK /\ OnlyWholeFiles /\ OwnParts /\ WholeParts
  /\ ObjectThere /\ InputThere /\ SuccessDone /\ NeverStranded /\ SuccessLeavesInput

(* The one pod there is, from what it reads to what it hashed. *)
OnlyAttempt == alone => \A p \in Pods : Live(p) => p = attempt
ChecksumStays == checksum # None => ~source /\ archive # None /\ checksum = archive.version
UrlUnspent ==
  (pod[attempt].pc \in {"found", "streaming"} /\ pod[attempt].url) \/ At(attempt, "fetched") =>
    checksum = None
Building    == pod[attempt].pc \in {"streaming", "fetched", "archived"} => part[attempt] # None
CopiesObject == At(attempt, "streaming") /\ ~pod[attempt].url => part[attempt].version = archive.version
AsArchived  == At(attempt, "archived") => part[attempt].version = archive.version
AsPlaced    == pod[attempt].pc \in Placed => Same
AsHashed    == pod[attempt].pc \in {"hashed", "reported"} => pod[attempt].sum = archive.version

Following == ChecksumStays /\ UrlUnspent /\ Building /\ CopiesObject /\ AsArchived /\ AsPlaced /\ AsHashed
OneFileInv == OnlyAttempt /\ (alone /\ SizesTell /\ step # "purged" => Following)
-----------------------------------------------------------------------------
(* What a pod's step does to the pods. *)
LEMMA PodMoves ==
  ASSUME PodsTyped, NEW p \in Pods, NEW c \in {"none"} \cup Going \cup Ends, To(p, c)
  PROVE  /\ PodsTyped'
         /\ pod'[p].pc = c /\ pod'[p].url = pod[p].url /\ pod'[p].sum = pod[p].sum
         /\ \A q \in Pods \ {p} : pod'[q] = pod[q]
  BY DEF PodsTyped, To

(* What is held of a partial file is a file. *)
LEMMA HeldIsFile ==
  ASSUME NEW f \in Partial \cup File
  PROVE  /\ Held(f) \in File /\ Held(f) # None /\ Held(f).version = f.version
         /\ Held(f).whole = f.whole
  BY NoneIsNoFile DEF Held, File, Partial

(* The first attempt finds nothing, or an object that is whole. *)
LEMMA FilesInit == ASSUME Init PROVE FilesInv /\ OneFileInv
  <1> USE LimitIsPositive, NoneIsNoFile DEF Init
  <1>1. 1 \in Pods
    BY DEF Pods
  <1>2. TypeOK
    BY <1>1 DEF TypeOK, PodsTyped, FilesTyped, RowTyped, ArgoTyped, Going, File, Pods
  <1>3. OnlyWholeFiles /\ NeverStranded
    BY DEF OnlyWholeFiles, NeverStranded, File
  <1>4. OwnParts /\ WholeParts /\ ObjectThere /\ InputThere /\ SuccessDone /\ SuccessLeavesInput
    BY DEF OwnParts, WholeParts, ObjectThere, InputThere, SuccessDone, SuccessLeavesInput, Stored,
           Placed, At
  <1>5. OneFileInv
    BY <1>1 DEF OneFileInv, OnlyAttempt, Following, ChecksumStays, UrlUnspent, Building,
           CopiesObject, AsArchived, AsPlaced, AsHashed, Live, Going, At, Placed
  <1> QED
    BY <1>2, <1>3, <1>4, <1>5 DEF FilesInv

(* Types: of the pods, of the files, of the row, and of what Argo knows. *)
LEMMA StepPods == ASSUME TypeOK, [Next]_vars PROVE PodsTyped'
  <1>1. ASSUME NEW p \in Pods, Choose(p) PROVE PodsTyped'
    BY <1>1 DEF Choose, TypeOK, PodsTyped, RowTyped, Going
  <1>2. ASSUME NEW p \in Pods, Sha256(p) PROVE PodsTyped'
    BY <1>2, ZenonT(60) DEF Sha256, TypeOK, PodsTyped, FilesTyped, File, Going
  <1>3. ASSUME NEW p \in Pods, NEW c \in {"none"} \cup Going \cup Ends, To(p, c) PROVE PodsTyped'
    BY <1>3, PodMoves DEF TypeOK
  <1>4. CASE Retry
    BY <1>4, <1>3, LimitIsPositive DEF Retry, TypeOK, ArgoTyped, Pods, Going
  <1>5. CASE UNCHANGED pod
    BY <1>5 DEF TypeOK, PodsTyped
  <1> QED
    BY <1>1, <1>2, <1>3, <1>4, <1>5, ZenonT(60)
       DEF Next, Run, vars, ClearWorkspace, Metadata, KeepInput,
       FetchAgain, Choose, NothingToFetch, OpenPartial, FinishPartial, Archive, Publish, Sha256,
       ReportChecksum, Exit, Transient, Permanent, Killed, EndRow, Lose, Retry, Succeed, FailStep,
       ErrorStep, Purge, PurgeFails, TypeOK, ArgoTyped, argo, Going, Ends

(* A pod writes whole records of files. *)
LEMMA StepFiles == ASSUME TypeOK, [Next]_vars PROVE FilesTyped'
  <1> USE HeldIsFile DEF TypeOK, FilesTyped, PartialFor, Partial
  <1>1. ASSUME NEW p \in Pods, ClearWorkspace(p) PROVE FilesTyped'
    BY <1>1 DEF ClearWorkspace
  <1>2. ASSUME NEW p \in Pods, OpenPartial(p) PROVE FilesTyped'
    BY <1>2 DEF OpenPartial
  <1>3. ASSUME NEW p \in Pods, FinishPartial(p) PROVE FilesTyped'
    <2>1. CASE part' = part
      BY <1>3, <2>1 DEF FinishPartial
    <2>2. CASE part[p] # None /\ part' = [part EXCEPT ![p].whole = TRUE]
      <3>1. part'[p] = [part[p] EXCEPT !.whole = TRUE] /\ part[p] \in Partial
        BY <2>2
      <3> QED
        BY <1>3, <2>2, <3>1 DEF FinishPartial
    <2> QED
      BY <1>3, <2>1, <2>2 DEF FinishPartial
  <1>4. ASSUME NEW p \in Pods, Archive(p) PROVE FilesTyped'
    BY <1>4 DEF Archive
  <1>5. ASSUME NEW p \in Pods, Publish(p) PROVE FilesTyped'
    BY <1>5 DEF Publish
  <1>6. CASE Purge
    BY <1>6 DEF Purge
  <1>7. CASE UNCHANGED <<part, input, archive>>
    BY <1>7
  <1> QED
    BY <1>1, <1>2, <1>3, <1>4, <1>5, <1>6, <1>7 DEF Next, Run, vars, ClearWorkspace, Metadata,
       KeepInput, FetchAgain, Choose, NothingToFetch, OpenPartial, FinishPartial, Archive,
       Publish, Sha256, ReportChecksum, Exit, Transient, Permanent, Killed, EndRow, Lose, Retry,
       Succeed, FailStep, ErrorStep, Purge, PurgeFails

(* The row's parts. *)
LEMMA StepRow == ASSUME TypeOK, [Next]_vars PROVE RowTyped'
  BY ZenonT(60)
     DEF Next, Run, vars, ClearWorkspace, Metadata, KeepInput, FetchAgain, Choose, NothingToFetch,
     OpenPartial, FinishPartial, Archive, Publish, Sha256, ReportChecksum, Exit, Transient,
     Permanent, Killed, EndRow, Lose, Retry, Succeed, FailStep, ErrorStep, Purge, PurgeFails, row,
     TypeOK, RowTyped, PodsTyped

(* Argo starts no pod past the limit. *)
LEMMA StepArgo == ASSUME TypeOK, [Next]_vars PROVE ArgoTyped'
  <1> USE DEF TypeOK, ArgoTyped
  <1>1. CASE Retry
    <2>1. attempt' \in Pods
      BY <1>1, LimitIsPositive DEF Retry, Pods
    <2>3. lost' \in BOOLEAN /\ mode' = mode /\ step' = step
      BY <1>1 DEF Retry
    <2>2. alone' \in BOOLEAN
      BY <1>1 DEF Retry
    <2> QED
      BY <2>1, <2>2, <2>3
  <1>2. CASE Lose
    BY <1>2 DEF Lose
  <1>3. CASE Succeed \/ FailStep \/ ErrorStep \/ Purge \/ PurgeFails
    BY <1>3 DEF Succeed, FailStep, ErrorStep, Purge, PurgeFails
  <1>4. CASE UNCHANGED argo
    BY <1>4 DEF argo
  <1> QED
    BY <1>1, <1>2, <1>3, <1>4 DEF Next, Run, vars, ClearWorkspace, Metadata, KeepInput,
       FetchAgain, Choose, NothingToFetch, OpenPartial, FinishPartial, Archive, Publish, Sha256,
       ReportChecksum, Exit, Transient, Permanent, Killed, EndRow, Lose, Retry, Succeed, FailStep,
       ErrorStep, Purge, PurgeFails

(* Types. *)
LEMMA StepType == ASSUME TypeOK, [Next]_vars PROVE TypeOK'
  BY StepPods, StepFiles, StepRow, StepArgo DEF TypeOK

(* Partial files: a pod opens and finishes its own, others only delete it. *)
LEMMA StepParts == ASSUME FilesInv, [Next]_vars PROVE OwnParts' /\ WholeParts'
  <1> USE DEF FilesInv, TypeOK, FilesTyped, OwnParts, WholeParts, PartialFor
  <1>1. ASSUME NEW p \in Pods, ClearWorkspace(p) PROVE OwnParts' /\ WholeParts'
    BY <1>1 DEF ClearWorkspace
  <1>2. ASSUME NEW p \in Pods, OpenPartial(p) PROVE OwnParts' /\ WholeParts'
    BY <1>2, PodMoves DEF OpenPartial, Going
  <1>3. ASSUME NEW p \in Pods, FinishPartial(p) PROVE OwnParts' /\ WholeParts'
    <2>1. \A q \in Pods \ {p} : part'[q] = part[q] /\ pod'[q] = pod[q]
      BY <1>3 DEF FinishPartial, PodsTyped, To
    <2>2. CASE part[p] = None
      BY <1>3, <2>1, <2>2 DEF FinishPartial
    <2>3. CASE part[p] # None
      <3>1. part[p] \in Partial /\ part[p].by = p
        BY <2>3
      <3>2. part'[p] = [part[p] EXCEPT !.whole = TRUE]
        BY <1>3, <2>3, <3>1 DEF FinishPartial
      <3>3. part'[p].by = p /\ part'[p].whole
        BY <3>1, <3>2 DEF Partial
      <3> QED
        BY <2>1, <3>3
    <2> QED
      BY <2>2, <2>3
  <1>4. ASSUME NEW p \in Pods, Archive(p) \/ Publish(p) PROVE OwnParts' /\ WholeParts'
    BY <1>4 DEF Archive, Publish, To, At, PodsTyped
  <1>5. ASSUME UNCHANGED part, \A p \in Pods : pod'[p].pc \in {"fetched", "archived"} => pod'[p].pc = pod[p].pc
        PROVE  OwnParts' /\ WholeParts'
    BY <1>5
  <1>6. ASSUME UNCHANGED part, NEW p \in Pods, NEW c \in {"none"} \cup Going \cup Ends, To(p, c),
               c \notin {"fetched", "archived"}
        PROVE  OwnParts' /\ WholeParts'
    BY <1>5, <1>6, PodMoves
  <1>7. CASE Retry
    BY <1>6, <1>7, LimitIsPositive DEF Retry, Pods, ArgoTyped, Going
  <1>8. CASE Lose
    BY <1>5, <1>6, <1>8 DEF Lose, ArgoTyped, Ends
  <1>9. ASSUME NEW p \in Pods, Choose(p) \/ Sha256(p) PROVE OwnParts' /\ WholeParts'
    BY <1>5, <1>9 DEF Choose, Sha256, PodsTyped
  <1> QED
    BY <1>1, <1>2, <1>3, <1>4, <1>5, <1>6, <1>7, <1>8, <1>9 DEF Next, Run, vars, ClearWorkspace,
       Metadata, KeepInput, FetchAgain, Choose, NothingToFetch, OpenPartial, FinishPartial,
       Archive, Publish, Sha256, ReportChecksum, Exit, Transient, Permanent, Killed, EndRow, Lose,
       Retry, Succeed, FailStep, ErrorStep, Purge, PurgeFails, Going, Ends

(* The input and the object are made from files that are whole. *)
LEMMA StepWhole == ASSUME FilesInv, [Next]_vars PROVE OnlyWholeFiles'
  <1> USE DEF FilesInv, OnlyWholeFiles
  <1>1. ASSUME NEW p \in Pods, Archive(p) \/ Publish(p) PROVE OnlyWholeFiles'
    BY <1>1, HeldIsFile DEF Archive, Publish, At, PartialFor, WholeParts, TypeOK, FilesTyped
  <1>2. CASE Purge
    BY <1>2 DEF Purge
  <1>3. CASE UNCHANGED <<input, archive>>
    BY <1>3
  <1> QED
    BY <1>1, <1>2, <1>3 DEF Next, Run, vars, ClearWorkspace, Metadata, KeepInput, FetchAgain,
       Choose, NothingToFetch, OpenPartial, FinishPartial, Archive, Publish, Sha256,
       ReportChecksum, Exit, Transient, Permanent, Killed, EndRow, Lose, Retry, Succeed, FailStep,
       ErrorStep, Purge, PurgeFails

(* The input is only ever replaced; so is the object, but for the cleanup. *)
LEMMA FilesStay ==
  ASSUME TypeOK, [Next]_vars
  PROVE  /\ input # None => input' # None
         /\ archive # None /\ step' # "purged" => archive' # None
  <1>1. ASSUME NEW p \in Pods, Archive(p) \/ Publish(p)
        PROVE  (input # None => input' # None) /\ (archive # None => archive' # None)
    BY <1>1, HeldIsFile DEF Archive, Publish, PartialFor, TypeOK, FilesTyped
  <1>2. CASE Purge
    BY <1>2 DEF Purge
  <1>3. CASE UNCHANGED <<input, archive>>
    BY <1>3, SMTT(60)
  <1> QED
    BY <1>1, <1>2, <1>3 DEF Next, Run, vars, ClearWorkspace, Metadata, KeepInput, FetchAgain,
       Choose, NothingToFetch, OpenPartial, FinishPartial, Archive, Publish, Sha256,
       ReportChecksum, Exit, Transient, Permanent, Killed, EndRow, Lose, Retry, Succeed, FailStep,
       ErrorStep, Purge, PurgeFails

(* The steps that bring a pod past the archive, or have it read from there, find
   or leave an object. *)
LEMMA StepObject == ASSUME FilesInv, [Next]_vars PROVE ObjectThere'
  <1> USE DEF FilesInv, TypeOK, ObjectThere, At
  <1>1. ASSUME NEW p \in Pods, OpenPartial(p) \/ FinishPartial(p) PROVE ObjectThere'
    BY <1>1, PodMoves DEF OpenPartial, FinishPartial, Going, argo, Stored
  <1>2. ASSUME NEW p \in Pods, Archive(p) PROVE ObjectThere'
    BY <1>2, HeldIsFile DEF Archive, PartialFor, FilesTyped
  <1>3. ASSUME NEW p \in Pods, KeepInput(p) \/ Publish(p) \/ Exit(p) \/ ReportChecksum(p) PROVE ObjectThere'
    BY <1>3, PodMoves DEF KeepInput, Publish, Exit, ReportChecksum, Going, Ends, argo, Stored
  <1>4. ASSUME NEW p \in Pods, Sha256(p) \/ Choose(p) PROVE ObjectThere'
    BY <1>4 DEF Sha256, Choose, argo, Stored, PodsTyped
  <1>5. ASSUME step' # "purged" => step # "purged", UNCHANGED archive, NEW p \in Pods,
               NEW c \in {"none"} \cup Going \cup Ends, c \notin Stored \cup {"streaming"}, To(p, c)
        PROVE  ObjectThere'
    BY <1>5, PodMoves
  <1>6. ASSUME step' # "purged" => step # "purged", UNCHANGED <<archive, pod>> PROVE ObjectThere'
    BY <1>6
  <1>7. CASE Retry
    BY <1>5, <1>7, LimitIsPositive DEF Retry, ArgoTyped, Pods, Going, Stored
  <1>8. CASE Lose
    BY <1>5, <1>6, <1>8 DEF Lose, ArgoTyped, Ends, Stored
  <1>9. CASE Purge
    BY <1>9 DEF Purge
  <1> QED
    BY <1>1, <1>2, <1>3, <1>4, <1>5, <1>6, <1>7, <1>8, <1>9, ZenonT(60)
       DEF Next, Run, vars, ClearWorkspace,
       Metadata, KeepInput, FetchAgain, Choose, NothingToFetch, OpenPartial, FinishPartial,
       Archive, Publish, Sha256, ReportChecksum, Exit, Transient, Permanent, Killed, EndRow, Lose,
       Retry, Succeed, FailStep, ErrorStep, Purge, PurgeFails, argo, Going, Ends, Stored

(* A pod that got past the input has one. *)
LEMMA StepInput == ASSUME FilesInv, [Next]_vars PROVE InputThere'
  <1> USE DEF FilesInv, TypeOK, InputThere, At
  <1>1. ASSUME NEW p \in Pods, Publish(p) PROVE InputThere'
    BY <1>1, HeldIsFile DEF Publish, PartialFor, FilesTyped
  <1>2. ASSUME NEW p \in Pods, KeepInput(p) \/ Exit(p) \/ ReportChecksum(p) PROVE InputThere'
    BY <1>2, PodMoves DEF KeepInput, Exit, ReportChecksum, Going, Ends, Placed
  <1>3. ASSUME NEW p \in Pods, Sha256(p) \/ Choose(p) PROVE InputThere'
    BY <1>3 DEF Sha256, Choose, Placed, PodsTyped
  <1>4. ASSUME NEW p \in Pods, NEW c \in {"none"} \cup Going \cup Ends, c \notin Placed, To(p, c)
        PROVE  InputThere'
    BY <1>4, PodMoves, FilesStay
  <1>5. CASE UNCHANGED pod
    BY <1>5, FilesStay
  <1>6. CASE Retry
    BY <1>4, <1>6, LimitIsPositive DEF Retry, ArgoTyped, Pods, Going, Placed
  <1>7. CASE Lose
    BY <1>4, <1>5, <1>7, SMTT(60) DEF Lose, ArgoTyped, Ends, Placed
  <1> QED
    BY <1>1, <1>2, <1>3, <1>4, <1>5, <1>6, <1>7 DEF Next, Run, vars, ClearWorkspace, Metadata,
       KeepInput, FetchAgain, Choose, NothingToFetch, OpenPartial, FinishPartial, Archive,
       Publish, Sha256, ReportChecksum, Exit, Transient, Permanent, Killed, EndRow, Lose, Retry,
       Succeed, FailStep, ErrorStep, Purge, PurgeFails, Going, Ends, Placed

(* The attempt Argo saw succeed stays done. *)
LEMMA StepDone == ASSUME FilesInv, [Next]_vars PROVE SuccessDone'
  <1> USE DEF FilesInv, TypeOK, SuccessDone, ArgoTyped, At
  <1>1. ASSUME NEW p \in Pods, NEW c \in {"none"} \cup Going \cup Ends, To(p, c), pod[p].pc # "done",
               UNCHANGED argo
        PROVE  SuccessDone'
    BY <1>1, PodMoves DEF argo
  <1>2. ASSUME NEW p \in Pods, Sha256(p) \/ Choose(p) PROVE SuccessDone'
    BY <1>2 DEF Sha256, Choose, PodsTyped, argo
  <1>3. CASE Retry \/ Lose
    BY <1>3 DEF Retry, Lose
  <1>4. CASE Succeed \/ FailStep \/ ErrorStep \/ Purge \/ PurgeFails
    BY <1>4 DEF Succeed, FailStep, ErrorStep, Purge, PurgeFails
  <1>5. CASE UNCHANGED <<pod, argo>>
    BY <1>5 DEF argo
  <1> QED
    BY <1>1, <1>2, <1>3, <1>4, <1>5, ZenonT(60)
       DEF Next, Run, vars, ClearWorkspace, Metadata, KeepInput,
       FetchAgain, Choose, NothingToFetch, OpenPartial, FinishPartial, Archive, Publish, Sha256,
       ReportChecksum, Exit, Transient, Permanent, Killed, EndRow, Lose, Retry, Succeed, FailStep,
       ErrorStep, Purge, PurgeFails, Live, Going, Ends

(* The source URL goes once the original is stored, or with the row. *)
LEMMA StepStranded == ASSUME FilesInv, [Next]_vars PROVE NeverStranded'
  <1> USE DEF FilesInv, TypeOK, NeverStranded, At
  <1>1. ASSUME NEW p \in Pods, ReportChecksum(p) PROVE NeverStranded'
    BY <1>1 DEF ReportChecksum, ObjectThere, Stored, argo
  <1>2. ASSUME NEW p \in Pods, NothingToFetch(p) \/ Permanent(p) PROVE NeverStranded'
    BY <1>2 DEF NothingToFetch, Permanent, argo
  <1>3. ASSUME step' = "running" => step = "running" /\ (archive # None => archive' # None),
               open' => open, UNCHANGED source
        PROVE  NeverStranded'
    BY <1>3
  <1>4. step' = "running" => step = "running" /\ (archive # None => archive' # None)
    BY FilesStay DEF Next, Run, vars, ClearWorkspace, Metadata, KeepInput, FetchAgain, Choose,
       NothingToFetch, OpenPartial, FinishPartial, Archive, Publish, Sha256, ReportChecksum, Exit,
       Transient, Permanent, Killed, EndRow, Lose, Retry, Succeed, FailStep, ErrorStep, Purge,
       PurgeFails, argo
  <1>5. CASE EndRow
    BY <1>5 DEF EndRow
  <1> QED
    BY <1>1, <1>2, <1>3, <1>4, <1>5 DEF Next, Run, vars, ClearWorkspace, Metadata, KeepInput,
       FetchAgain, Choose, NothingToFetch, OpenPartial, FinishPartial, Archive, Publish, Sha256,
       ReportChecksum, Exit, Transient, Permanent, Killed, EndRow, Lose, Retry, Succeed, FailStep,
       ErrorStep, Purge, PurgeFails, row

(* The files stay whole and in place. *)
LEMMA FilesNext == ASSUME FilesInv, [Next]_vars PROVE FilesInv'
  <1>1. TypeOK' /\ OnlyWholeFiles' /\ OwnParts' /\ WholeParts' /\ ObjectThere' /\ InputThere' /\ SuccessDone' /\ NeverStranded'
    BY StepType, StepParts, StepWhole, StepObject, StepInput, StepDone, StepStranded DEF FilesInv
  <1>2. SuccessLeavesInput'
    BY <1>1 DEF SuccessLeavesInput, SuccessDone, ObjectThere, InputThere, TypeOK, ArgoTyped, At,
       Stored, Placed
  <1> QED
    BY <1>1, <1>2 DEF FilesInv

(* While no two pods have run at once, the one that runs is the attempt. *)
LEMMA StepAlone == ASSUME TypeOK, OnlyAttempt, [Next]_vars PROVE OnlyAttempt'
  <1> USE DEF TypeOK, OnlyAttempt, Live
  <1>1. ASSUME NEW p \in Pods, NEW c \in {"none"} \cup Going \cup Ends, To(p, c), Live(p), UNCHANGED argo
        PROVE  OnlyAttempt'
    BY <1>1, PodMoves DEF argo
  <1>2. ASSUME NEW p \in Pods, Sha256(p) \/ Choose(p) PROVE OnlyAttempt'
    BY <1>2 DEF Sha256, Choose, PodsTyped, argo, At, Going
  <1>3. CASE Retry
    <2>1. attempt + 1 \in Pods
      BY <1>3, LimitIsPositive DEF Retry, ArgoTyped, Pods
    <2>2. \A q \in Pods \ {attempt + 1} : pod'[q] = pod[q]
      BY <1>3, <2>1, PodMoves DEF Retry, Going
    <2> QED
      BY <1>3, <2>2 DEF Retry
  <1>4. CASE Lose
    <2>1. CASE UNCHANGED pod
      BY <1>4, <2>1 DEF Lose
    <2>2. CASE To(attempt, "killed")
      BY <1>4, <2>2, PodMoves DEF Lose, ArgoTyped, Ends
    <2> QED
      BY <1>4, <2>1, <2>2 DEF Lose
  <1>5. CASE UNCHANGED <<pod, attempt, alone>>
    BY <1>5
  <1> QED
    BY <1>1, <1>2, <1>3, <1>4, <1>5, ZenonT(60)
       DEF Next, Run, vars, ClearWorkspace, Metadata, KeepInput,
       FetchAgain, Choose, NothingToFetch, OpenPartial, FinishPartial, Archive, Publish, Sha256,
       ReportChecksum, Exit, Transient, Permanent, Killed, EndRow, Lose, Retry, Succeed, FailStep,
       ErrorStep, Purge, PurgeFails, argo, At, Going, Ends

(* Such an attempt, among versions told apart by size, archives, places and
   hashes one version. *)
LEMMA StepFollowing ==
  ASSUME FilesInv, OneFileInv, [Next]_vars, alone', SizesTell, step' # "purged" PROVE Following'
  <1> USE DEF FilesInv, TypeOK, At
  <1>1. alone /\ step # "purged" /\ Following
    BY ZenonT(60)
       DEF OneFileInv, Next, Run, vars, ClearWorkspace, Metadata, KeepInput, FetchAgain, Choose,
       NothingToFetch, OpenPartial, FinishPartial, Archive, Publish, Sha256, ReportChecksum, Exit,
       Transient, Permanent, Killed, EndRow, Lose, Retry, Succeed, FailStep, ErrorStep, Purge,
       PurgeFails, argo
  <1>2. \A p \in Pods : Live(p) => p = attempt
    BY <1>1 DEF OneFileInv, OnlyAttempt
  <1> USE <1>1, <1>2 DEF Following, ChecksumStays, UrlUnspent, Building, CopiesObject, AsArchived, AsPlaced, AsHashed
  <1>3. ASSUME NEW p \in Pods, ClearWorkspace(p) \/ Metadata(p) \/ FetchAgain(p) PROVE Following'
    BY <1>3, PodMoves DEF ClearWorkspace, Metadata, FetchAgain, row, argo, Live, Going, Placed
  <1>4. ASSUME NEW p \in Pods, KeepInput(p) PROVE Following'
    BY <1>4, PodMoves DEF KeepInput, row, argo, Live, Going, Placed, Same
  <1>5. ASSUME NEW p \in Pods, Choose(p) PROVE Following'
    BY <1>5 DEF Choose, row, argo, Live, Going, Placed, PodsTyped
  <1>6. ASSUME NEW p \in Pods, NothingToFetch(p) \/ Permanent(p) PROVE Following'
    <2>1. To(p, "permanent") /\ p = attempt /\ UNCHANGED <<attempt, part, input, archive, checksum>>
      BY <1>6 DEF NothingToFetch, Permanent, argo, Live, Going
    <2>2. source' => source
      BY <1>6 DEF NothingToFetch, Permanent
    <2> QED
      BY <2>1, <2>2, PodMoves DEF Ends, Placed
  <1>7. ASSUME NEW p \in Pods, OpenPartial(p) PROVE Following'
    <2>1. PICK v \in Versions :
            /\ ~pod[p].url => archive # None /\ v = archive.version
            /\ part' = [part EXCEPT ![p] = [by |-> p, version |-> v, whole |-> FALSE]]
      BY <1>7 DEF OpenPartial, PartialFor
    <2>4. [by |-> p, version |-> v, whole |-> FALSE] \in Partial
      BY DEF Partial
    <2>2. part'[p] # None /\ part'[p].version = v
      BY <2>1, <2>4, NoneIsNoFile DEF FilesTyped
    <2>3. At(p, "found") /\ To(p, "streaming") /\ p = attempt /\ UNCHANGED <<attempt, input, archive, checksum, source>>
      BY <1>7 DEF OpenPartial, row, argo, Live, Going
    <2> QED
      BY <2>1, <2>2, <2>3, PodMoves DEF Going, Placed
  <1>8. ASSUME NEW p \in Pods, FinishPartial(p) PROVE Following'
    <2>1. /\ At(p, "streaming") /\ To(p, IF pod[p].url THEN "fetched" ELSE "archived") /\ p = attempt
          /\ UNCHANGED <<attempt, input, archive, checksum, source>>
      BY <1>8 DEF FinishPartial, row, argo, Live, Going
    <2>2. part[p] \in Partial
      BY <2>1 DEF FilesTyped
    <2>4. part'[p] = part[p] \/ part'[p] = [part[p] EXCEPT !.whole = TRUE]
      BY <1>8 DEF FinishPartial, PartialFor, FilesTyped
    <2>3. part'[p] \in Partial /\ part'[p].version = part[p].version
      BY <2>2, <2>4 DEF Partial
    <2> QED
      BY <2>1, <2>3, PodMoves, NoneIsNoFile DEF Going, Placed
  <1>9. ASSUME NEW p \in Pods, Archive(p) PROVE Following'
    <2>1. /\ At(p, "fetched") /\ To(p, "archived") /\ p = attempt /\ archive' = Held(part[p])
          /\ UNCHANGED <<attempt, part, input, checksum, source>> /\ part[p] # None
      BY <1>9 DEF Archive, row, argo, Live, Going, PartialFor
    <2>2. archive' # None /\ archive'.version = part[p].version
      BY <2>1, HeldIsFile DEF FilesTyped
    <2>3. checksum = None
      BY <2>1
    <2> QED
      BY <2>1, <2>2, <2>3, PodMoves DEF Going, Placed
  <1>10. ASSUME NEW p \in Pods, Publish(p) PROVE Following'
    <2>1. /\ At(p, "archived") /\ To(p, "published") /\ p = attempt /\ input' = Held(part[p]) /\ part[p] # None
          /\ UNCHANGED <<attempt, archive, checksum, source>>
      BY <1>10 DEF Publish, row, argo, Live, Going, PartialFor
    <2>2. part[p] \in Partial /\ part[p].whole /\ part[p].version = archive.version
      BY <2>1 DEF FilesTyped, WholeParts
    <2>3. archive # None /\ archive \in File /\ archive.whole
      BY <2>1 DEF ObjectThere, Stored, FilesTyped, OnlyWholeFiles
    <2>4. input' # None /\ Held(input') = Held(archive)
      BY <2>1, <2>2, <2>3, HeldIsFile DEF Held, File, Partial
    <2> QED
      BY <2>1, <2>3, <2>4, PodMoves DEF Going, Placed, Same
  <1>11. ASSUME NEW p \in Pods, Sha256(p) PROVE Following'
    BY <1>11 DEF Sha256, row, argo, Live, Going, Placed, PodsTyped, Same, Held
  <1>12. ASSUME NEW p \in Pods, ReportChecksum(p) PROVE Following'
    BY <1>12, PodMoves DEF ReportChecksum, argo, Live, Going, Placed, ObjectThere, Stored, Same
  <1>13. ASSUME NEW p \in Pods, Exit(p) \/ Transient(p) \/ Killed(p) PROVE Following'
    BY <1>13, PodMoves DEF Exit, Transient, Killed, row, argo, Live, Going, Ends, Placed, Same
  <1>14. CASE EndRow
    BY <1>14 DEF EndRow, argo, Same
  <1>15. CASE Lose
    <2>1. CASE UNCHANGED pod
      BY <1>15, <2>1 DEF Lose, row, Same
    <2>2. CASE To(attempt, "killed")
      BY <1>15, <2>2, PodMoves DEF Lose, row, ArgoTyped, Ends, Placed
    <2> QED
      BY <1>15, <2>1, <2>2 DEF Lose
  <1>16. CASE Retry
    <2>1. attempt + 1 \in Pods
      BY <1>16, LimitIsPositive DEF Retry, ArgoTyped, Pods
    <2>2. pod'[attempt'].pc = "start"
      BY <1>16, <2>1, PodMoves DEF Retry, Going
    <2> QED
      BY <1>16, <2>2 DEF Retry, row, Placed
  <1>17. CASE UNCHANGED <<pod, part, input, archive, row, attempt>>
    BY <1>17 DEF row, Same
  <1> HIDE <1>1, <1>2 DEF FilesInv, TypeOK, At, Following, ChecksumStays, UrlUnspent, Building,
                          CopiesObject, AsArchived, AsPlaced, AsHashed
  <1>18. CASE Succeed \/ FailStep \/ ErrorStep \/ PurgeFails
    BY <1>17, <1>18 DEF Succeed, FailStep, ErrorStep, PurgeFails
  <1>19. CASE UNCHANGED vars
    BY <1>17, <1>19 DEF vars, argo
  <1>20. ~Purge
    BY DEF Purge
  <1> QED
    BY <1>3, <1>4, <1>5, <1>6, <1>7, <1>8, <1>9, <1>10, <1>11, <1>12, <1>13, <1>14, <1>15, <1>16,
       <1>18, <1>19, <1>20 DEF Next, Run

(* Every step keeps it. *)
LEMMA OneFileNext == ASSUME FilesInv, OneFileInv, [Next]_vars PROVE OneFileInv'
  BY StepAlone, StepFollowing DEF OneFileInv, FilesInv

(* What the step works on is whole, and one version. *)
THEOREM FetchWhole == Spec => []OneWholeFile
  <1>1. FilesInv /\ OneFileInv => OneWholeFile
    BY DEF FilesInv, OneFileInv, OneWholeFile, OneVersion, SuccessDone, Following, ChecksumStays,
       AsPlaced,
           Placed, At, Same, Held
  <1> QED
    BY <1>1, FilesInit, FilesNext, OneFileNext, PTL DEF Spec

(* The step always has something to fetch, and then something to leave. *)
THEOREM FetchNeverEmptyHanded == Spec => []NeverEmptyHanded
  <1>1. FilesInv => NeverEmptyHanded
    BY DEF FilesInv, NeverEmptyHanded
  <1> QED
    BY <1>1, FilesInit, FilesNext, PTL DEF Spec

(* No step takes the input away. *)
THEOREM FetchInputStays == Spec => InputStays
  <1>1. ASSUME FilesInv, [Next]_vars PROVE [input # None => input' # None]_vars
    BY <1>1, FilesStay DEF FilesInv
  <1> QED
    BY <1>1, FilesInit, FilesNext, PTL DEF Spec, InputStays
-----------------------------------------------------------------------------
(* The programs: least and greatest. *)
LEMMA LeastCell ==
  ASSUME NEW S \in SUBSET (-24..24), S # {}
  PROVE  /\ Min(S) \in S /\ \A x \in S : Min(S) <= x
         /\ Max(S) \in S /\ \A x \in S : x <= Max(S)
  <1> DEFINE R == {ss \in Nat \X Nat : ss[1] < ss[2]}
  <1>1. IsWellFoundedOn(R, Nat)
    BY NatLessThanWellFounded, Zenon DEF OpToRel
  <1>2. \A x, y \in Nat : <<x, y>> \in R <=> x < y
    OBVIOUS
  <1> HIDE DEF R
  <1>3. ASSUME NEW T \in SUBSET Nat, T # {} PROVE \E m \in T : \A q \in T : m <= q
    <2>1. PICK m \in T : \A q \in T : ~ (<<q, m>> \in R)
      BY <1>1, <1>3, WFMin
    <2>2. ASSUME NEW q \in T PROVE m <= q
      <3>1. m \in Nat /\ q \in Nat
        OBVIOUS
      <3>2. ~(q < m)
        BY <1>2, <2>1, <3>1
      <3> QED BY <3>1, <3>2
    <2> QED BY <2>2
  <1>4. PICK a \in S : TRUE
    OBVIOUS
  <1>5. \A x \in S : x \in Int /\ x + 24 \in Nat /\ 24 - x \in Nat
    OBVIOUS
  <1>6. \E m \in S : \A x \in S : m <= x
    <2> DEFINE T == {n \in Nat : \E x \in S : n = x + 24}
    <2>1. a + 24 \in T
      BY <1>4, <1>5
    <2>2. PICK m \in T : \A q \in T : m <= q
      BY <1>3, <2>1
    <2>3. PICK y \in S : m = y + 24
      BY <2>2
    <2>4. ASSUME NEW x \in S PROVE y <= x
      <3>1. x + 24 \in T
        BY <1>5
      <3>2. y + 24 <= x + 24
        BY <2>2, <2>3, <3>1
      <3> QED BY <1>5, <3>2
    <2> QED BY <2>3, <2>4
  <1>7. \E m \in S : \A x \in S : x <= m
    <2> DEFINE T == {n \in Nat : \E x \in S : n = 24 - x}
    <2>1. 24 - a \in T
      BY <1>4, <1>5
    <2>2. PICK m \in T : \A q \in T : m <= q
      BY <1>3, <2>1
    <2>3. PICK y \in S : m = 24 - y
      BY <2>2
    <2>4. ASSUME NEW x \in S PROVE x <= y
      <3>1. 24 - x \in T
        BY <1>5
      <3>2. 24 - y <= 24 - x
        BY <2>2, <2>3, <3>1
      <3> QED BY <1>5, <3>2
    <2> QED BY <2>3, <2>4
  <1>8. Min(S) \in S /\ \A x \in S : Min(S) <= x
    BY <1>6 DEF Min
  <1>9. Max(S) \in S /\ \A x \in S : x <= Max(S)
    <2>1. Max(S) = CHOOSE m \in S : \A x \in S : m >= x
      BY DEF Max
    <2>2. \E m \in S : \A x \in S : m >= x
      BY <1>5, <1>7
    <2>3. Max(S) \in S /\ \A x \in S : Max(S) >= x
      BY <2>1, <2>2
    <2> QED BY <1>5, <2>3
  <1> QED BY <1>8, <1>9

(* The programs: the volume. *)
LEMMA VolumeHolds ==
  ASSUME NEW i \in Images
  PROVE  /\ Volume(i) \in Nat
         /\ Volume(i) * 95 >= i.size * 100 + 150
         /\ ~i.known => Volume(i) * 95 >= MaxUpload * 100 + 150
  <1>1. PICK s \in 1..MaxUpload : s = i.size
    BY ImagesAreMeasured
  <1>2. PICK w \in Nat : w = s * Multiplier /\ w >= 3 * s
    <2>1. s \in Nat /\ Multiplier \in Nat /\ Multiplier >= 3
      BY VolumesHoldUploads
    <2>2. s * Multiplier \in Nat /\ s * Multiplier >= s * 3
      BY <2>1
    <2> QED BY <2>1, <2>2
  <1>3. CASE ~i.known
    BY <1>1, <1>3, VolumesHoldUploads DEF Volume
  <1>4. CASE i.known
    <2>1. PICK m \in Nat : m = Min({w, MaxVolume}) /\ m \in {w, MaxVolume}
      BY VolumesHoldUploads DEF Min
    <2>2. PICK v \in Nat : v = Max({MinVolume, m}) /\ v >= m
      BY VolumesHoldUploads DEF Max
    <2>3. Volume(i) = v
      BY <1>1, <1>2, <1>4, <2>1, <2>2 DEF Volume
    <2>4. m * 95 >= s * 100 + 150
      BY <1>1, <1>2, <2>1, VolumesHoldUploads
    <2> QED BY <1>1, <1>4, <2>2, <2>3, <2>4
  <1> QED BY <1>3, <1>4

LEMMA AcceptedFits ==
  ASSUME NEW i \in Images, Accepts(i)
  PROVE  i.size * 100 + i.decoded * (IF LossyVisual(i) THEN 90 ELSE 150) <= Volume(i) * 95
  <1>1. PICK v \in Nat : v = Volume(i) /\ v * 95 >= i.size * 100 + 150
                         /\ (~i.known => v * 95 >= MaxUpload * 100 + 150)
    BY VolumeHolds
  <1>2. PICK s \in 1..MaxUpload, d \in Nat : s = i.size /\ d = i.decoded
    BY ImagesAreMeasured
  <1>3. PICK free \in Nat :
          /\ free = v * 95 - (IF i.known THEN i.size ELSE MaxUpload) * 100
          /\ free >= 150 /\ s * 100 + free <= v * 95
    BY <1>1, <1>2, VolumesHoldUploads
  <1>4. free \div 150 \in Nat /\ free \div 150 >= 1 /\ 150 * (free \div 150) <= free
    BY <1>3
  <1>5. PICK q \in Nat : q = free \div 150 /\ q >= 1 /\ 150 * q <= free
    BY <1>4
  <1>6. MaxDecoded(i) = q
    <2>1. Max({1, q}) \in {1, q} /\ Max({1, q}) >= q
      BY DEF Max
    <2>2. Max({1, q}) = q
      BY <1>5, <2>1 DEF Max
    <2> QED BY <1>1, <1>3, <1>5, <2>2 DEF MaxDecoded
  <1>7. LossyVisual(i) <=> ConvertsLossy(i)
    BY DEF LossyVisual, ConvertsLossy
  <1>8. d * 6 <= IF LossyVisual(i) THEN q * 10 ELSE q * 6
    BY <1>2, <1>6, <1>7 DEF Accepts
  <1> QED BY <1>1, <1>2, <1>3, <1>5, <1>8

LEMMA CogFields ==
  ASSUME NEW i, NEW n
  PROVE  /\ Cog(i, n).by = n /\ Cog(i, n).dtype = i.dtype
         /\ LossyVisual(i) => /\ Cog(i, n).lossy /\ Cog(i, n).mask /\ Cog(i, n).bands = 3
                              /\ Cog(i, n).opaque = Valid(i, 3)
         /\ ~LossyVisual(i) => /\ ~Cog(i, n).lossy /\ Cog(i, n).bands = i.bands
                               /\ Cog(i, n).nodata = i.nodata
                               /\ Cog(i, n).opaque = Valid(i, i.bands)
                               /\ Cog(i, n).mask => i.nodata = Nothing
  <1>1. CASE LossyVisual(i)
    <2>1. Cog(i, n) = [lossy |-> TRUE, bands |-> 3, dtype |-> i.dtype, nodata |-> Nothing,
                       mask |-> TRUE, opaque |-> Valid(i, 3), by |-> n]
      BY <1>1 DEF Cog, MaskSource
    <2> QED BY <1>1, <2>1
  <1>2. CASE ~LossyVisual(i)
    <2> DEFINE masked == i.bands = 4 /\ i.fourth = "alpha" /\ i.nodata = Nothing
    <2>1. Cog(i, n) = [lossy |-> FALSE, bands |-> i.bands, dtype |-> i.dtype,
                       nodata |-> i.nodata, mask |-> masked, opaque |-> Valid(i, i.bands),
                       by |-> n]
      BY <1>2 DEF Cog
    <2>2. masked => i.nodata = Nothing
      OBVIOUS
    <2> HIDE DEF masked
    <2> QED BY <1>2, <2>1, <2>2
  <1> QED BY <1>1, <1>2

LEMMA ConvertsWell ==
  ASSUME NEW i \in Images, NEW n
  PROVE  Verifies(i, Cog(i, n)) /\ Cog(i, n).bands >= DataBands(i)
  <1>1. i.bands \in Nat
    BY ImagesAreMeasured
  <1>2. CASE LossyVisual(i)
    <2>1. i.bands \in {3, 4} /\ (i.bands = 4 => i.fourth = "alpha")
      BY <1>2 DEF LossyVisual
    <2> QED BY <1>2, <2>1, CogFields DEF Verifies, DataBands
  <1>3. CASE ~LossyVisual(i)
    BY <1>1, <1>3, CogFields DEF Verifies, DataBands
  <1> QED BY <1>2, <1>3

(* The map draws the valid pixels of the original. *)
LEMMA DrawnAsValid ==
  ASSUME NEW i \in Images, NEW m, NEW n,
         Item(i, Cog(i, m), n).type = "visual" => Cog(i, m).mask
  PROVE  TilePixels(i, Item(i, Cog(i, m), n), Cog(i, m)) = Valid(i, Item(i, Cog(i, m), n).shown)
  <1> DEFINE c     == Cog(i, m)
             type  == ProductType(i, c)
             shown == DisplayBands(type, c)
             nod   == BrowseNodata(type, c)
             item  == Item(i, c, n)
  <1>1. item.type = type /\ item.shown = shown /\ item.nodata = nod
    BY DEF Item
  <1>2. type = "visual" => c.mask
    BY <1>1
  <1>3. TilePixels(i, item, c) = IF nod = Nothing THEN c.opaque ELSE Pixels(i) \ AllAt(nod, shown > 1)
    BY <1>1 DEF TilePixels, RenderQuery
  <1>4. shown \in {1, 3} /\ (c.bands < 3 => shown = 1)
    BY DEF DisplayBands
  <1>5. nod = IF type = "visual" THEN IF c.mask THEN Nothing ELSE 0 ELSE c.nodata
    BY DEF BrowseNodata
  <1>6. CASE LossyVisual(i)
    <2>1. c.opaque = Valid(i, 3) /\ c.bands = 3 /\ c.dtype = "uint8" /\ c.mask
      <3>1. c.opaque = Valid(i, 3) /\ c.bands = 3 /\ c.dtype = i.dtype /\ c.mask
        BY <1>6, CogFields
      <3>2. i.dtype = "uint8"
        BY <1>6 DEF LossyVisual
      <3> QED BY <3>1, <3>2
    <2>2. type = "visual"
      <3>1. Detected(i, c) = "visual"
        <4> HIDE DEF c
        <4> QED BY <2>1 DEF Detected
      <3>2. i.declared \in {"", "visual"}
        BY <1>6 DEF LossyVisual
      <3>3. type = IF i.declared \in ProductTypes THEN i.declared ELSE Detected(i, c)
        BY DEF ProductType
      <3> HIDE DEF c, type
      <3> QED BY <3>1, <3>2, <3>3 DEF ProductTypes
    <2>3. shown = 3
      <3> HIDE DEF c, type
      <3> QED BY <2>1, <2>2 DEF DisplayBands
    <2>4. nod = Nothing
      BY <1>5, <2>1, <2>2
    <2> HIDE DEF c, type, shown, nod, item
    <2>5. TilePixels(i, item, c) = Valid(i, item.shown)
      BY <1>1, <1>3, <2>1, <2>3, <2>4
    <2> QED BY <2>5 DEF c, item
  <1>7. CASE ~LossyVisual(i)
    <2>1. c.nodata = i.nodata /\ c.opaque = Valid(i, i.bands) /\ (c.mask => i.nodata = Nothing)
      BY <1>7, CogFields
    <2> HIDE DEF c, type, shown, nod, item
    <2>2. nod = i.nodata
      BY <1>2, <1>5, <2>1
    <2>3. TilePixels(i, item, c) = Valid(i, shown)
      BY <1>3, <2>1, <2>2 DEF Valid
    <2> QED BY <1>1, <2>3 DEF c, item
  <1> QED BY <1>6, <1>7

-----------------------------------------------------------------------------
(* The programs: where an image is. *)
LEMMA WestEndOf ==
  ASSUME NEW cells \in SUBSET (-12..11), NEW k \in cells
  PROVE  /\ WestEnd(cells, k) \in cells /\ WestEnd(cells, k) <= k
         /\ WestEnd(cells, k)..k \subseteq cells
  <1> DEFINE S == {j \in cells : j <= k /\ j..k \subseteq cells}
  <1>1. k \in Int /\ k <= k /\ k..k \subseteq cells
    OBVIOUS
  <1>2. k \in S /\ \A j \in S : j \in cells
    BY <1>1
  <1> HIDE DEF S
  <1>3. S \in SUBSET (-24..24)
    BY <1>2
  <1>4. Min(S) \in S
    BY <1>2, <1>3, LeastCell
  <1> QED BY <1>4 DEF WestEnd, S

LEMMA Turned ==
  ASSUME NEW k \in -24..24
  PROVE  (k + 12) % 12 = k % 12 /\ (k - 12) % 12 = k % 12 /\ k % 12 \in 0..11
  OBVIOUS

(* A geometry in one piece lies west or east of Greenwich or within the world. *)
LEMMA RunOfLongitude ==
  ASSUME NEW i \in Images, ~Within(i.cells)
  PROVE  LET run == Rejoined(i.cells)
         IN  /\ run \in SUBSET (0..11) /\ run # {}
             /\ \A j, k \in run : k - j <= 5
             /\ \A k \in run : \E j \in i.cells : j % 12 = k % 12
             /\ \A j \in i.cells : \E k \in run : j % 12 = k % 12
  <1>1. PICK C \in SUBSET (-12..11) : C = i.cells /\ C # {}
    BY FootprintsAreWhole
  <1>2. \/ \A j, k \in C : k - j <= 5
        \/ C \subseteq -6..5 /\ \A j, k \in C : j < 0 /\ k >= 0 => k - j >= 7
    BY <1>1, FootprintsAreWhole
  <1>3. (\A k \in C : k >= 0) \/ (\A k \in C : k < 0)
        \/ \A j, k \in C : j < 0 /\ k >= 0 => k - j >= 7
    <2>1. SUFFICES ASSUME NEW j \in C, NEW k \in C, j < 0, k >= 0, \A x, y \in C : y - x <= 5
                   PROVE  FALSE
      BY <1>2
    <2>2. \A x \in C : x \in Int /\ x >= -5 /\ x <= 4
      BY <2>1
    <2>3. C \in SUBSET (-24..24)
      OBVIOUS
    <2>4. /\ Min(C) \in C /\ Max(C) \in C
      BY <1>1, <2>3, LeastCell
    <2>5. Max(C) - Min(C) <= 5
      BY <2>1, <2>4
    <2>6. PICK a \in C, b \in C : a = Min(C) /\ b = Max(C) /\ b - a <= 5
      BY <2>4, <2>5
    <2>7. Within(C)
      BY <2>2, <2>6 DEF Within
    <2> QED BY <1>1, <2>7
  <1>4. ASSUME NEW k \in C PROVE WestEnd(C, k) < 0 <=> k < 0
    <2>1. PICK w \in C : w = WestEnd(C, k) /\ w <= k /\ w..k \subseteq C
      BY WestEndOf
    <2>2. ASSUME w < 0, k >= 0 PROVE FALSE
      <3>1. -1 \in w..k /\ 0 \in w..k
        BY <2>2
      <3>2. -1 \in C /\ 0 \in C
        BY <2>1, <3>1
      <3> QED BY <1>3, <3>2
    <2> QED BY <2>1, <2>2
  <1> DEFINE to(k) == IF k < 0 THEN k + 12 ELSE k
             run   == Rejoined(C)
  <1>5. run = {to(k) : k \in C}
    BY <1>4 DEF Rejoined, Turn
  <1>6. \A k \in C : to(k) \in 0..11 /\ to(k) % 12 = k % 12
    BY Turned
  <1>7. ASSUME NEW j \in C, NEW k \in C PROVE to(k) - to(j) <= 5
    BY <1>2, <1>3
  <1> HIDE DEF to
  <1> HIDE DEF run
  <1>8. /\ run \in SUBSET (0..11) /\ run # {} /\ \A j, k \in run : k - j <= 5
    BY <1>1, <1>5, <1>6, <1>7
  <1>9. /\ \A k \in run : \E j \in C : j % 12 = k % 12
        /\ \A j \in C : \E k \in run : j % 12 = k % 12
    BY <1>5, <1>6
  <1> QED BY <1>1, <1>8, <1>9 DEF run

(* Cut at the antimeridian, it is within the world, and its box holds it. *)
BoxHolds(cells, p) ==
  LET w    == p.box[1]
      e    == IF w < p.box[2] THEN p.box[2] ELSE p.box[2] + Turn
      held == {k % Turn : k \in w..(e - 1)}
  IN  /\ p.cells \subseteq -6..5 /\ e - w <= 6
      /\ {k % Turn : k \in p.cells} = {k % Turn : k \in cells}
      /\ {k % Turn : k \in p.cells} \subseteq held

LEMMA Boxed ==
  ASSUME NEW cells \in SUBSET Int, NEW pieces \in SUBSET (-6..5),
         NEW w \in Int, NEW b \in Int, NEW e \in Int,
         e = IF w < b THEN b ELSE b + 12, e - w <= 6,
         \A k \in pieces : \E j \in cells : j % 12 = k % 12,
         \A j \in cells : \E k \in pieces : j % 12 = k % 12,
         \A k \in pieces : \E j \in w..(e - 1) : j % 12 = k % 12
  PROVE  BoxHolds(cells, [cells |-> pieces, box |-> <<w, b>>])
  <1>1. {k % 12 : k \in pieces} = {k % 12 : k \in cells}
    <2>1. ASSUME NEW k \in pieces PROVE k % 12 \in {j % 12 : j \in cells}
      <3>1. PICK j \in cells : j % 12 = k % 12
        OBVIOUS
      <3> QED BY <3>1
    <2>2. ASSUME NEW j \in cells PROVE j % 12 \in {k % 12 : k \in pieces}
      <3>1. PICK k \in pieces : j % 12 = k % 12
        OBVIOUS
      <3> QED BY <3>1
    <2>3. {k % 12 : k \in pieces} \subseteq {k % 12 : k \in cells}
      BY <2>1
    <2>4. {k % 12 : k \in cells} \subseteq {k % 12 : k \in pieces}
      BY <2>2
    <2> QED BY <2>3, <2>4, Zenon
  <1>2. {k % 12 : k \in pieces} \subseteq {k % 12 : k \in w..(e - 1)}
    <2>1. ASSUME NEW k \in pieces PROVE k % 12 \in {j % 12 : j \in w..(e - 1)}
      <3>1. PICK j \in w..(e - 1) : j % 12 = k % 12
        OBVIOUS
      <3> QED BY <3>1
    <2> QED BY <2>1
  <1> DEFINE p == [cells |-> pieces, box |-> <<w, b>>]
  <1>3. p.cells = pieces /\ p.box[1] = w /\ p.box[2] = b
    OBVIOUS
  <1> HIDE DEF p
  <1>4. BoxHolds(cells, p)
    BY <1>1, <1>2, <1>3 DEF BoxHolds, Turn
  <1> QED BY <1>4 DEF p

LEMMA PlaceHolds == ASSUME NEW i \in Images PROVE BoxHolds(i.cells, Wgs84(i.cells))
  <1>1. PICK C \in SUBSET (-12..11) : C = i.cells /\ C # {}
    BY FootprintsAreWhole
  <1>2. CASE Within(C)
    <2>1. C \in SUBSET (-24..24)
      OBVIOUS
    <2>2. PICK a \in C, b \in C : a = Min(C) /\ b = Max(C) /\ \A k \in C : a <= k /\ k <= b
      BY <1>1, <2>1, LeastCell
    <2>3. -6 <= a /\ b + 1 <= 6 /\ b + 1 - a <= 6 /\ a < b + 1
      BY <1>2, <2>2 DEF Within
    <2>4. Wgs84(C) = [cells |-> C, box |-> <<a, b + 1>>]
      BY <1>2, <2>2 DEF Wgs84
    <2>5. C \in SUBSET (-6..5) /\ \A k \in C : k \in a..((b + 1) - 1)
      BY <2>2, <2>3
    <2>6. PICK v \in Int : v = b + 1
      BY <2>2
    <2>7. C \in SUBSET Int /\ a \in Int /\ a < v /\ v - a <= 6
      BY <2>2, <2>3, <2>6
    <2>8. BoxHolds(C, [cells |-> C, box |-> <<a, v>>])
      BY <2>5, <2>6, <2>7, Boxed
    <2> QED BY <1>1, <2>4, <2>6, <2>8
  <1>3. CASE ~Within(C)
    <2> DEFINE run    == Rejoined(C)
               pieces == {k \in run : k < 6} \cup {k - 12 : k \in {k \in run : k >= 6}}
               east   == {k \in pieces : WestEnd(pieces, k) >= 0}
               west   == pieces \ east
    <2>1. /\ run \in SUBSET (0..11) /\ run # {}
          /\ \A j, k \in run : k - j <= 5
          /\ \A k \in run : \E j \in C : j % 12 = k % 12
          /\ \A j \in C : \E k \in run : j % 12 = k % 12
      BY <1>1, <1>3, RunOfLongitude
    <2>2. Wgs84(C) = IF east # {} /\ west # {}
                     THEN [cells |-> pieces, box |-> <<Min(east), Max(west) + 1>>]
                     ELSE [cells |-> pieces, box |-> <<Min(pieces), Max(pieces) + 1>>]
      BY <1>3 DEF Wgs84, Turn
    <2> HIDE DEF run
    <2>3. \A k \in run : IF k < 6 THEN k \in pieces ELSE k - 12 \in pieces
      BY <2>1
    <2>4. \A k \in pieces : k \in -6..5 /\ IF k >= 0 THEN k \in run ELSE k + 12 \in run
      BY <2>1
    <2>5. /\ \A k \in pieces : \E j \in C : j % 12 = k % 12
          /\ \A j \in C : \E k \in pieces : j % 12 = k % 12
      BY <2>1, <2>3, <2>4, Turned
    <2> HIDE DEF pieces
    <2>6. pieces \in SUBSET (-6..5) /\ pieces # {}
      BY <2>1, <2>3, <2>4
    <2>7. ASSUME NEW k \in pieces PROVE WestEnd(pieces, k) >= 0 <=> k >= 0
      <3> pieces \in SUBSET (-12..11)
        BY <2>6
      <3>1. PICK w \in pieces : w = WestEnd(pieces, k) /\ w <= k /\ w..k \subseteq pieces
        BY WestEndOf
      <3>2. ASSUME w < 0, k >= 0 PROVE FALSE
        <4>1. -1 \in w..k /\ 0 \in w..k
          BY <2>6, <3>2
        <4>2. -1 \in pieces /\ 0 \in pieces
          BY <3>1, <4>1
        <4>3. 11 \in run /\ 0 \in run
          BY <2>4, <4>2
        <4> QED BY <2>1, <4>3
      <3> QED BY <2>6, <3>1, <3>2
    <2>8. \A k \in pieces : (k \in east <=> k >= 0) /\ (k \in west <=> k < 0)
      BY <2>6, <2>7
    <2>9. east \subseteq pieces /\ west \subseteq pieces
      OBVIOUS
    <2> HIDE DEF east, west
    <2>10. CASE east # {} /\ west # {}
      <3>1. east \in SUBSET (-24..24) /\ west \in SUBSET (-24..24)
        BY <2>6, <2>9
      <3>2. PICK a \in east, b \in west :
              a = Min(east) /\ b = Max(west) /\ (\A k \in east : a <= k) /\ \A k \in west : k <= b
        BY <2>10, <3>1, LeastCell
      <3>3. a \in run /\ b + 12 \in run /\ a \in 0..5 /\ b \in -6..(-1)
        BY <2>4, <2>6, <2>8, <2>9, <3>2
      <3>4. b + 12 - a <= 5
        BY <2>1, <3>3
      <3>5. ~(a < b + 1) /\ b + 1 + 12 - a <= 6
        BY <3>3, <3>4
      <3>6. ASSUME NEW k \in pieces PROVE \E j \in a..((b + 1 + 12) - 1) : j % 12 = k % 12
        <4>1. CASE k >= 0
          <5>1. k \in a..((b + 1 + 12) - 1)
            BY <2>6, <2>8, <2>9, <3>2, <3>3, <4>1
          <5> QED BY <5>1
        <4>2. CASE k < 0
          <5>1. k + 12 \in a..((b + 1 + 12) - 1) /\ (k + 12) % 12 = k % 12
            BY <2>6, <2>8, <2>9, <3>2, <3>3, <4>2, Turned
          <5> QED BY <5>1
        <4> QED BY <2>6, <4>1, <4>2
      <3>7. PICK v \in Int, e \in Int : v = b + 1 /\ e = v + 12
        BY <3>3
      <3>8. C \in SUBSET Int /\ a \in Int /\ ~(a < v) /\ e - a <= 6
        BY <3>3, <3>5, <3>7
      <3>9. \A k \in pieces : \E j \in a..(e - 1) : j % 12 = k % 12
        BY <3>6, <3>7
      <3>10. BoxHolds(C, [cells |-> pieces, box |-> <<a, v>>])
        BY <2>5, <2>6, <3>7, <3>8, <3>9, Boxed
      <3> QED BY <1>1, <2>2, <2>10, <3>2, <3>7, <3>10
    <2>11. CASE ~(east # {} /\ west # {})
      <3>1. pieces \in SUBSET (-24..24)
        BY <2>6
      <3>2. PICK a \in pieces, b \in pieces :
              a = Min(pieces) /\ b = Max(pieces) /\ \A k \in pieces : a <= k /\ k <= b
        BY <2>6, <3>1, LeastCell
      <3>3. a < b + 1 /\ b + 1 - a <= 6
        <4>1. (a >= 0 /\ b >= 0) \/ (a < 0 /\ b < 0)
          BY <2>6, <2>8, <2>11, <3>2
        <4>2. b - a <= 5
          BY <2>1, <2>4, <2>6, <3>2, <4>1
        <4> QED BY <2>6, <3>2, <4>2
      <3>4. \A k \in pieces : k \in a..((b + 1) - 1)
        BY <2>6, <3>2
      <3>5. PICK v \in Int : v = b + 1
        BY <2>6
      <3>6. C \in SUBSET Int /\ a \in Int /\ a < v /\ v - a <= 6
        BY <2>6, <3>3, <3>5
      <3>7. \A k \in pieces : \E j \in a..(v - 1) : j % 12 = k % 12
        BY <3>4, <3>5
      <3>8. BoxHolds(C, [cells |-> pieces, box |-> <<a, v>>])
        BY <2>5, <2>6, <3>6, <3>7, Boxed
      <3> QED BY <1>1, <2>2, <2>11, <3>2, <3>5, <3>8
    <2> QED BY <2>10, <2>11
  <1> QED BY <1>2, <1>3

-----------------------------------------------------------------------------
(* The programs: the graph. *)
States == {"waiting", "running", "ok", "failed"}
Kept   == {"input", "meta", "cog", "item", "thumbnail"}

ProcessType ==
  /\ image \in Images \cup {Nothing}
  /\ task \in [Tasks -> States]
  /\ bucket = [o \in Kept |-> bucket[o]]

(* A task is started when those it depends on are settled, which they stay. *)
InGraphOrder ==
  \A t \in Tasks : task[t] # "waiting" =>
    /\ image # Nothing
    /\ \A d \in Depends(t) : task[d] = IF t = "cleanup" THEN "failed" ELSE "ok"

(* What each task has left, once it is through. *)
Validated   == task["validate"] = "ok" => Accepts(image)
CogMade     == cog # Nothing => task["convert"] # "waiting" /\ cog = Cog(image, cog.by)
Converted   == task["convert"] = "ok" => cog # Nothing /\ sidecar = [lossy |-> cog.lossy, by |-> cog.by]
Drafted     == /\ task["metadata"] = "ok" => draft = Item(image, cog, draft.by)
               /\ draft # Nothing => task["metadata"] = "ok"
CogStored   == task["upload-cog"] = "ok" => bucket["cog"] = cog
ItemStored  == task["upload-meta"] = "ok" => bucket["item"] = draft /\ bucket["thumbnail"] = draft.by
RegisteredDraft == registered # Nothing => registered = draft /\ task["register"] # "waiting"
InputKept   == image # Nothing /\ task["cleanup"] = "waiting" => bucket["input"] = 1

ProcessInv ==
  /\ ProcessType /\ InGraphOrder /\ Validated /\ CogMade /\ Converted /\ Drafted
  /\ CogStored /\ ItemStored /\ RegisteredDraft /\ InputKept

(* What the graph says of the tasks, once for all. *)
LEMMA GraphOrder ==
  ASSUME ProcessInv
  PROVE  /\ task["convert"] # "waiting" => task["validate"] = "ok"
         /\ task["metadata"] # "waiting" => task["convert"] = "ok"
         /\ task["upload-cog"] # "waiting" => task["convert"] = "ok"
         /\ task["upload-meta"] # "waiting" => task["metadata"] = "ok"
         /\ task["register"] # "waiting" => task["upload-cog"] = "ok" /\ task["upload-meta"] = "ok"
         /\ task["cleanup"] # "waiting" => task["validate"] = "failed"
         /\ \A t \in Tasks : task[t] # "waiting" => image \in Images /\ image # Nothing
  BY DEF ProcessInv, ProcessType, InGraphOrder, Tasks, Depends

LEMMA ProcessStarts == ProcessInit => ProcessInv
  BY DEF ProcessInit, ProcessInv, ProcessType, States, Kept, InGraphOrder, Validated, CogMade,
         Converted, Drafted, CogStored, ItemStored, RegisteredDraft, InputKept, Tasks

(* A task that runs is settled, and the rest of the graph is as before. *)
LEMMA SettlesOne ==
  ASSUME ProcessInv, NEW t \in Tasks, NEW how \in {"ok", "failed"}, Settles(t, how), UNCHANGED image
  PROVE  /\ task' \in [Tasks -> States] /\ InGraphOrder'
         /\ task[t] = "running" /\ task'[t] = how /\ \A u \in Tasks \ {t} : task'[u] = task[u]
  <1>1. /\ task' \in [Tasks -> States] /\ task[t] = "running" /\ task'[t] = how
        /\ \A u \in Tasks \ {t} : task'[u] = task[u]
    BY DEF ProcessInv, ProcessType, Settles, States
  <1>2. InGraphOrder'
    <2> SUFFICES ASSUME NEW u \in Tasks, task'[u] # "waiting"
                 PROVE  /\ image # Nothing
                        /\ \A d \in Depends(u) : task'[d] = IF u = "cleanup" THEN "failed" ELSE "ok"
      BY DEF InGraphOrder
    <2>1. task[u] # "waiting"
      BY <1>1
    <2>2. image # Nothing /\ \A d \in Depends(u) : task[d] = IF u = "cleanup" THEN "failed" ELSE "ok"
      BY <2>1 DEF ProcessInv, InGraphOrder
    <2>3. \A d \in Depends(u) : d \in Tasks
      BY DEF Depends, Tasks
    <2> QED BY <1>1, <2>2, <2>3
  <1> QED BY <1>1, <1>2

LEMMA ProcessSteps == ProcessInv /\ [ProcessNext]_processVars => ProcessInv'
  <1> SUFFICES ASSUME ProcessInv, [ProcessNext]_processVars PROVE ProcessInv'
    OBVIOUS
  <1> USE GraphOrder
  <1>1. CASE Fetched
    <2>1. \A t \in Tasks : task[t] = "waiting"
      BY <1>1 DEF Fetched, ProcessInv, InGraphOrder
    <2>2. /\ task["validate"] = "waiting" /\ task["convert"] = "waiting" /\ task["metadata"] = "waiting"
          /\ task["upload-cog"] = "waiting" /\ task["upload-meta"] = "waiting"
      BY <2>1 DEF Tasks
    <2>3. cog = Nothing /\ draft = Nothing /\ registered = Nothing
      BY <2>1, <2>2 DEF ProcessInv, CogMade, Drafted, RegisteredDraft, Tasks
    <2>4. bucket' = [o \in Kept |-> bucket'[o]] /\ bucket'["input"] = 1
      BY <1>1 DEF Fetched, ProcessInv, ProcessType, Kept
    <2>5. ProcessType' /\ InGraphOrder'
      BY <1>1, <2>1, <2>4 DEF Fetched, ProcessInv, ProcessType, InGraphOrder
    <2> QED BY <1>1, <2>2, <2>3, <2>4, <2>5
        DEF Fetched, ProcessInv, Validated, CogMade, Converted, Drafted, CogStored, ItemStored,
            RegisteredDraft, InputKept
  <1>2. CASE Validate
    <2> DEFINE how == IF Accepts(image) THEN "ok" ELSE "failed"
    <2>1. Settles("validate", how) /\ how \in {"ok", "failed"} /\ (how = "ok" => Accepts(image))
      BY <1>2 DEF Validate
    <2> HIDE DEF how
    <2>2. UNCHANGED <<image, tries, cog, sidecar, draft, bucket, registered>>
      BY <1>2 DEF Validate
    <2>3. /\ task' \in [Tasks -> States] /\ InGraphOrder' /\ task'["validate"] = how
          /\ \A u \in Tasks \ {"validate"} : task'[u] = task[u]
      BY <2>1, <2>2, SettlesOne DEF Tasks
    <2>4. Validated'
      BY <2>1, <2>2, <2>3 DEF Validated
    <2> QED BY <2>2, <2>3, <2>4
        DEF ProcessInv, ProcessType, CogMade, Converted, Drafted, CogStored, ItemStored,
            RegisteredDraft, InputKept, Tasks, Item
  <1>3. CASE WriteCog
    <2>1. /\ task["convert"] = "running" /\ cog' = Cog(image, tries["convert"])
          /\ UNCHANGED <<image, task, tries, sidecar, draft, bucket, registered>>
      BY <1>3 DEF WriteCog
    <2>2. CogMade'
      BY <2>1, CogFields DEF CogMade
    <2>3. task["metadata"] = "waiting" /\ task["upload-cog"] = "waiting"
      BY <2>1
    <2> QED BY <2>1, <2>2, <2>3
        DEF ProcessInv, ProcessType, InGraphOrder, Validated, Converted, Drafted, CogStored,
            ItemStored, RegisteredDraft, InputKept
  <1>4. CASE VerifyCog
    <2>1. /\ cog # Nothing /\ sidecar' = [lossy |-> cog.lossy, by |-> cog.by]
          /\ Settles("convert", "ok")
          /\ UNCHANGED <<image, tries, cog, draft, bucket, registered>>
      BY <1>4 DEF VerifyCog, Written
    <2>2. /\ task' \in [Tasks -> States] /\ InGraphOrder' /\ task["convert"] = "running"
          /\ task'["convert"] = "ok" /\ \A u \in Tasks \ {"convert"} : task'[u] = task[u]
      BY <2>1, SettlesOne DEF Tasks
    <2>3. task["metadata"] = "waiting" /\ task'["metadata"] = "waiting"
      BY <2>2 DEF Tasks
    <2> QED BY <2>1, <2>2, <2>3
        DEF ProcessInv, ProcessType, Validated, CogMade, Converted, Drafted, CogStored, ItemStored,
            RegisteredDraft, InputKept, Tasks
  <1>5. CASE BuildItem
    <2>1. /\ Settles("metadata", "ok") /\ draft' = Item(image, cog, tries["metadata"])
          /\ UNCHANGED <<image, tries, cog, sidecar, bucket, registered>>
      BY <1>5 DEF BuildItem
    <2>2. /\ task' \in [Tasks -> States] /\ InGraphOrder' /\ task["metadata"] = "running"
          /\ task'["metadata"] = "ok" /\ \A u \in Tasks \ {"metadata"} : task'[u] = task[u]
      BY <2>1, SettlesOne DEF Tasks
    <2>3. Drafted'
      BY <2>1, <2>2 DEF Drafted, Item
    <2>4. task["upload-meta"] = "waiting" /\ task["register"] = "waiting"
      BY <2>2
    <2>5. registered = Nothing
      BY <2>4 DEF ProcessInv, RegisteredDraft
    <2> QED BY <2>1, <2>2, <2>3, <2>4, <2>5
        DEF ProcessInv, ProcessType, Validated, CogMade, Converted, CogStored, ItemStored,
            RegisteredDraft, InputKept, Tasks
  <1>6. CASE UploadCog
    <2>1. /\ Settles("upload-cog", "ok") /\ bucket' = [bucket EXCEPT !["cog"] = cog]
          /\ UNCHANGED <<image, tries, cog, sidecar, draft, registered>>
      BY <1>6 DEF UploadCog
    <2>2. /\ task' \in [Tasks -> States] /\ InGraphOrder' /\ task["upload-cog"] = "running"
          /\ task'["upload-cog"] = "ok" /\ \A u \in Tasks \ {"upload-cog"} : task'[u] = task[u]
      BY <2>1, SettlesOne DEF Tasks
    <2>3. /\ bucket' = [o \in Kept |-> bucket'[o]] /\ bucket'["cog"] = cog
          /\ \A o \in Kept \ {"cog"} : bucket'[o] = bucket[o]
      BY <2>1 DEF ProcessInv, ProcessType, Kept
    <2> QED BY <2>1, <2>2, <2>3
        DEF ProcessInv, ProcessType, Validated, CogMade, Converted, Drafted, CogStored, ItemStored,
            RegisteredDraft, InputKept, Tasks, Kept, Item
  <1>7. CASE UploadItem
    <2>1. /\ task["upload-meta"] = "running" /\ bucket' = [bucket EXCEPT !["item"] = draft]
          /\ UNCHANGED <<image, task, tries, cog, sidecar, draft, registered>>
      BY <1>7 DEF UploadItem
    <2>2. /\ bucket' = [o \in Kept |-> bucket'[o]]
          /\ \A o \in Kept \ {"item"} : bucket'[o] = bucket[o]
      BY <2>1 DEF ProcessInv, ProcessType, Kept
    <2> QED BY <2>1, <2>2
        DEF ProcessInv, ProcessType, InGraphOrder, Validated, CogMade, Converted, Drafted, CogStored,
            ItemStored, RegisteredDraft, InputKept, Kept, Item
  <1>8. CASE UploadThumbnail
    <2>1. /\ Settles("upload-meta", "ok") /\ bucket["item"] = draft
          /\ bucket' = [bucket EXCEPT !["thumbnail"] = draft.by]
          /\ UNCHANGED <<image, tries, cog, sidecar, draft, registered>>
      BY <1>8 DEF UploadThumbnail
    <2>2. /\ task' \in [Tasks -> States] /\ InGraphOrder' /\ task["upload-meta"] = "running"
          /\ task'["upload-meta"] = "ok" /\ \A u \in Tasks \ {"upload-meta"} : task'[u] = task[u]
      BY <2>1, SettlesOne DEF Tasks
    <2>3. /\ bucket' = [o \in Kept |-> bucket'[o]] /\ bucket'["thumbnail"] = draft.by
          /\ \A o \in Kept \ {"thumbnail"} : bucket'[o] = bucket[o]
      BY <2>1 DEF ProcessInv, ProcessType, Kept
    <2> QED BY <2>1, <2>2, <2>3
        DEF ProcessInv, ProcessType, Validated, CogMade, Converted, Drafted, CogStored, ItemStored,
            RegisteredDraft, InputKept, Tasks, Kept, Item
  <1>9. CASE Register
    <2>1. /\ task["register"] = "running" /\ registered' = draft
          /\ Settles("register", "ok") \/ UNCHANGED task
          /\ UNCHANGED <<image, tries, cog, sidecar, draft, bucket>>
      BY <1>9 DEF Register
    <2>2. /\ task' \in [Tasks -> States] /\ InGraphOrder' /\ task'["register"] # "waiting"
          /\ \A u \in Tasks \ {"register"} : task'[u] = task[u]
      <3>1. CASE Settles("register", "ok")
        BY <2>1, <3>1, SettlesOne DEF Tasks
      <3>2. CASE UNCHANGED task
        BY <2>1, <3>2 DEF ProcessInv, ProcessType, InGraphOrder
      <3> QED BY <2>1, <3>1, <3>2
    <2> QED BY <2>1, <2>2
        DEF ProcessInv, ProcessType, Validated, CogMade, Converted, Drafted, CogStored, ItemStored,
            RegisteredDraft, InputKept, Tasks, Item
  <1>10. CASE Cleanup
    <2>1. /\ Settles("cleanup", "failed") /\ bucket' = [o \in DOMAIN bucket |-> Nothing]
          /\ UNCHANGED <<image, tries, cog, sidecar, draft, registered>>
      BY <1>10 DEF Cleanup
    <2>2. /\ task' \in [Tasks -> States] /\ InGraphOrder' /\ task["cleanup"] = "running"
          /\ task'["cleanup"] = "failed" /\ \A u \in Tasks \ {"cleanup"} : task'[u] = task[u]
      BY <2>1, SettlesOne DEF Tasks
    <2>3. bucket' = [o \in Kept |-> bucket'[o]]
      BY <2>1 DEF ProcessInv, ProcessType
    <2>4. task["validate"] = "failed" /\ task["convert"] = "waiting"
      BY <2>2
    <2>5. task["upload-cog"] = "waiting" /\ task["metadata"] = "waiting" /\ task["upload-meta"] = "waiting"
      BY <2>4
    <2> QED BY <2>1, <2>2, <2>3, <2>4, <2>5
        DEF ProcessInv, ProcessType, Validated, CogMade, Converted, Drafted, CogStored, ItemStored,
            RegisteredDraft, InputKept, Tasks, Item
  <1>11. ASSUME NEW t \in Tasks, Start(t) PROVE ProcessInv'
    <2>1. /\ image # Nothing /\ task[t] = "waiting"
          /\ \A d \in Depends(t) : task[d] = IF t = "cleanup" THEN "failed" ELSE "ok"
          /\ task' = [task EXCEPT ![t] = "running"]
          /\ UNCHANGED <<image, cog, sidecar, draft, bucket, registered>>
      BY <1>11 DEF Start
    <2>2. /\ task' \in [Tasks -> States] /\ task'[t] = "running"
          /\ \A u \in Tasks \ {t} : task'[u] = task[u]
      BY <2>1 DEF ProcessInv, ProcessType, States
    <2>3. InGraphOrder'
      <3> SUFFICES ASSUME NEW u \in Tasks, task'[u] # "waiting"
                   PROVE  /\ image # Nothing
                          /\ \A d \in Depends(u) : task'[d] = IF u = "cleanup" THEN "failed" ELSE "ok"
        BY <2>1 DEF InGraphOrder
      <3>1. \A d \in Depends(u) : task[d] = IF u = "cleanup" THEN "failed" ELSE "ok"
        BY <2>1, <2>2 DEF ProcessInv, InGraphOrder
      <3>2. \A d \in Depends(u) : d \in Tasks /\ d # t
        BY <2>1, <3>1 DEF Depends, Tasks
      <3> QED BY <2>1, <2>2, <3>1, <3>2
    <2>4. \A u \in Tasks : /\ task'[u] = "ok" => task[u] = "ok"
                           /\ task[u] # "waiting" => task'[u] = task[u]
                           /\ task'[u] = "waiting" => task[u] = "waiting"
      BY <2>1, <2>2
    <2> QED BY <2>1, <2>2, <2>3, <2>4
        DEF ProcessInv, ProcessType, Validated, CogMade, Converted, Drafted, CogStored, ItemStored,
            RegisteredDraft, InputKept, Tasks, Item
  <1>12. ASSUME NEW t \in Tasks, Fail(t) PROVE ProcessInv'
    <2>1. /\ task[t] = "running" /\ (UNCHANGED task \/ Settles(t, "failed"))
          /\ UNCHANGED <<image, cog, sidecar, draft, bucket, registered>>
      BY <1>12 DEF Fail
    <2>2. /\ task' \in [Tasks -> States] /\ InGraphOrder' /\ task'[t] \in {"running", "failed"}
          /\ \A u \in Tasks \ {t} : task'[u] = task[u]
      <3>1. CASE Settles(t, "failed")
        BY <2>1, <3>1, SettlesOne
      <3>2. CASE UNCHANGED task
        BY <2>1, <3>2 DEF ProcessInv, ProcessType, InGraphOrder
      <3> QED BY <2>1, <3>1, <3>2
    <2>3. \A u \in Tasks : /\ task'[u] = "ok" => task[u] = "ok"
                           /\ task[u] = "ok" => task'[u] = "ok"
                           /\ task'[u] = "waiting" <=> task[u] = "waiting"
      BY <2>1, <2>2
    <2> QED BY <2>1, <2>2, <2>3
        DEF ProcessInv, ProcessType, Validated, CogMade, Converted, Drafted, CogStored, ItemStored,
            RegisteredDraft, InputKept, Tasks, Item
  <1>13. CASE UNCHANGED processVars
    BY <1>13 DEF processVars, ProcessInv, ProcessType, InGraphOrder, Validated, CogMade, Converted,
                 Drafted, CogStored, ItemStored, RegisteredDraft, InputKept, Item
  <1> QED BY <1>1, <1>2, <1>3, <1>4, <1>5, <1>6, <1>7, <1>8, <1>9, <1>10, <1>11, <1>12, <1>13
      DEF ProcessNext

-----------------------------------------------------------------------------
(* The programs: the properties. *)
LEMMA ConversionSound == ProcessInv => ConversionHolds
  <1> SUFFICES ASSUME ProcessInv PROVE ConversionHolds
    OBVIOUS
  <1> USE GraphOrder
  <1>1. FitsWorkspace
    <2> SUFFICES ASSUME task["convert"] # "waiting"
                 PROVE  image.size * 100 + image.decoded * (IF LossyVisual(image) THEN 90 ELSE 150)
                          <= Volume(image) * 95
      BY DEF FitsWorkspace
    <2>1. image \in Images /\ Accepts(image)
      BY DEF ProcessInv, Validated, Tasks
    <2> QED BY <2>1, AcceptedFits
  <1>2. ASSUME cog # Nothing PROVE Verifies(image, cog) /\ cog.bands >= DataBands(image)
    <2>1. cog = Cog(image, cog.by) /\ image \in Images
      BY <1>2 DEF ProcessInv, CogMade, Tasks
    <2>2. Verifies(image, Cog(image, cog.by)) /\ Cog(image, cog.by).bands >= DataBands(image)
      BY <2>1, ConvertsWell
    <2> QED BY <2>1, <2>2
  <1>3. ConversionVerifies /\ DataBandsSurvive
    BY <1>2 DEF ConversionVerifies, DataBandsSurvive
  <1> QED BY <1>1, <1>3 DEF ConversionHolds

LEMMA DescribesSound == ProcessInv => ItemDescribesFiles
  <1> SUFFICES ASSUME ProcessInv PROVE ItemDescribesFiles
    OBVIOUS
  <1> USE GraphOrder
  <1>1. ASSUME draft # Nothing
        PROVE  /\ image \in Images /\ task["metadata"] = "ok" /\ task["convert"] = "ok"
               /\ cog # Nothing /\ sidecar = [lossy |-> cog.lossy, by |-> cog.by]
               /\ cog = Cog(image, cog.by) /\ draft = Item(image, cog, draft.by)
    BY <1>1 DEF ProcessInv, Drafted, Converted, CogMade, Tasks
  <1>2. \A c, n : /\ Item(image, c, n).checksum = c.by /\ Item(image, c, n).lineage = sidecar
                  /\ Item(image, c, n).place = Wgs84(image.cells)
    BY DEF Item
  <1>3. RegisteredIsStored
    <2> SUFFICES ASSUME registered # Nothing
                 PROVE  /\ bucket["cog"] # Nothing /\ bucket["cog"].by = registered.checksum
                        /\ registered.lineage = [lossy |-> bucket["cog"].lossy, by |-> bucket["cog"].by]
                        /\ bucket["item"] = registered /\ bucket["thumbnail"] = registered.by
                        /\ bucket["input"] # Nothing
      BY DEF RegisteredIsStored
    <2>1. registered = draft /\ task["register"] # "waiting"
      BY DEF ProcessInv, RegisteredDraft
    <2>2. /\ bucket["cog"] = cog /\ bucket["item"] = draft /\ bucket["thumbnail"] = draft.by
      BY <2>1 DEF ProcessInv, CogStored, ItemStored
    <2>3. draft.checksum = cog.by /\ draft.lineage = sidecar
      BY <1>1, <1>2, <2>1
    <2>4. bucket["input"] = 1
      <3>1. task["validate"] = "ok" /\ task["cleanup"] = "waiting"
        BY <1>1, <2>1
      <3>2. image # Nothing
        BY <3>1 DEF Tasks
      <3> QED BY <3>1, <3>2 DEF ProcessInv, InputKept
    <2> QED BY <1>1, <2>1, <2>2, <2>3, <2>4, NothingIsNone
  <1>4. DrawsWhatIsValid
    <2> SUFFICES ASSUME registered # Nothing, registered.type = "visual" => cog.mask
                 PROVE  TilePixels(image, registered, cog) = Valid(image, registered.shown)
      BY DEF DrawsWhatIsValid
    <2>1. registered = draft
      BY DEF ProcessInv, RegisteredDraft
    <2>2. image \in Images /\ cog = Cog(image, cog.by) /\ draft = Item(image, cog, draft.by)
      BY <1>1, <2>1
    <2>3. PICK m, n : cog = Cog(image, m) /\ draft = Item(image, Cog(image, m), n)
      BY <2>2
    <2>4. TilePixels(image, Item(image, Cog(image, m), n), Cog(image, m))
            = Valid(image, Item(image, Cog(image, m), n).shown)
      BY <2>1, <2>2, <2>3, DrawnAsValid
    <2> QED BY <2>1, <2>3, <2>4
  <1>5. BoxHoldsFootprint
    <2> SUFFICES ASSUME draft # Nothing PROVE BoxHolds(image.cells, draft.place)
      BY DEF BoxHoldsFootprint, BoxHolds
    <2>1. draft.place = Wgs84(image.cells) /\ image \in Images
      BY <1>1, <1>2
    <2> QED BY <2>1, PlaceHolds
  <1> QED BY <1>3, <1>4, <1>5 DEF ItemDescribesFiles

LEMMA ProcessHolds == ProcessSpec => []ProcessInv
  BY ProcessStarts, ProcessSteps, PTL DEF ProcessSpec

(* Whatever image was accepted, its conversion fits the volume and gives a COG that
   passes convert.py's verification and has every band of data. *)
THEOREM ConversionKept == ProcessSpec => []ConversionHolds
  BY ProcessHolds, ConversionSound, PTL

(* Whatever is retried and in whatever order the graph allows, an item in the
   catalogue gives the checksum and the lineage of the COG beside it, is drawn as the
   original's mask has it, and has a box that holds its footprint. *)
THEOREM ItemDescribed == ProcessSpec => []ItemDescribesFiles
  BY ProcessHolds, DescribesSound, PTL
=============================================================================
