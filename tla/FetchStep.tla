----------------------------- MODULE FetchStep -----------------------------
(***************************************************************************)
(* The fetch step of one workflow: the pods that run fetch.py, one attempt *)
(* after another and sometimes two at once, on one workspace volume.       *)
(*                                                                         *)
(* A pod Argo deems lost may run on, beside the attempt that replaces it.  *)
(* File contents are the version of the imagery they hold and whether they *)
(* hold all of it; the source URL may serve another version every time.    *)
(***************************************************************************)
EXTENDS Naturals

CONSTANTS
  Limit,     \* pods the step may use: the first, and retryStrategy.limit
  Versions,  \* the imagery a source may serve
  SizesTell, \* whether versions differ in size
  None       \* no file

ASSUME LimitIsPositive == Limit \in Nat \ {0}
ASSUME SizesTellIsFlag == SizesTell \in BOOLEAN

VARIABLES
  mode,      \* SOURCE_TYPE: "url" or "s3"
  pod,       \* each fetch pod: where it is, whether it reads the URL, its digest
  part,      \* the .part file of each name
  input,     \* /data/input.tif
  archive,   \* the upload's object in the bucket
  open,      \* the row has not ended, and so its token still works
  source,    \* the row holds a source URL
  checksum,  \* the row's checksum, as the version it was taken from
  attempt,   \* the attempt Argo is waiting for
  lost,      \* Argo deems that pod lost
  step,      \* the step, then its cleanup, as Argo sees them
  alone      \* history: no two pods have run at once

row  == <<open, source, checksum>>
argo == <<mode, attempt, lost, step, alone>>
vars == <<pod, part, input, archive, row, argo>>

Pods  == 1..Limit
Ends  == {"done", "transient", "permanent", "killed"}
Going == {"start", "clear", "known", "wanting", "found", "streaming", "fetched",
          "archived", "published", "hashed", "reported"}
File  == [version : Versions, whole : BOOLEAN]
Partial == [by : Pods, version : Versions, whole : BOOLEAN]

ASSUME NoneIsNoFile == None \notin Versions /\ None \notin File /\ None \notin Partial

PodsTyped ==
  pod \in [Pods -> [pc : {"none"} \cup Going \cup Ends, url : BOOLEAN, sum : Versions \cup {None}]]

FilesTyped ==
  /\ part \in [Pods -> {None} \cup Partial]
  /\ input \in {None} \cup File /\ archive \in {None} \cup File

RowTyped == open \in BOOLEAN /\ source \in BOOLEAN /\ checksum \in Versions \cup {None}

ArgoTyped ==
  /\ mode \in {"url", "s3"} /\ attempt \in Pods /\ lost \in BOOLEAN /\ alone \in BOOLEAN
  /\ step \in {"running", "succeeded", "failed", "purged", "unpurged", "errored"}

TypeOK == PodsTyped /\ FilesTyped /\ RowTyped /\ ArgoTyped

Init ==
  /\ mode \in {"url", "s3"}
  /\ pod = [p \in Pods |-> [pc |-> IF p = 1 THEN "start" ELSE "none",
                            url |-> FALSE, sum |-> None]]
  /\ part = [p \in Pods |-> None]
  /\ input = None
  /\ archive \in IF mode = "s3" THEN [version : Versions, whole : {TRUE}] ELSE {None}
  /\ open = TRUE
  /\ source = (mode = "url")
  /\ checksum = None
  /\ attempt = 1 /\ lost = FALSE /\ step = "running" /\ alone = TRUE

At(p, pc) == pod[p].pc = pc
To(p, pc) == pod' = [pod EXCEPT ![p].pc = pc]
Live(p)   == pod[p].pc \in Going
Held(f)   == [version |-> f.version, whole |-> f.whole]

(* Mutant: one name for all. *)
PartialForAll(p) == 1

(* The name a pod builds input.tif under: its own. *)
PartialFor(p) == p

-----------------------------------------------------------------------------
(* Mutant: everything goes. *)
ClearEverything(p) ==
  /\ At(p, "start") /\ To(p, "clear")
  /\ part' = [n \in Pods |-> None] /\ input' = None
  /\ UNCHANGED <<archive, row, argo>>

(* Other attempts' .part files go, input.tif stays. *)
ClearWorkspace(p) ==
  /\ At(p, "start") /\ To(p, "clear")
  /\ part' = [n \in Pods |-> None]
  /\ UNCHANGED <<input, archive, row, argo>>

Metadata(p) ==
  /\ At(p, "clear") /\ open
  /\ To(p, "known")
  /\ UNCHANGED <<part, input, archive, row, argo>>

Same == input # None /\ archive # None /\ Held(input) = Held(archive)

(* Sizes are all that is compared. *)
KeepInput(p) ==
  /\ At(p, "known") /\ input # None /\ archive # None
  /\ SizesTell => Same
  /\ To(p, "published")
  /\ UNCHANGED <<part, input, archive, row, argo>>

(* No input, another size, or an object we cannot see. *)
FetchAgain(p) ==
  /\ At(p, "known")
  /\ To(p, "wanting")
  /\ UNCHANGED <<part, input, archive, row, argo>>

(* The source URL, or our own copy once the URL is spent. *)
Choose(p) ==
  /\ At(p, "wanting")
  /\ mode = "url" => open
  /\ source \/ archive # None
  /\ pod' = [pod EXCEPT ![p].pc = "found", ![p].url = source]
  /\ UNCHANGED <<part, input, archive, row, argo>>

(* "This upload has no source URL to fetch", or its object is gone: or the
   store refused to say, which reads the same. *)
NothingToFetch(p) ==
  /\ \/ At(p, "wanting") /\ ~source /\ (mode = "url" => open)
     \/ At(p, "found") /\ ~pod[p].url
  /\ To(p, "permanent")
  /\ open' \in {open, FALSE} /\ source' = (source /\ open')
  /\ UNCHANGED <<part, input, archive, checksum, argo>>

OpenPartial(p) ==
  /\ At(p, "found")
  /\ \E v \in Versions :
       /\ ~pod[p].url => archive # None /\ v = archive.version
       /\ part' = [part EXCEPT ![PartialFor(p)] =
                     [by |-> p, version |-> v, whole |-> FALSE]]
  /\ To(p, "streaming")
  /\ UNCHANGED <<input, archive, row, argo>>

(* The last byte arrives, in a file that may have been unlinked meanwhile. *)
FinishPartial(p) ==
  LET n == PartialFor(p) IN
  /\ At(p, "streaming")
  /\ To(p, IF pod[p].url THEN "fetched" ELSE "archived")
  /\ IF part[n] # None /\ part[n].by = p
       THEN part' = [part EXCEPT ![n].whole = TRUE]
       ELSE UNCHANGED part
  /\ UNCHANGED <<input, archive, row, argo>>

(* Mutant: an upload that fails is only logged. *)
ArchiveOrNot(p) ==
  /\ At(p, "fetched") /\ part[PartialFor(p)] # None
  /\ archive' \in {archive, Held(part[PartialFor(p)])}
  /\ To(p, "archived")
  /\ UNCHANGED <<part, input, row, argo>>

Archive(p) ==
  /\ At(p, "fetched") /\ part[PartialFor(p)] # None
  /\ archive' = Held(part[PartialFor(p)])
  /\ To(p, "archived")
  /\ UNCHANGED <<part, input, row, argo>>

Publish(p) ==
  LET n == PartialFor(p) IN
  /\ At(p, "archived") /\ To(p, "published")
  /\ \/ part[n] # None /\ input' = Held(part[n]) /\ part' = [part EXCEPT ![n] = None]
     \/ part[n] = None /\ input # None /\ UNCHANGED <<part, input>>
  /\ UNCHANGED <<archive, row, argo>>

Sha256(p) ==
  /\ At(p, "published") /\ input # None
  /\ pod' = [pod EXCEPT ![p].pc = "hashed", ![p].sum = input.version]
  /\ UNCHANGED <<part, input, archive, row, argo>>

(* Best effort: the call, and its row, may be lost. *)
ReportChecksum(p) ==
  /\ At(p, "hashed") /\ To(p, "reported")
  /\ \/ open /\ checksum' = pod[p].sum /\ source' = FALSE
     \/ UNCHANGED <<checksum, source>>
  /\ UNCHANGED <<part, input, archive, open, argo>>

Exit(p) == At(p, "reported") /\ To(p, "done") /\ UNCHANGED <<part, input, archive, row, argo>>

-----------------------------------------------------------------------------
(* How a pod ends otherwise. *)

(* The API, the store or the source is in trouble, or a file is missing. *)
Transient(p) ==
  /\ Live(p) /\ To(p, "transient")
  /\ UNCHANGED <<part, input, archive, row, argo>>

(* A 404, a rejected host, no GeoTIFF: reported, if the report arrives. *)
Permanent(p) ==
  /\ pod[p].pc \in {"found", "streaming"} /\ pod[p].url
  /\ To(p, "permanent")
  /\ open' \in {open, FALSE} /\ source' = (source /\ open')
  /\ UNCHANGED <<part, input, archive, checksum, argo>>

Killed(p) ==
  /\ Live(p) /\ To(p, "killed")
  /\ UNCHANGED <<part, input, archive, row, argo>>

(* Cancelled, or reconciled away. *)
EndRow ==
  /\ open /\ open' = FALSE /\ source' = FALSE
  /\ UNCHANGED <<pod, part, input, archive, checksum, argo>>

-----------------------------------------------------------------------------
(* Argo. *)

Lose ==
  /\ step = "running" /\ ~lost /\ Live(attempt)
  /\ lost' = TRUE
  /\ UNCHANGED pod \/ To(attempt, "killed")
  /\ UNCHANGED <<mode, part, input, archive, row, attempt, step, alone>>

Retriable == lost \/ At(attempt, "transient")

Retry ==
  /\ step = "running" /\ Retriable /\ attempt < Limit
  /\ attempt' = attempt + 1 /\ lost' = FALSE
  /\ To(attempt + 1, "start")
  /\ alone' = (alone /\ \A p \in Pods : ~Live(p))
  /\ UNCHANGED <<mode, part, input, archive, row, step>>

Succeed ==
  /\ step = "running" /\ ~lost /\ At(attempt, "done")
  /\ step' = "succeeded"
  /\ UNCHANGED <<pod, part, input, archive, row, mode, attempt, lost, alone>>

FailStep ==
  /\ step = "running" /\ ~lost
  /\ \/ At(attempt, "transient") /\ attempt = Limit
     \/ pod[attempt].pc \in {"permanent", "killed"}
  /\ step' = "failed"
  /\ UNCHANGED <<pod, part, input, archive, row, mode, attempt, lost, alone>>

(* Nobody waits for an Errored step: the cleanup depends on a Failed one. *)
ErrorStep ==
  /\ step = "running" /\ lost
  /\ step' = "errored"
  /\ UNCHANGED <<pod, part, input, archive, row, mode, attempt, lost, alone>>

Purge ==
  /\ step = "failed" /\ step' = "purged"
  /\ archive' = None
  /\ UNCHANGED <<pod, part, input, row, mode, attempt, lost, alone>>

(* purge-objects is not retried. *)
PurgeFails ==
  /\ step = "failed" /\ step' = "unpurged"
  /\ UNCHANGED <<pod, part, input, archive, row, mode, attempt, lost, alone>>

Run(p) ==
  \/ ClearWorkspace(p) \/ Metadata(p) \/ KeepInput(p) \/ FetchAgain(p)
  \/ Choose(p) \/ NothingToFetch(p) \/ OpenPartial(p) \/ FinishPartial(p)
  \/ Archive(p) \/ Publish(p) \/ Sha256(p) \/ ReportChecksum(p) \/ Exit(p)

Next ==
  \/ \E p \in Pods : Run(p) \/ Transient(p) \/ Permanent(p) \/ Killed(p)
  \/ EndRow \/ Lose \/ Retry \/ Succeed \/ FailStep \/ ErrorStep \/ Purge \/ PurgeFails

Spec == Init /\ [][Next]_vars

-----------------------------------------------------------------------------
(* Whoever opens input.tif or the object reads all of one file, however many
   pods were building it: partials are private and published by renaming. *)
OnlyWholeFiles == \A f \in {input, archive} : f = None \/ f.whole

(* A file the next step may be reading is never taken away, though every
   attempt begins by emptying the workspace. *)
InputStays == [][input # None => input' # None]_vars

(* While the step may be retried there is something to fetch: the source URL
   is only dropped once the original is in the bucket. *)
NeverStranded == step = "running" /\ open => source \/ archive # None

(* A step that succeeded left its input behind, and the original archived. *)
SuccessLeavesInput == step = "succeeded" => input # None /\ archive # None

(* With one pod at a time, and versions told apart by their size, what is
   processed, archived and checksummed is the same imagery, even from a source
   that changes between attempts. *)
OneVersion ==
  step = "succeeded" /\ alone /\ SizesTell =>
    /\ Same
    /\ checksum \in {None, input.version}

(* The step works on one whole file: no reader meets a part of it, and what is
   processed is what is archived. *)
OneWholeFile == TypeOK /\ OnlyWholeFiles /\ OneVersion

(* From the first attempt to the last there is something to fetch, and after it
   something to process. *)
NeverEmptyHanded == NeverStranded /\ SuccessLeavesInput

(* workflow-template.yaml: bytes that failed the fetch "must not sit in a
   world-readable bucket"; once the step and its cleanup are over, they do not. *)
RejectedBytesLeave == step \in {"purged", "unpurged", "errored"} => archive = None
=============================================================================
