--------------------------- MODULE UploadLifecycle --------------------------
(***************************************************************************)
(* One upload from its first request to its end, as the uploader API, the  *)
(* object store, the Argo workflow and the reconciler act on it.           *)
(*                                                                         *)
(* A request to the API is a slot of Handlers: req[h] says which upload it *)
(* works on and the point it has reached, so two requests interleave at    *)
(* every await between two writes.  Any request may die there, which rolls *)
(* back what it has not committed.  completemultipart holds the row's lock *)
(* from its claim to its commit: until then the row other readers see is   *)
(* the committed one, and writers wait.                                    *)
(*                                                                         *)
(* A workflow pod reports by best-effort calls: reports[u] is the set of   *)
(* calls on their way, which may be repeated, overtaken or lost.           *)
(*                                                                         *)
(* updated_at is kept as an age: "fresh", "quiet" (past                    *)
(* RECONCILE_QUIET_MINUTES) or "abandoned" (past RECONCILE_MAX_AGE_HOURS). *)
(***************************************************************************)
EXTENDS UploadStatus

CONSTANTS
  Uploads,      \* upload ids
  Remote,       \* the uploads fetched from a URL, the rest are multipart
  Handlers,     \* requests the API can be serving at once
  MaxAttempts,  \* pods the register step may use: its retry limit and the first
  Clustered,    \* the uploads served with settings.ARGO_ENABLED
  Followed,     \* bound: the messages followed, any other is lost on the way
  NoUpload      \* what an idle request works on

ASSUME RemoteAreUploads == Remote \subseteq Uploads
ASSUME AttemptsPositive == MaxAttempts \in Nat \ {0}
ASSUME ClusteredUploads == Clustered \subseteq Uploads
ASSUME NoUploadIsNone   == NoUpload \notin Uploads

VARIABLES
  row,      \* the uploads table, as committed
  session,  \* the S3 multipart session: "none", "open" or "gone"
  object,   \* the uploads with an object at their key in the bucket
  catalog,  \* the uploads with an item in pgstac
  req,      \* the request in each slot
  wf,       \* the Argo workflow of each upload
  reports,  \* what the workflow's pods have sent and the API has not served
  sweep     \* what the reconciler holds of the row it is looking at

vars == <<row, session, object, catalog, req, wf, reports, sweep>>

Ages == {"fresh", "quiet", "abandoned"}

Points == {"idle", "session", "complete", "submit", "submitted", "abort",
           "authorized", "upserted"}

WorkStages == {"none", "fetch", "transfer", "validate", "convert", "upload",
               "register", "registered", "exit"}

Phases == {"absent", "Running", "Succeeded", "Failed", "Error", "gone"}

(* The step-ids the template reports, and the checksum the fetch step posts. *)
Messages == {"Fetching", "Validating", "Converting", "Uploading",
             "Registering", "Failed", "checksum"}

Rows == [status: Status \cup {"absent"}, token: BOOLEAN, source: BOOLEAN,
         named: BOOLEAN, age: Ages]

Idle      == [pc |-> "idle", u |-> NoUpload]
NoSweep   == [pc |-> "idle", u |-> NoUpload, status |-> "absent",
              named |-> FALSE, aged |-> FALSE, outcome |-> "absent"]
NoRow     == [status |-> "absent", token |-> FALSE, source |-> FALSE,
              named |-> FALSE, age |-> "fresh"]
NoRun     == [phase |-> "absent", stage |-> "none", attempts |-> 0]
NewRun    == [phase |-> "Running", stage |-> "fetch", attempts |-> 0]

TypeOK ==
  /\ row \in [Uploads -> Rows]
  /\ session \in [Uploads -> {"none", "open", "gone"}]
  /\ object \in SUBSET Uploads
  /\ catalog \in SUBSET Uploads
  /\ req \in [Handlers -> [pc: Points, u: Uploads \cup {NoUpload}]]
  /\ wf \in [Uploads -> [phase: Phases, stage: WorkStages, attempts: 0..MaxAttempts]]
  /\ reports \in [Uploads -> SUBSET Messages]
  /\ sweep \in [pc: {"idle", "read", "decided"}, u: Uploads \cup {NoUpload},
                status: Status \cup {"absent"}, named: BOOLEAN, aged: BOOLEAN,
                outcome: UNSUCCESSFUL \cup {"absent"}]

Init ==
  /\ row = [u \in Uploads |-> NoRow]
  /\ session = [u \in Uploads |-> "none"]
  /\ object = {}
  /\ catalog = {}
  /\ req = [h \in Handlers |-> Idle]
  /\ wf = [u \in Uploads |-> NoRun]
  /\ reports = [u \in Uploads |-> {}]
  /\ sweep = NoSweep

-----------------------------------------------------------------------------
(* The writes of app/db/models.py, as functions of the row they find. *)

Open(u)  == row[u].status \in Stages
Ended(u) == row[u].status \in TERMINAL_STATUSES

(* Mutant: the token outlives the upload. *)
MovedKeepsSecrets(r, s) == [r EXCEPT !.status = s, !.age = "fresh"]

(* Any status write: a terminal one drops the token and the source URL. *)
Moved(r, s) ==
  [r EXCEPT !.status = s, !.age = "fresh",
            !.token  = @ /\ ~Expires(s),
            !.source = @ /\ ~Expires(s)]

(* Mutant: the last report wins, whatever the order it was sent in. *)
UpdatedInAnyOrder(r, s) == IF r.token THEN Moved(r, s) ELSE r

(* update_status: token-guarded and never backwards. *)
Updated(r, s) == IF r.token /\ Applies(r.status, s) THEN Moved(r, s) ELSE r

(* set_checksum and clear_source_url, in one transaction. *)
Checksummed(r) ==
  [r EXCEPT !.source = FALSE, !.age = IF r.token THEN "fresh" ELSE @]

(* set_workflow_name is guarded by nothing but the id. *)
Named(r) == [r EXCEPT !.named = TRUE, !.age = "fresh"]

(* Some request's uncommitted claim holds the row's lock. *)
Claimed(u) ==
  \E h \in Handlers : /\ req[h].u = u
                      /\ \/ req[h].pc = "complete"
                         \/ req[h].pc \in {"submit", "submitted"} /\ u \notin Remote

Served(u) == \E h \in Handlers : req[h].u = u

Begins(h, u, p) ==
  /\ req[h] = Idle
  /\ req' = [req EXCEPT ![h] = [pc |-> p, u |-> u]]

At(h, p) == req[h].pc = p

Goes(h, p) == req' = [req EXCEPT ![h].pc = p]

Ends(h) == req' = [req EXCEPT ![h] = Idle]

Write(u, r) == row' = [row EXCEPT ![u] = r]

(* Pods send these messages. *)
Post(u, sent) == reports' = [reports EXCEPT ![u] = @ \cup (sent \cap Followed)]
-----------------------------------------------------------------------------
(* Creating an upload. *)

(* create_upload_row commits the row; what the request does next depends on
   where the bytes will come from. *)
Create(h, u) ==
  /\ row[u].status = "absent"
  /\ Begins(h, u, IF u \in Remote THEN "submit" ELSE "session")
  /\ Write(u, [status |-> "Initiated", token |-> TRUE, source |-> u \in Remote,
               named |-> FALSE, age |-> "fresh"])
  /\ UNCHANGED <<session, object, catalog, wf, reports, sweep>>

(* create_multipart_upload answered. *)
OpenSession(h) ==
  /\ At(h, "session")
  /\ session' = [session EXCEPT ![req[h].u] = "open"]
  /\ Ends(h)
  /\ UNCHANGED <<row, object, catalog, wf, reports, sweep>>

(* S3 refused: the row is ended, whatever its status. *)
SessionRefused(h) ==
  /\ At(h, "session")
  /\ Write(req[h].u, Moved(row[req[h].u], "Error"))
  /\ Ends(h)
  /\ UNCHANGED <<session, object, catalog, wf, reports, sweep>>

(* signedurl and listparts: the browser is still there. *)
Touch(u) ==
  /\ session[u] # "none"
  /\ row[u].status = "Initiated"
  /\ ~Claimed(u)
  /\ Write(u, [row[u] EXCEPT !.age = "fresh"])
  /\ UNCHANGED <<session, object, catalog, req, wf, reports, sweep>>

-----------------------------------------------------------------------------
(* Completing a multipart upload. *)

(* Mutant: the claim is committed at once. *)
ClaimCommitted(h, u) ==
  /\ u \notin Remote
  /\ session[u] # "none"
  /\ row[u].status = "Initiated"
  /\ ~Claimed(u)
  /\ Begins(h, u, "complete")
  /\ Write(u, Moved(row[u], "Processing"))
  /\ UNCHANGED <<session, object, catalog, wf, reports, sweep>>

(* Mutant: an upload can be completed again until it has ended. *)
ClaimOpen(h, u) ==
  /\ u \notin Remote
  /\ session[u] # "none"
  /\ Open(u)
  /\ ~Claimed(u)
  /\ Begins(h, u, "complete")
  /\ UNCHANGED <<row, session, object, catalog, wf, reports, sweep>>

(* claim_for_processing: takes the row lock and leaves it uncommitted. *)
Claim(h, u) ==
  /\ u \notin Remote
  /\ session[u] # "none"
  /\ row[u].status = "Initiated"
  /\ ~Claimed(u)
  /\ Begins(h, u, "complete")
  /\ UNCHANGED <<row, session, object, catalog, wf, reports, sweep>>

(* S3 assembles the object, or says it already has. *)
Assemble(h) ==
  LET u == req[h].u IN
  /\ At(h, "complete")
  /\ session[u] = "open" \/ u \in object
  /\ session' = [session EXCEPT ![u] = "gone"]
  /\ object' = object \cup {u}
  /\ Goes(h, "submit")
  /\ UNCHANGED <<row, catalog, wf, reports, sweep>>

(* S3 could not complete it and has no such object: the claim is released, for
   the caller to fix the parts and try again. *)
CompleteRefused(h) ==
  /\ At(h, "complete")
  /\ req[h].u \notin object
  /\ Ends(h)
  /\ UNCHANGED <<row, session, object, catalog, wf, reports, sweep>>

(* start_processing in a deployment with no cluster. *)
NoCluster(h) ==
  LET u == req[h].u IN
  /\ At(h, "submit")
  /\ u \notin Clustered
  /\ Write(u, Updated(row[u], IF u \in Remote THEN "Error" ELSE "Uploaded"))
  /\ Ends(h)
  /\ UNCHANGED <<session, object, catalog, wf, reports, sweep>>

(* The workflow exists from here, even if the answer never arrives.  A
   workflow of that name answers 409, which counts as submitted. *)
Submit(h) ==
  LET u == req[h].u
      new == wf[u].phase \in {"absent", "gone"} IN
  /\ At(h, "submit")
  /\ u \in Clustered
  /\ IF new THEN wf' = [wf EXCEPT ![u] = NewRun] /\ Post(u, {"Fetching"})
            ELSE UNCHANGED <<wf, reports>>
  /\ Goes(h, "submitted")
  /\ UNCHANGED <<row, session, object, catalog, sweep>>

(* The submission raised, whether or not the workflow was created: a multipart
   upload rolls back to Initiated, a remote one is ended. *)
SubmitFailed(h) ==
  LET u == req[h].u IN
  /\ At(h, "submit") \/ At(h, "submitted")
  /\ u \in Clustered
  /\ Write(u, IF u \in Remote THEN Updated(row[u], "Error") ELSE row[u])
  /\ Ends(h)
  /\ UNCHANGED <<session, object, catalog, wf, reports, sweep>>

(* Mutant: the name is not recorded with the status. *)
SubmittedUnnamed(h) ==
  LET u == req[h].u IN
  /\ At(h, "submitted")
  /\ Write(u, Updated(row[u], "Processing"))
  /\ Ends(h)
  /\ UNCHANGED <<session, object, catalog, wf, reports, sweep>>

(* The submission answered: Processing, the name, and the commit. *)
Submitted(h) ==
  LET u == req[h].u IN
  /\ At(h, "submitted")
  /\ Write(u, Named(Updated(row[u], "Processing")))
  /\ Ends(h)
  /\ UNCHANGED <<session, object, catalog, wf, reports, sweep>>

-----------------------------------------------------------------------------
(* Aborting: the store first, then the row if it is still Initiated. *)

AbortSession(h, u) ==
  /\ session[u] # "none"
  /\ Begins(h, u, "abort")
  /\ session' = [session EXCEPT ![u] = "gone"]
  /\ UNCHANGED <<row, object, catalog, wf, reports, sweep>>

(* Mutant: a cancel does not ask whether the session is still open. *)
AbortAnyRow(h) ==
  LET u == req[h].u IN
  /\ At(h, "abort")
  /\ ~Claimed(u)
  /\ Write(u, Moved(row[u], "Aborted"))
  /\ Ends(h)
  /\ UNCHANGED <<session, object, catalog, wf, reports, sweep>>

AbortRow(h) ==
  LET u == req[h].u IN
  /\ At(h, "abort")
  /\ ~Claimed(u)
  /\ Write(u, IF row[u].status = "Initiated" THEN Moved(row[u], "Aborted") ELSE row[u])
  /\ Ends(h)
  /\ UNCHANGED <<session, object, catalog, wf, reports, sweep>>

(* The replica dies, the connection drops, or the next call raises: nothing
   more is written, and a claim is rolled back. *)
RequestDies(h) ==
  /\ ~At(h, "idle")
  /\ Ends(h)
  /\ UNCHANGED <<row, session, object, catalog, wf, reports, sweep>>

-----------------------------------------------------------------------------
(* The workflow, and what its pods report. *)

Running(u, stage) == wf[u].phase = "Running" /\ wf[u].stage = stage

(* A stage starts, and beside it the task that reports it. *)
Enter(u, stage, sent) ==
  wf' = [wf EXCEPT ![u].stage = stage] /\ Post(u, sent)

(* The fetch pod reads the metadata, and the source URL, over its token. *)
FetchAuthorized(u) ==
  /\ Running(u, "fetch")
  /\ row[u].token
  /\ row[u].source \/ u \in object
  /\ Enter(u, "transfer", {})
  /\ UNCHANGED <<row, session, object, catalog, req, sweep>>

(* The bytes are archived and on the workspace; the checksum call that follows
   may fail without failing the step. *)
Fetched(u) ==
  /\ Running(u, "transfer")
  /\ object' = object \cup {u}
  /\ Enter(u, "validate", {"checksum", "Validating"})
  /\ UNCHANGED <<row, session, catalog, req, sweep>>

Work(u) ==
  /\ \/ Running(u, "validate") /\ Enter(u, "convert", {"Converting"})
     \/ Running(u, "convert")  /\ Enter(u, "upload", {"Uploading"})
     \/ Running(u, "upload")   /\ Enter(u, "register", {"Registering"})
  /\ UNCHANGED <<row, session, object, catalog, req, sweep>>

(* Mutant: one pod more than the retry limit allows. *)
RegisterOnceMore(h, u) ==
  /\ Running(u, "register")
  /\ wf[u].attempts <= MaxAttempts
  /\ row[u].token
  /\ Begins(h, u, "authorized")
  /\ wf' = [wf EXCEPT ![u].attempts = @ + 1]
  /\ UNCHANGED <<row, session, object, catalog, reports, sweep>>

(* A register pod's call passes get_authorized. *)
RegisterAuthorized(h, u) ==
  /\ Running(u, "register")
  /\ wf[u].attempts < MaxAttempts
  /\ row[u].token
  /\ Begins(h, u, "authorized")
  /\ wf' = [wf EXCEPT ![u].attempts = @ + 1]
  /\ UNCHANGED <<row, session, object, catalog, reports, sweep>>

(* upsert_item commits in pgstac, on a connection of its own. *)
Upsert(h) ==
  /\ At(h, "authorized")
  /\ catalog' = catalog \cup {req[h].u}
  /\ Goes(h, "upserted")
  /\ UNCHANGED <<row, session, object, wf, reports, sweep>>

(* Mutant: success is left to the exit handler to report. *)
RegisteredUnrecorded(h) ==
  LET u == req[h].u IN
  /\ At(h, "upserted")
  /\ Ends(h)
  /\ \E heard \in BOOLEAN :
       wf' = IF heard /\ Running(u, "register")
             THEN [wf EXCEPT ![u].stage = "registered"] ELSE wf
  /\ UNCHANGED <<row, session, object, catalog, reports, sweep>>

(* The row is told, and the pod is answered unless it has stopped listening. *)
Registered(h) ==
  LET u == req[h].u IN
  /\ At(h, "upserted")
  /\ ~Claimed(u)
  /\ Write(u, Updated(row[u], "Succeeded"))
  /\ Ends(h)
  /\ \E heard \in BOOLEAN :
       wf' = IF heard /\ Running(u, "register")
             THEN [wf EXCEPT ![u].stage = "registered"] ELSE wf
  /\ UNCHANGED <<session, object, catalog, reports, sweep>>

WorkflowSucceeds(u) ==
  /\ Running(u, "registered")
  /\ wf' = [wf EXCEPT ![u].phase = "Succeeded"]
  /\ UNCHANGED <<row, session, object, catalog, req, reports, sweep>>

(* Mutant: any failure empties the upload's prefix. *)
FailsAndPurges(u) ==
  /\ wf[u].phase = "Running"
  /\ wf[u].stage # "exit"
  /\ object' = object \ {u}
  /\ Enter(u, "exit", {"Failed"})
  /\ UNCHANGED <<row, session, catalog, req, sweep>>

(* A step out of retries, or activeDeadlineSeconds: the exit handler reports
   Failed.  A failed fetch or validate also empties the upload's prefix. *)
WorkflowFails(u) ==
  /\ wf[u].phase = "Running"
  /\ wf[u].stage # "exit"
  /\ \/ object' = object
     \/ /\ wf[u].stage \in {"fetch", "transfer", "validate"}
        /\ object' = object \ {u}
  /\ Enter(u, "exit", {"Failed"})
  /\ UNCHANGED <<row, session, catalog, req, sweep>>

WorkflowCloses(u) ==
  /\ Running(u, "exit")
  /\ \E phase \in {"Failed", "Error"} : wf' = [wf EXCEPT ![u].phase = phase]
  /\ UNCHANGED <<row, session, object, catalog, req, reports, sweep>>

(* ttlStrategy: a minute after success, a day after failure - longer than any
   request or report lasts. *)
WorkflowCollected(u) ==
  /\ \/ wf[u].phase = "Succeeded"
     \/ wf[u].phase \in {"Failed", "Error"} /\ ~Served(u) /\ reports[u] = {}
  /\ wf' = [wf EXCEPT ![u].phase = "gone"]
  /\ UNCHANGED <<row, session, object, catalog, req, reports, sweep>>

(* workflow_status or report_checksum serves one of the calls; curl may be
   about to repeat it. *)
Report(u, m) ==
  /\ m \in reports[u]
  /\ ~Claimed(u)
  /\ Write(u, IF m = "checksum" THEN Checksummed(row[u]) ELSE Updated(row[u], m))
  /\ \E left \in {reports[u], reports[u] \ {m}} :
       reports' = [reports EXCEPT ![u] = left]
  /\ UNCHANGED <<session, object, catalog, req, wf, sweep>>

ReportLost(u, m) ==
  /\ m \in reports[u]
  /\ reports' = [reports EXCEPT ![u] = @ \ {m}]
  /\ UNCHANGED <<row, session, object, catalog, req, wf, sweep>>

-----------------------------------------------------------------------------
(* Time, and the reconciler. *)

(* Requests do not last RECONCILE_MAX_AGE_HOURS. *)
GrowOld(u) ==
  /\ Open(u)
  /\ \/ /\ row[u].age = "fresh"
        /\ Write(u, [row[u] EXCEPT !.age = "quiet"])
     \/ /\ row[u].age = "quiet" /\ ~Served(u)
        /\ Write(u, [row[u] EXCEPT !.age = "abandoned"])
  /\ UNCHANGED <<session, object, catalog, req, wf, reports, sweep>>

(* Mutant: the sweep only looks at rows a workflow was handed. *)
SweepReadNamed(u) ==
  /\ sweep.pc = "idle"
  /\ Open(u)
  /\ row[u].age # "fresh"
  /\ row[u].named
  /\ sweep' = [NoSweep EXCEPT !.pc = "read", !.u = u, !.status = row[u].status,
                              !.named = row[u].named, !.aged = row[u].age = "abandoned"]
  /\ UNCHANGED <<row, session, object, catalog, req, wf, reports>>

(* The sweep reads its candidates once and works from that copy. *)
SweepRead(u) ==
  /\ sweep.pc = "idle"
  /\ Open(u)
  /\ row[u].age # "fresh"
  /\ sweep' = [NoSweep EXCEPT !.pc = "read", !.u = u, !.status = row[u].status,
                              !.named = row[u].named, !.aged = row[u].age = "abandoned"]
  /\ UNCHANGED <<row, session, object, catalog, req, wf, reports>>

(* What Argo says of the workflow a row names: its phase, or that it has none. *)
Phase(u) == IF wf[u].phase = "absent" THEN "gone" ELSE wf[u].phase

(* Mutant: age ends a row whatever Argo says of its workflow. *)
VerdictByAge(asked, phase, aged) ==
  CASE asked /\ phase = "gone"               -> "Error"
    [] asked /\ phase \in {"Failed", "Error"} -> phase
    [] OTHER                                 -> IF aged THEN "Aborted" ELSE "absent"

(* Mutant: a workflow Argo no longer knows is taken for one still queued. *)
VerdictOfGone(asked, phase, aged) ==
  CASE asked /\ phase \in {"Failed", "Error"}  -> phase
    [] asked /\ phase \in {"gone", "Running"} -> "absent"
    [] OTHER                                  -> IF aged THEN "Aborted" ELSE "absent"

(* _outcome, then the age rule.  "absent" leaves the row for the next sweep. *)
Verdict(asked, phase, aged) ==
  CASE asked /\ phase = "gone"               -> "Error"
    [] asked /\ phase \in {"Failed", "Error"} -> phase
    [] asked /\ phase = "Running"            -> "absent"
    [] OTHER                                 -> IF aged THEN "Aborted" ELSE "absent"

SweepDecide ==
  LET verdict == Verdict(sweep.named /\ sweep.u \in Clustered, Phase(sweep.u), sweep.aged) IN
  /\ sweep.pc = "read"
  /\ sweep' = IF verdict = "absent" THEN NoSweep
              ELSE [sweep EXCEPT !.pc = "decided", !.outcome = verdict]
  /\ UNCHANGED <<row, session, object, catalog, req, wf, reports>>

(* Mutant: the sweep's answer replaces one that arrived in the meantime. *)
SweepFinalizeAny ==
  /\ sweep.pc = "decided"
  /\ ~Claimed(sweep.u)
  /\ Write(sweep.u, Moved(row[sweep.u], sweep.outcome))
  /\ sweep' = NoSweep
  /\ UNCHANGED <<session, object, catalog, req, wf, reports>>

(* finalize_stalled: only if the row still has the status the sweep read. *)
SweepFinalize ==
  LET u == sweep.u IN
  /\ sweep.pc = "decided"
  /\ ~Claimed(u)
  /\ Write(u, IF row[u].status = sweep.status THEN Moved(row[u], sweep.outcome) ELSE row[u])
  /\ sweep' = NoSweep
  /\ UNCHANGED <<session, object, catalog, req, wf, reports>>

(* Argo does not answer, or the replica holding the advisory lock dies. *)
SweepCut ==
  /\ sweep.pc # "idle"
  /\ sweep' = NoSweep
  /\ UNCHANGED <<row, session, object, catalog, req, wf, reports>>

-----------------------------------------------------------------------------
RequestStep(h) ==
  \/ OpenSession(h) \/ SessionRefused(h)
  \/ Assemble(h) \/ CompleteRefused(h)
  \/ NoCluster(h) \/ Submit(h) \/ SubmitFailed(h) \/ Submitted(h)
  \/ AbortRow(h) \/ Upsert(h) \/ Registered(h) \/ RequestDies(h)

Request(h, u) ==
  Create(h, u) \/ Claim(h, u) \/ AbortSession(h, u) \/ RegisterAuthorized(h, u)

Workflow(u) ==
  \/ FetchAuthorized(u) \/ Fetched(u) \/ Work(u)
  \/ WorkflowSucceeds(u) \/ WorkflowFails(u) \/ WorkflowCloses(u) \/ WorkflowCollected(u)

Sweep == SweepDecide \/ SweepFinalize \/ SweepCut

Next ==
  \/ \E h \in Handlers : RequestStep(h) \/ \E u \in Uploads : Request(h, u)
  \/ \E u \in Uploads : Touch(u) \/ Workflow(u) \/ GrowOld(u) \/ SweepRead(u)
  \/ \E u \in Uploads : \E m \in Messages : Report(u, m) \/ ReportLost(u, m)
  \/ Sweep

Spec == Init /\ [][Next]_vars

-----------------------------------------------------------------------------
(* Safety. *)

(* The callback token lives exactly as long as the upload: a workflow of an
   open upload can always report, and one whose upload has ended never can.  A
   source URL, which may carry a credential, does not outlive it either. *)
SecretsEnd(u) == (row[u].token <=> Open(u)) /\ (row[u].source => Open(u))
SecretsEndWithUpload == \A u \in Uploads : SecretsEnd(u)

(* An upload that says Succeeded is in the catalogue, and the bytes its item
   points at are in the bucket: no abort, cleanup or second run took them. *)
SucceededIsPublished ==
  \A u \in Uploads : row[u].status = "Succeeded" => u \in catalog /\ u \in object

(* A workflow that succeeded has already ended its row: why the reconciler may
   leave the phase Succeeded to nobody and the workflow may go in a minute. *)
SuccessfulWorkflowEndedRow ==
  \A u \in Uploads : wf[u].phase = "Succeeded" => Ended(u)

(* A row that says Processing names a workflow that was really created, so the
   reconciler can ask after it even if every report is lost. *)
ProcessingIsHandedOver(u) ==
  row[u].status = "Processing" => row[u].named /\ wf[u].phase # "absent"
ProcessingHasWorkflow == \A u \in Uploads : ProcessingIsHandedOver(u)

(* Completing twice does not run the pipeline twice: a run of a multipart
   upload only ever starts from an Initiated row whose object is in place. *)
RunsStartFromInitiated ==
  [][\A u \in Uploads \ Remote :
       wf'[u].phase = "Running" /\ wf[u].phase # "Running"
         => row[u].status = "Initiated" /\ u \in object]_vars

(* The first result stands: no late report, abort, failed session, submission
   or sweep rewrites an upload that has ended. *)
EndIsFinal ==
  [][\A u \in Uploads : Ended(u) => row'[u].status = row[u].status]_vars

(* The reconciler does not orphan a workflow: while one its row names is still
   running, the sweep does not end the row. *)
SweepSparesRunning ==
  [][\A u \in Uploads :
       sweep.pc = "decided" /\ sweep' = NoSweep /\ row'[u].status # row[u].status
         => ~(row[u].named /\ wf[u].phase = "Running")]_vars

(* The lifecycle keeps the promise of UploadPromise: statuses move forward and
   end once, and Succeeded is only said of what the catalogue holds. *)
Promise == INSTANCE UploadPromise
             WITH status <- [u \in Uploads |-> row[u].status], published <- catalog
KeepsPromise == Promise!PromiseSpec

-----------------------------------------------------------------------------
(* What comments of the code say, and the code does not do. *)

(* "an aborted upload's workflow cannot go on to register the item the user
   just cancelled". *)
AbortedNeverRegisters ==
  [][\A u \in Uploads : row[u].status = "Aborted" /\ u \in catalog' => u \in catalog]_vars

(* "Nothing was ever handed to a cluster": a row the sweep ends on its age alone,
   for naming no workflow, has none running. *)
UnnamedHasNoWorkflow ==
  [][\A u \in Uploads :
       sweep.pc = "decided" /\ sweep' = NoSweep /\ row'[u].status # row[u].status
         => sweep.named \/ wf[u].phase # "Running"]_vars

-----------------------------------------------------------------------------
(* Liveness. *)

(* Requests are served or die, a pod stops repeating a call, time passes, a
   workflow ends at its deadline, and the reconciler keeps sweeping: its write
   waits its turn for the row lock, and Argo answers it now and then. *)
Fairness ==
  /\ \A h \in Handlers : WF_vars(RequestStep(h))
  /\ \A u \in Uploads :
       /\ WF_vars(WorkflowFails(u) \/ WorkflowSucceeds(u))
       /\ WF_vars(WorkflowCloses(u))
       /\ SF_vars(GrowOld(u))
       /\ SF_vars(SweepRead(u))
       /\ \A m \in Messages : WF_vars(ReportLost(u, m))
  /\ SF_vars(SweepDecide)
  /\ SF_vars(SweepFinalize)

FairSpec == Spec /\ Fairness

(* An upload handed to processing ends, whatever reports and replies are lost. *)
ProcessingEnds ==
  \A u \in Uploads : row[u].status \notin {"absent", "Initiated"} ~> Ended(u)

(* An upload its owner has left ends too, wherever they left it. *)
AbandonedEnds ==
  \A u \in Uploads :
    <>[](~Served(u) /\ (Open(u) => row[u].age # "fresh")) => (Open(u) ~> Ended(u))
=============================================================================
