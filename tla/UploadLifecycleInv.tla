------------------------- MODULE UploadLifecycleInv -------------------------
(***************************************************************************)
(* The inductive invariant of UploadLifecycle: what each point of a        *)
(* request, each stage of a workflow and each step of the sweep may rely   *)
(* on, said of one upload at a time.  TLC checks it beside the properties  *)
(* it supports, and UploadLifecycleProofs proves it.                       *)
(***************************************************************************)
EXTENDS UploadLifecycle

Registering == {"authorized", "upserted"}
Submitting  == {"submit", "submitted"}
Late        == {"register", "registered", "exit"}

(* A slot works on an upload exactly when it is busy. *)
SlotsBusy == \A h \in Handlers : req[h].u = NoUpload <=> req[h].pc = "idle"

(* The sweep holds an upload it found open, and an outcome that ends it. *)
SweepHolds ==
  /\ sweep.pc = "idle"    => sweep.u = NoUpload
  /\ sweep.pc # "idle"    => sweep.u \in Uploads /\ sweep.status \in Stages
  /\ sweep.pc = "decided" => sweep.outcome \in UNSUCCESSFUL

(* Nobody knows of an upload before its row is committed. *)
Unborn(u) ==
  row[u].status = "absent" =>
    /\ session[u] = "none"
    /\ wf[u] = NoRun
    /\ reports[u] = {}
    /\ u \notin catalog
    /\ \A h \in Handlers : req[h].u # u
    /\ sweep.u # u

(* While S3 is asked for a session, the request is alone with its upload: its
   failure, recorded whatever the status, overwrites nothing. *)
SessionAlone(u) ==
  \A h \in Handlers : req[h].u = u /\ req[h].pc = "session" =>
    /\ row[u].status = "Initiated"
    /\ row[u].age # "abandoned"
    /\ ~row[u].named
    /\ session[u] = "none"
    /\ wf[u] = NoRun
    /\ reports[u] = {}
    /\ \A g \in Handlers : req[g].u = u => g = h
    /\ sweep.u = u => sweep.pc = "read" /\ ~sweep.named /\ ~sweep.aged

(* The claim on a multipart row: it is still Initiated for everyone else, and
   nobody else has it. *)
Claims(h, u) ==
  /\ req[h].u = u
  /\ \/ req[h].pc = "complete"
     \/ req[h].pc \in Submitting /\ u \notin Remote
ClaimHolds(u) ==
  \A h \in Handlers : Claims(h, u) =>
    /\ u \notin Remote
    /\ row[u].status = "Initiated"
    /\ \A g \in Handlers : Claims(g, u) => g = h

(* A submitted workflow exists.  A remote upload is submitted by the request
   that created it, once; a new run of a multipart one finds its object. *)
SubmitSound(u) ==
  \A h \in Handlers : req[h].u = u =>
    /\ req[h].pc = "submitted" => wf[u].phase # "absent"
    /\ req[h].pc = "submit" /\ u \in Remote => wf[u] = NoRun
    /\ req[h].pc = "submit" /\ wf[u].phase \in {"absent", "gone"} =>
         u \in Remote \/ u \in object
RemoteOnce(u) ==
  u \in Remote =>
    \A g, h \in Handlers :
      req[g].u = u /\ req[h].u = u /\ req[g].pc \in Submitting /\ req[h].pc \in Submitting
        => g = h

(* What the stage a workflow has reached says of the row and the bucket. *)
StageMeans(u) ==
  /\ wf[u].phase = "absent" => wf[u] = NoRun
  /\ wf[u].phase = "Succeeded" => wf[u].stage = "registered"
  /\ wf[u].phase = "gone" => wf[u].stage \in Late
  /\ wf[u].stage = "registered" => Ended(u)
  /\ wf[u].phase \in {"Failed", "Error"} => wf[u].stage = "exit"
  /\ wf[u].stage \in {"validate", "convert", "upload", "register"} => u \in object
SucceededLate(u) ==
  row[u].status = "Succeeded" => wf[u].stage \in Late /\ u \in catalog /\ u \in object

(* A register call was let in by a run that had the object in place, and no
   new run starts under it. *)
RegisterLate(u) ==
  \A h \in Handlers : req[h].u = u /\ req[h].pc \in Registering =>
    /\ wf[u].stage \in Late
    /\ wf[u].phase = "gone" => Ended(u)
    /\ u \in object
    /\ req[h].pc = "upserted" => u \in catalog

UploadInv(u) ==
  /\ SecretsEnd(u)
  /\ Unborn(u)
  /\ SessionAlone(u)
  /\ ClaimHolds(u)
  /\ SubmitSound(u)
  /\ RemoteOnce(u)
  /\ StageMeans(u)
  /\ SucceededLate(u)
  /\ RegisterLate(u)
  /\ ProcessingIsHandedOver(u)

IInv ==
  /\ TypeOK
  /\ SlotsBusy
  /\ SweepHolds
  /\ \A u \in Uploads : UploadInv(u)
=============================================================================
