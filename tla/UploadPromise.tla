---------------------------- MODULE UploadPromise ---------------------------
(***************************************************************************)
(* What the uploader promises of an upload, without a database, a cluster  *)
(* or a reconciler: a status that only moves forward and ends once, and a  *)
(* catalogue that is never told of a success it does not hold.             *)
(*                                                                         *)
(* Publishing is not tied to the status: the catalogue is another          *)
(* database, written before the row is, and the row may end in between.    *)
(***************************************************************************)
EXTENDS UploadStatus

CONSTANT Uploads

VARIABLES
  status,     \* of each upload; "absent" before it is created
  published   \* the uploads with an item in the catalogue

promiseVars == <<status, published>>

Open(u)  == status[u] \in Stages
Ended(u) == status[u] \in TERMINAL_STATUSES

PromiseInit == status = [u \in Uploads |-> "absent"] /\ published = {}

Begin(u) ==
  /\ status[u] = "absent"
  /\ status' = [status EXCEPT ![u] = "Initiated"]
  /\ UNCHANGED published

Progress(u) ==
  /\ Open(u)
  /\ \E s \in Stages : Rank[s] > Rank[status[u]] /\ status' = [status EXCEPT ![u] = s]
  /\ UNCHANGED published

Publish(u) ==
  /\ status[u] # "absent"
  /\ published' = published \cup {u}
  /\ UNCHANGED status

Succeed(u) ==
  /\ Open(u)
  /\ u \in published
  /\ status' = [status EXCEPT ![u] = "Succeeded"]
  /\ UNCHANGED published

End(u) ==
  /\ Open(u)
  /\ \E s \in UNSUCCESSFUL \cup {"Uploaded"} : status' = [status EXCEPT ![u] = s]
  /\ UNCHANGED published

PromiseNext ==
  \E u \in Uploads : Begin(u) \/ Progress(u) \/ Publish(u) \/ Succeed(u) \/ End(u)

PromiseSpec == PromiseInit /\ [][PromiseNext]_promiseVars
=============================================================================
