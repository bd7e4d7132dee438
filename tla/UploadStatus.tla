---------------------------- MODULE UploadStatus ----------------------------
(***************************************************************************)
(* The states an upload row can be in and the rule that moves it between   *)
(* them: app/db/models.py of the uploader API.  Pure operators, no state.  *)
(***************************************************************************)
EXTENDS Naturals

(* What a workflow posts on its way, in the order the work happens. *)
Stages == {"Initiated", "Processing", "Fetching", "Downloading", "Validating",
           "Converting", "Uploading", "Registering"}

(* Nothing follows these. *)
TERMINAL_STATUSES == {"Uploaded", "Succeeded", "Failed", "Error", "Aborted"}

(* Terminal, and the external_id is free to be used again. *)
UNSUCCESSFUL == {"Failed", "Error", "Aborted"}

Status == Stages \cup TERMINAL_STATUSES

(* Declaration order of the enumeration is progress order. *)
Rank == [s \in Status |->
          CASE s = "Initiated"   -> 0  [] s = "Processing"  -> 1
            [] s = "Fetching"    -> 2  [] s = "Downloading" -> 3
            [] s = "Validating"  -> 4  [] s = "Converting"  -> 5
            [] s = "Uploading"   -> 6  [] s = "Registering" -> 7
            [] s = "Uploaded"    -> 8  [] s = "Succeeded"   -> 9
            [] s = "Failed"      -> 10 [] s = "Error"       -> 11
            [] s = "Aborted"     -> 12]

(* status_transition's first answer: whether to apply the update ... *)
Applies(current, new) ==
  /\ current \notin TERMINAL_STATUSES
  /\ Rank[new] >= Rank[current]

(* ... and its second: whether the update spends the callback token. *)
Expires(new) == new \in TERMINAL_STATUSES
=============================================================================
