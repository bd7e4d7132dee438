------------------------- MODULE MCUploadLifecycle -------------------------
(* UploadLifecycle for TLC. *)
EXTENDS UploadLifecycleInv, TLC

(* One slot of Handlers is as good as another. *)
Symmetric == Permutations(Handlers)

(* Uploads of every kind, one to a behaviour: they meet nowhere but in the
   slots and the sweep, which take them one at a time. *)
CreateAlone(h, u) == (\A v \in Uploads : row[v].status = "absent") /\ Create(h, u)

AloneNext ==
  \/ \E h \in Handlers : RequestStep(h)
  \/ \E h \in Handlers : \E u \in Uploads :
       CreateAlone(h, u) \/ Claim(h, u) \/ AbortSession(h, u) \/ RegisterAuthorized(h, u)
  \/ \E u \in Uploads : Touch(u) \/ Workflow(u) \/ GrowOld(u) \/ SweepRead(u)
  \/ \E u \in Uploads : \E m \in Messages : Report(u, m) \/ ReportLost(u, m)
  \/ Sweep

AloneSpec == Init /\ [][AloneNext]_vars
AloneFair == AloneSpec /\ Fairness

(* A workflow lasts at most activeDeadlineSeconds, six hours: none is running
   at the moment its row turns a day old. *)
WithinDeadline ==
  \A u \in Uploads :
    row[u].age # "abandoned" /\ row'[u].age = "abandoned" => wf[u].phase # "Running"
=============================================================================
