------------------------------ MODULE Tilepack ------------------------------
(***************************************************************************)
(* Tile archives of one catalogue item: postTilepack, the Kubernetes Jobs  *)
(* it creates, their worker pods, and the assets they add to the item.     *)
(*                                                                         *)
(* Clients poll one variant each, by posting the same request again.  The  *)
(* API keeps no state: everything is read from the item, the bucket and    *)
(* the Jobs, one call at a time, while others change it.                   *)
(***************************************************************************)
EXTENDS Naturals, FiniteSets

CONSTANTS
  Clients,    \* who ask
  Variants,   \* of "pmtiles", "mbtiles" (canonical) and "custom" (own zooms)
  MaxJobs,    \* cfg.MaxConcurrentJobs
  MaxFaults,  \* bound: how many things go wrong
  Loses       \* whether archives may vanish from the bucket

ASSUME VariantsKnown  == Variants \subseteq {"pmtiles", "mbtiles", "custom"}
ASSUME ClientsApart   == Clients \cap Variants = {}
ASSUME MaxJobsIsNat   == MaxJobs \in Nat
ASSUME MaxFaultsIsNat == MaxFaults \in Nat
ASSUME LosesIsAFlag   == Loses \in BOOLEAN

VARIABLES
  req,     \* each client's request: where it is, what it saw of the item, its answer
  job,     \* each variant's Job
  pod,     \* each Job's worker: where it is, and how many there have been
  lock,    \* each variant's lock object
  stored,  \* the archives in the bucket
  assets,  \* the item's tile assets
  txn,     \* each caller's AddAsset
  faults

cluster == <<job, pod>>
bucket  == <<lock, stored>>
item    == <<assets, txn>>
vars    == <<req, cluster, bucket, item, faults>>

Archives     == {"pmtiles", "mbtiles", "custom"}
Canonical(v) == v # "custom"
Writers      == Clients \cup Variants   \* requests, and workers through the API
Attempts     == 3                       \* of AddAsset
Pods         == 2                       \* BackoffLimit is 1

NoTxn == [state |-> "none", key |-> "none", snap |-> {}, behind |-> FALSE, tries |-> 0]
NoPod == [pc |-> "none", tries |-> 0]

TypeOK ==
  /\ req \in [Clients -> [pc : {"idle", "asked", "read", "patching", "unbuilt", "jobless",
                                "unlocked", "counted", "locked"},
                          v : Variants, has : BOOLEAN,
                          ans : {"retry", "ready"}]]
  /\ job \in [Variants -> {"absent", "active", "succeeded", "failed"}]
  /\ pod \in [Variants -> [pc : {"none", "run", "made", "stored", "registering",
                                 "registered", "also", "done"}, tries : 0..Pods]]
  /\ lock \in [Variants -> {"none", "fresh", "stale"}]
  /\ stored \subseteq Archives
  /\ assets \subseteq Archives
  /\ txn \in [Writers -> [state : {"none", "open", "done", "failed"},
                          key : Archives \cup {"none"}, snap : SUBSET Archives,
                          behind : BOOLEAN, tries : 0..Attempts]]
  /\ faults \in 0..MaxFaults

Init ==
  /\ req \in [Clients -> {[pc |-> "idle", v |-> v, has |-> FALSE, ans |-> "retry"] : v \in Variants}]
  /\ job = [v \in Variants |-> "absent"]
  /\ pod = [v \in Variants |-> NoPod]
  /\ lock = [v \in Variants |-> "none"]
  /\ stored = {} /\ assets = {}
  /\ txn = [a \in Writers |-> NoTxn]
  /\ faults = 0

Fault == faults < MaxFaults /\ faults' = faults + 1

-----------------------------------------------------------------------------
(* AddAsset: read the item, write it back with one asset more. *)

Begin(a, key) == txn' = [txn EXCEPT ![a] =
  [state |-> "open", key |-> key, snap |-> assets, behind |-> FALSE, tries |-> @.tries + 1]]

(* Mutant: read committed. *)
CommitAsset(a) ==
  /\ txn[a].state = "open"
  /\ assets' = txn[a].snap \cup {txn[a].key}
  /\ txn' = [txn EXCEPT ![a].state = "done"]
  /\ UNCHANGED <<req, cluster, bucket, faults>>

(* Serializable: whoever committed first overtakes the others. *)
Commit(a) ==
  /\ txn[a].state = "open" /\ ~txn[a].behind
  /\ assets' = txn[a].snap \cup {txn[a].key}
  /\ txn' = [b \in Writers |-> IF b = a THEN [txn[a] EXCEPT !.state = "done"]
                                       ELSE [txn[b] EXCEPT !.behind = @ \/ txn[b].state = "open"]]
  /\ UNCHANGED <<req, cluster, bucket, faults>>

(* Error 40001. *)
Again(a) ==
  /\ txn[a].state = "open" /\ txn[a].behind
  /\ IF txn[a].tries < Attempts
       THEN Begin(a, txn[a].key)
       ELSE txn' = [txn EXCEPT ![a].state = "failed"]
  /\ UNCHANGED <<req, cluster, bucket, assets, faults>>

AssetFails(a) ==
  /\ txn[a].state = "open" /\ Fault
  /\ txn' = [txn EXCEPT ![a].state = "failed"]
  /\ UNCHANGED <<req, cluster, bucket, assets>>

Settle(a) == txn' = [txn EXCEPT ![a] = NoTxn]

-----------------------------------------------------------------------------
(* postTilepack. *)

At(c, pc)       == req[c].pc = pc
To(c, pc)       == req' = [req EXCEPT ![c].pc = pc]

(* "ready" ends the polling, every other answer asks the client to come back. *)
Answer(c, kind) ==
  req' = [req EXCEPT ![c].pc = "idle", ![c].has = FALSE,
                     ![c].ans = IF kind = "ready" THEN "ready" ELSE "retry"]

Post(c) ==
  /\ At(c, "idle") /\ req[c].ans # "ready"
  /\ To(c, "asked")
  /\ UNCHANGED <<cluster, bucket, item, faults>>

GetItem(c) ==
  /\ At(c, "asked")
  /\ req' = [req EXCEPT ![c].pc = "read", ![c].has = req[c].v \in assets]
  /\ UNCHANGED <<cluster, bucket, item, faults>>

(* In the bucket, and in the item if it belongs there. *)
Ready(c) ==
  /\ At(c, "read") /\ req[c].v \in stored
  /\ Canonical(req[c].v) => req[c].has
  /\ Answer(c, "ready")
  /\ UNCHANGED <<cluster, bucket, item, faults>>

(* In the bucket only, or in the item in another form. *)
Patch(c) ==
  /\ At(c, "read") /\ req[c].v \in stored /\ Canonical(req[c].v)
  /\ Begin(c, req[c].v)
  /\ To(c, "patching")
  /\ UNCHANGED <<cluster, bucket, assets, faults>>

(* Mutant: the archive is there, so the answer is ready. *)
PatchedOrNot(c) ==
  /\ At(c, "patching") /\ txn[c].state \in {"done", "failed"}
  /\ Answer(c, "ready")
  /\ Settle(c)
  /\ UNCHANGED <<cluster, bucket, assets, faults>>

Patched(c) ==
  /\ At(c, "patching") /\ txn[c].state \in {"done", "failed"}
  /\ Answer(c, IF txn[c].state = "done" THEN "ready" ELSE "error")
  /\ Settle(c)
  /\ UNCHANGED <<cluster, bucket, assets, faults>>

Unbuilt(c) ==
  /\ At(c, "read") /\ req[c].v \notin stored
  /\ To(c, "unbuilt")
  /\ UNCHANGED <<cluster, bucket, item, faults>>

JobActive(c) ==
  /\ At(c, "unbuilt") /\ job[req[c].v] = "active"
  /\ Answer(c, "in_progress")
  /\ UNCHANGED <<cluster, bucket, item, faults>>

(* Failed, or succeeded with nothing to show.  Releasing the lock may fail. *)
JobOver(c) ==
  /\ At(c, "unbuilt") /\ job[req[c].v] \in {"failed", "succeeded"}
  /\ \/ lock' = [lock EXCEPT ![req[c].v] = "none"] /\ UNCHANGED faults
     \/ UNCHANGED lock /\ Fault
  /\ Answer(c, "failed")
  /\ UNCHANGED <<cluster, stored, item>>

NoJob(c) ==
  /\ At(c, "unbuilt") /\ job[req[c].v] = "absent"
  /\ To(c, "jobless")
  /\ UNCHANGED <<cluster, bucket, item, faults>>

LockHeld(c) ==
  /\ At(c, "jobless") /\ lock[req[c].v] = "fresh"
  /\ Answer(c, "in_progress")
  /\ UNCHANGED <<cluster, bucket, item, faults>>

(* Mutant: a lock is a lock, however old. *)
LockAbsent(c) ==
  /\ At(c, "jobless") /\ lock[req[c].v] = "none"
  /\ To(c, "unlocked")
  /\ UNCHANGED <<cluster, bucket, item, faults>>

(* None, or past its TTL; a lock that cannot be read is no obstacle. *)
LockFree(c) ==
  /\ At(c, "jobless")
  /\ \/ lock[req[c].v] # "fresh" /\ UNCHANGED faults
     \/ Fault
  /\ To(c, "unlocked")
  /\ UNCHANGED <<cluster, bucket, item>>

(* Jobs with an active pod. *)
Active == {v \in Variants : job[v] = "active" /\ pod[v].pc # "none"}

Busy(c) ==
  /\ At(c, "unlocked") /\ Cardinality(Active) >= MaxJobs
  /\ Answer(c, "busy")
  /\ UNCHANGED <<cluster, bucket, item, faults>>

CapFree(c) ==
  /\ At(c, "unlocked") /\ Cardinality(Active) < MaxJobs
  /\ To(c, "counted")
  /\ UNCHANGED <<cluster, bucket, item, faults>>

PutLock(c) ==
  /\ At(c, "counted")
  /\ lock' = [lock EXCEPT ![req[c].v] = "fresh"]
  /\ To(c, "locked")
  /\ UNCHANGED <<cluster, stored, item, faults>>

Created(v) == job' = [job EXCEPT ![v] = "active"] /\ UNCHANGED pod

CreateJob(c) ==
  /\ At(c, "locked")
  /\ \/ job[req[c].v] = "absent" /\ Created(req[c].v) /\ Answer(c, "started")
     \/ job[req[c].v] # "absent" /\ Answer(c, "in_progress") /\ UNCHANGED cluster
  /\ UNCHANGED <<bucket, item, faults>>

(* An error, though the Job may have been created: let go of the lock. *)
CreateFails(c) ==
  /\ At(c, "locked") /\ Fault
  /\ \/ UNCHANGED cluster
     \/ job[req[c].v] = "absent" /\ Created(req[c].v)
  /\ lock' \in {lock, [lock EXCEPT ![req[c].v] = "none"]}
  /\ Answer(c, "error")
  /\ UNCHANGED <<stored, item>>

(* A lookup fails, the client hangs up, or the API stops: nothing is undone. *)
Breaks(c) ==
  /\ ~At(c, "idle") /\ Fault
  /\ Answer(c, "error")
  /\ Settle(c)
  /\ UNCHANGED <<cluster, bucket, assets>>

-----------------------------------------------------------------------------
(* A Job and its worker, generate.py. *)

In(v, pc)  == pod[v].pc = pc
Now(v, pc) == pod' = [pod EXCEPT ![v].pc = pc]

StartPod(v) ==
  /\ job[v] = "active" /\ In(v, "none") /\ pod[v].tries < Pods
  /\ pod' = [pod EXCEPT ![v] = [pc |-> "run", tries |-> @.tries + 1]]
  /\ UNCHANGED <<req, job, bucket, item, faults>>

(* Mutant: the MBTiles are kept once the PMTiles are made. *)
RenderFirst(v) ==
  /\ In(v, "run") /\ Now(v, "made")
  /\ UNCHANGED <<req, job, lock, stored, item, faults>>

(* PMTiles are converted from MBTiles, which are kept as well. *)
Render(v) ==
  /\ In(v, "run") /\ Now(v, "made")
  /\ stored' = IF v = "pmtiles" THEN stored \cup {"mbtiles"} ELSE stored
  /\ UNCHANGED <<req, job, lock, item, faults>>

(* A custom archive is not registered: its worker is done. *)
Store(v) ==
  /\ In(v, "made") /\ Now(v, IF Canonical(v) THEN "stored" ELSE "done")
  /\ stored' = stored \cup {v}
  /\ UNCHANGED <<req, job, lock, item, faults>>

(* PMTiles register their MBTiles too. *)
Register(v) ==
  \/ /\ In(v, "stored")
     /\ Now(v, "registering") /\ Begin(v, v)
     /\ UNCHANGED <<req, job, bucket, assets, faults>>
  \/ /\ In(v, "registering") /\ txn[v].state = "done"
     /\ Now(v, IF v = "pmtiles" THEN "registered" ELSE "done") /\ Settle(v)
     /\ UNCHANGED <<req, job, bucket, assets, faults>>
  \/ /\ In(v, "registered")
     /\ Now(v, "also") /\ Begin(v, "mbtiles")
     /\ UNCHANGED <<req, job, bucket, assets, faults>>
  \/ /\ In(v, "also") /\ txn[v].state = "done"
     /\ Now(v, "done") /\ Settle(v)
     /\ UNCHANGED <<req, job, bucket, assets, faults>>

(* A lock that delete_lock fails to delete is left behind, and nobody told. *)
Exit(v) ==
  /\ In(v, "done")
  /\ pod' = [pod EXCEPT ![v] = NoPod]
  /\ job' = [job EXCEPT ![v] = "succeeded"]
  /\ \/ lock' = [lock EXCEPT ![v] = "none"] /\ UNCHANGED faults
     \/ Fault /\ UNCHANGED lock
  /\ UNCHANGED <<req, stored, item>>

(* The pod ends without success; one killed outright leaves the lock.  Its
   request is dropped. *)
Ends(v) ==
  /\ lock' \in {lock, [lock EXCEPT ![v] = "none"]}
  /\ Settle(v)
  /\ \/ job' = [job EXCEPT ![v] = "failed"] /\ pod' = [pod EXCEPT ![v] = NoPod]
     \/ pod[v].tries < Pods /\ pod' = [pod EXCEPT ![v].pc = "none"] /\ UNCHANGED job
  /\ UNCHANGED <<req, stored, assets>>

PodFails(v) == ~In(v, "none") /\ Fault /\ Ends(v)

(* The API refused the asset. *)
RegisterFails(v) == txn[v].state = "failed" /\ UNCHANGED faults /\ Ends(v)

(* The finished Job's TTL. *)
Collect(v) ==
  /\ job[v] \in {"succeeded", "failed"}
  /\ job' = [job EXCEPT ![v] = "absent"]
  /\ UNCHANGED <<req, pod, bucket, item, faults>>

(* The lock's TTL. *)
Age(v) ==
  /\ lock[v] = "fresh"
  /\ lock' = [lock EXCEPT ![v] = "stale"]
  /\ UNCHANGED <<req, cluster, stored, item, faults>>

Vanish(v) ==
  /\ Loses /\ v \in stored /\ Fault
  /\ stored' = stored \ {v}
  /\ UNCHANGED <<req, cluster, lock, item>>

-----------------------------------------------------------------------------
Write(a) == Commit(a) \/ Again(a)

Serve(c) ==
  \/ GetItem(c) \/ Ready(c) \/ Patch(c) \/ Patched(c) \/ Unbuilt(c)
  \/ JobActive(c) \/ JobOver(c) \/ NoJob(c) \/ LockHeld(c) \/ LockFree(c)
  \/ Busy(c) \/ CapFree(c) \/ PutLock(c) \/ CreateJob(c)

Work(v) ==
  StartPod(v) \/ Render(v) \/ Store(v) \/ Register(v) \/ Exit(v) \/ RegisterFails(v)

Next ==
  \/ \E c \in Clients : Post(c) \/ Serve(c) \/ CreateFails(c) \/ Breaks(c)
  \/ \E v \in Variants : Work(v) \/ PodFails(v) \/ Collect(v) \/ Age(v) \/ Vanish(v)
  \/ \E a \in Writers : Write(a) \/ AssetFails(a)

Spec == Init /\ [][Next]_vars

(* Clients poll, requests are served, Jobs run, and clocks go on. *)
FairSpec ==
  /\ Spec
  /\ \A c \in Clients : WF_vars(Post(c)) /\ WF_vars(Serve(c))
  /\ \A v \in Variants : WF_vars(Work(v)) /\ WF_vars(Collect(v)) /\ WF_vars(Age(v))
  /\ \A a \in Writers : WF_vars(Write(a))

-----------------------------------------------------------------------------
(* The catalogue never announces an archive that is not in the bucket: workers
   upload first, and every path that patches the item has seen the object. *)
AssetsAreStored == ~Loses => assets \subseteq stored

(* An asset is never lost to a concurrent registration of the other format. *)
AssetsStay == [][assets \subseteq assets']_vars

(* A client told "ready" can download, and finds a canonical archive in the
   item, whichever of the pod, its callback and the lock was lost on the way. *)
ReadyMeansBoth ==
  \A c \in Clients : req[c].ans = "ready" =>
    /\ ~Loses => req[c].v \in stored
    /\ Canonical(req[c].v) => req[c].v \in assets

(* Neither the item nor an answer promises an archive that cannot be had. *)
PromisesKept == TypeOK /\ AssetsAreStored /\ ReadyMeansBoth

(* The service keeps the promise of TilepackPromise: archives are made for those
   who ask, PMTiles after their MBTiles, and are named once they are there; no
   failed pod, late Job or second request takes one away or a "ready" back. *)
Service == INSTANCE TilepackPromise
             WITH wants <- [c \in Clients |-> req[c].v],
                  told <- {c \in Clients : req[c].ans = "ready"},
                  archives <- stored, listed <- assets
ServedAsPromised == Service!PromiseSpec

(* A client that keeps asking is told "ready", once things stop going wrong:
   no lock, failed Job or unregistered archive stays in the way. *)
PollingEnds ==
  \A c \in Clients : At(c, "asked") ~> req[c].ans = "ready"

(* config.go: MaxConcurrentJobs "caps cluster-wide in-flight worker Jobs". *)
JobsCapped == Cardinality({v \in Variants : job[v] = "active"}) <= MaxJobs
=============================================================================
