--------------------------- MODULE TilepackProofs ---------------------------
(***************************************************************************)
(* For any clients, variants and numbers of jobs and faults: what the item *)
(* and the answers promise can be had, no asset is lost, and every step is *)
(* one that TilepackPromise allows.  For any pictures, zooms and failures: *)
(* a worker leaves whole archives, and a note, a lock and an item that say *)
(* what it left.                                                           *)
(***************************************************************************)
EXTENDS Tilepack, TileWorker, TLAPS

Kept(v) == ~Loses => v \in stored

(* What a client saw, was told, and is writing. *)
ClientSound(c) ==
  /\ req[c].has => req[c].v \in assets
  /\ req[c].ans = "ready" => Kept(req[c].v) /\ (Canonical(req[c].v) => req[c].v \in assets)
  /\ IF req[c].pc = "patching"
       THEN /\ txn[c].state # "none" /\ txn[c].key = req[c].v
            /\ Canonical(req[c].v) /\ Kept(req[c].v)
       ELSE txn[c] = NoTxn

(* A worker stores before it registers. *)
WorkerSound(v) ==
  /\ pod[v].pc \notin {"registering", "also"} => txn[v] = NoTxn
  /\ pod[v].pc \in {"stored", "registering", "registered", "also"} => Canonical(v) /\ Kept(v)
  /\ pod[v].pc \in {"registered", "also"} => v = "pmtiles"
  /\ pod[v].pc \notin {"none", "run"} /\ v = "pmtiles" => Kept("mbtiles")

(* Whoever is not behind has read what is there, and writes what is stored. *)
WriteSound(a) ==
  /\ txn[a].state = "none" => txn[a] = NoTxn
  /\ txn[a].state = "open" /\ ~txn[a].behind => txn[a].snap = assets
  /\ txn[a].state = "done" => txn[a].key \in assets
  /\ txn[a].state # "none" => txn[a].key \in Archives /\ Kept(txn[a].key)

TilepackInv ==
  /\ TypeOK
  /\ AssetsAreStored
  /\ \A c \in Clients : ClientSound(c)
  /\ \A v \in Variants : WorkerSound(v)
  /\ \A a \in Writers : WriteSound(a)

-----------------------------------------------------------------------------
(* What the parts of a step leave. *)

ReqRec == [pc : {"idle", "asked", "read", "patching", "unbuilt", "jobless",
                 "unlocked", "counted", "locked"},
           v : Variants, has : BOOLEAN, ans : {"retry", "ready"}]
PodRec == [pc : {"none", "run", "made", "stored", "registering", "registered", "also", "done"},
           tries : 0..Pods]
TxnRec == [state : {"none", "open", "done", "failed"}, key : Archives \cup {"none"},
           snap : SUBSET Archives, behind : BOOLEAN, tries : 0..Attempts]

LEMMA TypeParts ==
  TypeOK <=> /\ req \in [Clients -> ReqRec]
             /\ job \in [Variants -> {"absent", "active", "succeeded", "failed"}]
             /\ pod \in [Variants -> PodRec]
             /\ lock \in [Variants -> {"none", "fresh", "stale"}]
             /\ stored \subseteq Archives /\ assets \subseteq Archives
             /\ txn \in [Writers -> TxnRec]
             /\ faults \in 0..MaxFaults
  BY DEF TypeOK, ReqRec, PodRec, TxnRec

LEMMA Empty ==
  /\ NoTxn \in TxnRec /\ NoTxn.state = "none" /\ NoTxn.tries = 0 /\ NoTxn.behind = FALSE
  /\ NoPod \in PodRec /\ NoPod.pc = "none"
  BY DEF NoTxn, TxnRec, NoPod, PodRec, Archives, Attempts, Pods

(* A request moves to another place. *)
LEMMA Moves ==
  ASSUME req \in [Clients -> ReqRec], NEW c \in Clients,
         NEW pc \in {"asked", "read", "patching", "unbuilt", "jobless", "unlocked",
                     "counted", "locked"}, To(c, pc)
  PROVE  /\ req' \in [Clients -> ReqRec]
         /\ req'[c].pc = pc /\ req'[c].v = req[c].v
         /\ req'[c].has = req[c].has /\ req'[c].ans = req[c].ans
         /\ \A d \in Clients \ {c} : req'[d] = req[d]
  <1>1. req[c] \in ReqRec
    OBVIOUS
  <1>2. req' = [req EXCEPT ![c] = [req[c] EXCEPT !.pc = pc]]
    BY DEF To
  <1>3. [req[c] EXCEPT !.pc = pc] \in ReqRec
    BY <1>1 DEF ReqRec
  <1>4. req'[c] = [req[c] EXCEPT !.pc = pc]
    BY <1>2
  <1>5. req' \in [Clients -> ReqRec] /\ \A d \in Clients \ {c} : req'[d] = req[d]
    BY <1>2, <1>3
  <1> QED BY <1>1, <1>4, <1>5 DEF ReqRec

(* A request is answered. *)
LEMMA Answers ==
  ASSUME req \in [Clients -> ReqRec], NEW c \in Clients, NEW kind, Answer(c, kind)
  PROVE  /\ req' \in [Clients -> ReqRec]
         /\ req'[c].pc = "idle" /\ req'[c].v = req[c].v /\ req'[c].has = FALSE
         /\ req'[c].ans = IF kind = "ready" THEN "ready" ELSE "retry"
         /\ \A d \in Clients \ {c} : req'[d] = req[d]
  <1> DEFINE ans == IF kind = "ready" THEN "ready" ELSE "retry"
             r   == [req[c] EXCEPT !.pc = "idle", !.has = FALSE, !.ans = ans]
  <1>1. req[c] \in ReqRec /\ ans \in {"retry", "ready"}
    OBVIOUS
  <1>2. req' = [req EXCEPT ![c] = r]
    BY DEF Answer
  <1> HIDE DEF ans
  <1>3. /\ r \in ReqRec /\ r.pc = "idle" /\ r.v = req[c].v /\ r.has = FALSE /\ r.ans = ans
    BY <1>1 DEF ReqRec
  <1> HIDE DEF r
  <1>4. req'[c] = r /\ req' \in [Clients -> ReqRec]
        /\ \A d \in Clients \ {c} : req'[d] = req[d]
    BY <1>2, <1>3
  <1> QED BY <1>3, <1>4 DEF ans

(* A write begins, and ends. *)
LEMMA Begins ==
  ASSUME txn \in [Writers -> TxnRec], assets \subseteq Archives, NEW a \in Writers,
         NEW key \in Archives, txn[a].tries < Attempts, Begin(a, key)
  PROVE  /\ txn' \in [Writers -> TxnRec]
         /\ txn'[a].state = "open" /\ txn'[a].key = key /\ txn'[a].snap = assets
         /\ txn'[a].tries = txn[a].tries + 1
         /\ \A b \in Writers \ {a} : txn'[b] = txn[b]
  <1> DEFINE t == [state |-> "open", key |-> key, snap |-> assets, behind |-> FALSE,
                   tries |-> txn[a].tries + 1]
  <1>1. txn' = [txn EXCEPT ![a] = t]
    BY DEF Begin
  <1>2. txn[a].tries + 1 \in 0..Attempts
    BY DEF TxnRec, Attempts
  <1>3. t \in TxnRec
    BY <1>2 DEF TxnRec
  <1>4. t.state = "open" /\ t.key = key /\ t.snap = assets /\ t.tries = txn[a].tries + 1
    OBVIOUS
  <1> HIDE DEF t
  <1> QED BY <1>1, <1>3, <1>4

LEMMA Settles ==
  ASSUME txn \in [Writers -> TxnRec], NEW a \in Writers, Settle(a)
  PROVE  /\ txn' \in [Writers -> TxnRec] /\ txn'[a] = NoTxn
         /\ \A b \in Writers \ {a} : txn'[b] = txn[b]
  BY Empty DEF Settle

LEMMA Fails ==
  ASSUME txn \in [Writers -> TxnRec], NEW a \in Writers,
         txn' = [txn EXCEPT ![a].state = "failed"]
  PROVE  /\ txn' \in [Writers -> TxnRec] /\ txn'[a].state = "failed"
         /\ txn'[a].key = txn[a].key
         /\ \A b \in Writers \ {a} : txn'[b] = txn[b]
  <1> DEFINE t == [txn[a] EXCEPT !.state = "failed"]
  <1>1. txn' = [txn EXCEPT ![a] = t]
    OBVIOUS
  <1>2. t \in TxnRec /\ t.state = "failed" /\ t.key = txn[a].key
    BY DEF TxnRec
  <1> HIDE DEF t
  <1> QED BY <1>1, <1>2

(* A commit, and who it overtakes. *)
Overtaken(b) ==
  /\ txn'[b].state = txn[b].state /\ txn'[b].key = txn[b].key
  /\ txn'[b].state = "open" => txn'[b].behind
  /\ txn[b] = NoTxn => txn'[b] = NoTxn

LEMMA Commits ==
  ASSUME txn \in [Writers -> TxnRec], NEW a \in Writers, Commit(a)
  PROVE  /\ txn' \in [Writers -> TxnRec]
         /\ txn[a].state = "open" /\ ~txn[a].behind
         /\ assets' = txn[a].snap \cup {txn[a].key}
         /\ txn'[a].state = "done" /\ txn'[a].key = txn[a].key
         /\ \A b \in Writers \ {a} : Overtaken(b)
  <1> DEFINE t    == [txn[a] EXCEPT !.state = "done"]
             u(b) == [txn[b] EXCEPT !.behind = txn[b].behind \/ txn[b].state = "open"]
  <1>1. txn' = [b \in Writers |-> IF b = a THEN t ELSE u(b)]
    BY DEF Commit
  <1>2. t \in TxnRec /\ t.state = "done" /\ t.key = txn[a].key
    BY DEF TxnRec
  <1>3. ASSUME NEW b \in Writers
        PROVE  /\ u(b) \in TxnRec /\ u(b).state = txn[b].state /\ u(b).key = txn[b].key
               /\ u(b).state = "open" => u(b).behind
               /\ txn[b] = NoTxn => u(b) = NoTxn
    <2>1. txn[b] \in TxnRec
      OBVIOUS
    <2>2. (txn[b].behind \/ txn[b].state = "open") \in BOOLEAN
      OBVIOUS
    <2>3. /\ u(b) \in TxnRec /\ u(b).state = txn[b].state /\ u(b).key = txn[b].key
          /\ u(b).state = "open" => u(b).behind
      BY <2>1, <2>2 DEF TxnRec
    <2>4. txn[b] = NoTxn => u(b) = NoTxn
      BY Empty DEF NoTxn
    <2> QED BY <2>3, <2>4
  <1> HIDE DEF t, u
  <1> QED BY <1>1, <1>2, <1>3 DEF Commit, Overtaken

-----------------------------------------------------------------------------
(* What a step makes of each part. *)

LEMMA AssetsMove ==
  ASSUME Next
  PROVE  assets' = assets \/ \E a \in Writers : Commit(a)
  <1>1. ASSUME NEW c \in Clients, Post(c) \/ Serve(c) \/ CreateFails(c) \/ Breaks(c)
        PROVE  assets' = assets
    BY <1>1 DEF Post, Serve, GetItem, Ready, Patch, Patched, Unbuilt, JobActive, JobOver, NoJob,
      LockHeld, LockFree, Busy, CapFree, PutLock, CreateJob, CreateFails, Breaks, item
  <1>2. ASSUME NEW v \in Variants, Work(v) \/ PodFails(v) \/ Collect(v) \/ Age(v) \/ Vanish(v)
        PROVE  assets' = assets
    BY <1>2 DEF Work, StartPod, Render, Store, Register, Exit, RegisterFails, PodFails, Ends,
      Collect, Age, Vanish, item
  <1>3. ASSUME NEW a \in Writers, Again(a) \/ AssetFails(a) PROVE assets' = assets
    BY <1>3 DEF Again, AssetFails
  <1> QED BY <1>1, <1>2, <1>3 DEF Next, Write

LEMMA StoredMoves ==
  ASSUME Next
  PROVE  \/ stored' = stored
         \/ \E v \in Variants : Render(v) \/ Store(v) \/ Vanish(v)
  <1>1. ASSUME NEW c \in Clients, Post(c) \/ Serve(c) \/ CreateFails(c) \/ Breaks(c)
        PROVE  stored' = stored
    BY <1>1 DEF Post, Serve, GetItem, Ready, Patch, Patched, Unbuilt, JobActive, JobOver, NoJob,
      LockHeld, LockFree, Busy, CapFree, PutLock, CreateJob, CreateFails, Breaks, bucket
  <1>2. ASSUME NEW v \in Variants, Work(v) \/ PodFails(v) \/ Collect(v) \/ Age(v)
        PROVE  stored' = stored \/ Render(v) \/ Store(v)
    BY <1>2 DEF Work, StartPod, Register, Exit, RegisterFails, PodFails, Ends,
      Collect, Age, bucket
  <1>3. ASSUME NEW a \in Writers, Write(a) \/ AssetFails(a) PROVE stored' = stored
    BY <1>3 DEF Write, Commit, Again, AssetFails, bucket
  <1> QED BY <1>1, <1>2, <1>3 DEF Next

LEMMA KeptStays ==
  ASSUME Next, NEW x, Kept(x)
  PROVE  Kept(x)'
  BY StoredMoves DEF Render, Store, Vanish, Kept

(* A client's step that neither writes an asset nor promises one. *)
Quiet(c) ==
  /\ req[c].pc # "patching" /\ req'[c].pc # "patching"
  /\ req'[c].v = req[c].v
  /\ req'[c].has => req[c].has \/ req[c].v \in assets
  /\ req'[c].ans \in {req[c].ans, "retry"}
  /\ req[c].pc = "idle" => req[c].ans # "ready"
  /\ UNCHANGED <<assets, txn>>

LEMMA ClientMoves ==
  ASSUME TypeOK, Next, NEW c \in Clients
  PROVE  \/ req'[c] = req[c]
         \/ Quiet(c) \/ Ready(c) \/ Patch(c) \/ Patched(c) \/ Breaks(c)
  <1>1. req \in [Clients -> ReqRec] /\ req[c] \in ReqRec
    BY TypeParts
  <1>2. ASSUME NEW d \in Clients, Post(d) \/ Serve(d) \/ CreateFails(d) \/ Breaks(d), d # c
        PROVE  req'[c] = req[c]
    BY <1>1, <1>2 DEF Post, Serve, GetItem, Ready, Patch, Patched, Unbuilt, JobActive, JobOver,
      NoJob, LockHeld, LockFree, Busy, CapFree, PutLock, CreateJob, CreateFails, Breaks, To, Answer
  <1>3. ASSUME NEW v \in Variants, Work(v) \/ PodFails(v) \/ Collect(v) \/ Age(v) \/ Vanish(v)
        PROVE  req' = req
    BY <1>3 DEF Work, StartPod, Render, Store, Register, Exit, RegisterFails, PodFails, Ends,
      Collect, Age, Vanish
  <1>4. ASSUME NEW a \in Writers, Write(a) \/ AssetFails(a) PROVE req' = req
    BY <1>4 DEF Write, Commit, Again, AssetFails
  <1>5. CASE Post(c) \/ Unbuilt(c) \/ NoJob(c) \/ LockFree(c) \/ CapFree(c) \/ PutLock(c)
    <2>1. PICK pc \in {"asked", "unbuilt", "jobless", "unlocked", "counted", "locked"} : To(c, pc)
      BY <1>5 DEF Post, Unbuilt, NoJob, LockFree, CapFree, PutLock
    <2>2. /\ req[c].pc # "patching" /\ UNCHANGED <<assets, txn>>
          /\ req[c].pc = "idle" => req[c].ans # "ready"
      BY <1>5 DEF Post, Unbuilt, NoJob, LockFree, CapFree, PutLock, At, item
    <2> QED BY <1>1, <2>1, <2>2, Moves DEF Quiet
  <1>6. CASE \/ JobActive(c) \/ JobOver(c) \/ LockHeld(c) \/ Busy(c) \/ CreateJob(c)
             \/ CreateFails(c)
    <2>1. PICK kind \in {"in_progress", "failed", "busy", "started", "error"} : Answer(c, kind)
      BY <1>6 DEF JobActive, JobOver, LockHeld, Busy, CreateJob, CreateFails
    <2>2. req[c].pc \notin {"patching", "idle"} /\ UNCHANGED <<assets, txn>>
      BY <1>6 DEF JobActive, JobOver, LockHeld, Busy, CreateJob, CreateFails, At, item
    <2> QED BY <1>1, <2>1, <2>2, Answers DEF Quiet
  <1>7. CASE GetItem(c)
    <2> DEFINE r == [req[c] EXCEPT !.pc = "read", !.has = req[c].v \in assets]
    <2>1. req' = [req EXCEPT ![c] = r] /\ req[c].pc = "asked" /\ UNCHANGED <<assets, txn>>
      BY <1>7 DEF GetItem, At, item
    <2>2. r.pc = "read" /\ r.v = req[c].v /\ r.has = (req[c].v \in assets) /\ r.ans = req[c].ans
      BY <1>1 DEF ReqRec
    <2> HIDE DEF r
    <2>3. req'[c] = r
      BY <1>1, <2>1
    <2> QED BY <2>1, <2>2, <2>3 DEF Quiet
  <1> QED BY <1>2, <1>3, <1>4, <1>5, <1>6, <1>7 DEF Next, Serve

(* What becomes of a write. *)
BeganWrite(a, key) ==
  /\ key \in Archives /\ txn[a].tries < Attempts /\ Begin(a, key) /\ UNCHANGED assets

LEMMA WriteMoves ==
  ASSUME TypeOK, Next, NEW a \in Writers
  PROVE  \/ txn'[a] = txn[a] /\ UNCHANGED assets
         \/ Commit(a)
         \/ \E b \in Writers \ {a} : Commit(b)
         \/ Again(a) \/ AssetFails(a)
         \/ a \in Clients /\ (Patch(a) \/ Patched(a) \/ Breaks(a))
         \/ a \in Variants /\ (Register(a) \/ PodFails(a) \/ RegisterFails(a))
  <1>1. txn \in [Writers -> TxnRec] /\ Clients \subseteq Writers /\ Variants \subseteq Writers
    BY TypeParts DEF Writers
  <1>2. ASSUME NEW c \in Clients, Post(c) \/ Serve(c) \/ CreateFails(c) \/ Breaks(c)
        PROVE  \/ txn'[a] = txn[a] /\ UNCHANGED assets
               \/ a = c /\ (Patch(a) \/ Patched(a) \/ Breaks(a))
    <2>1. CASE a # c
      BY <1>1, <1>2, <2>1 DEF Post, Serve, GetItem, Ready, Patch, Patched, Unbuilt, JobActive,
        JobOver, NoJob, LockHeld, LockFree, Busy, CapFree, PutLock, CreateJob, CreateFails,
        Breaks, item, Begin, Settle
    <2>2. CASE a = c
      BY <1>2, <2>2 DEF Post, Serve, GetItem, Ready, Unbuilt, JobActive,
        JobOver, NoJob, LockHeld, LockFree, Busy, CapFree, PutLock, CreateJob, CreateFails, item
    <2> QED BY <2>1, <2>2
  <1>3. ASSUME NEW v \in Variants, Work(v) \/ PodFails(v) \/ Collect(v) \/ Age(v) \/ Vanish(v)
        PROVE  \/ txn'[a] = txn[a] /\ UNCHANGED assets
               \/ a = v /\ (Register(a) \/ PodFails(a) \/ RegisterFails(a))
    <2>1. CASE a # v
      BY <1>1, <1>3, <2>1 DEF Work, StartPod, Render, Store, Register, Exit, RegisterFails,
        PodFails, Ends, Collect, Age, Vanish, item, Begin, Settle
    <2>2. CASE a = v
      BY <1>3, <2>2 DEF Work, StartPod, Render, Store, Exit, Collect, Age, Vanish, item
    <2> QED BY <2>1, <2>2
  <1>4. ASSUME NEW b \in Writers, b # a, Again(b) \/ AssetFails(b)
        PROVE  txn'[a] = txn[a] /\ UNCHANGED assets
    BY <1>1, <1>4 DEF Again, AssetFails, Begin
  <1> QED BY <1>2, <1>3, <1>4 DEF Next, Write

-----------------------------------------------------------------------------
(* Writes. *)

(* Each write is begun by what has seen the archive stored. *)
LEMMA PatchBegins ==
  ASSUME TypeOK, NEW c \in Clients, ClientSound(c), Patch(c)
  PROVE  /\ BeganWrite(c, req[c].v) /\ Kept(req[c].v) /\ txn[c] = NoTxn /\ c \in Writers
         /\ Canonical(req[c].v) /\ To(c, "patching")
  <1>1. req[c].v \in Archives /\ req[c].v \in stored /\ c \in Writers
    BY DEF Patch, TypeOK, Writers
  <1>2. txn[c] = NoTxn
    BY DEF Patch, At, ClientSound
  <1> QED BY <1>1, <1>2, Empty DEF Patch, BeganWrite, Kept, Attempts

LEMMA RegisterBegins ==
  ASSUME TypeOK, NEW v \in Variants, WorkerSound(v), Register(v)
  PROVE  /\ v \in Writers
         /\ \/ pod[v].pc = "stored" /\ Now(v, "registering") /\ txn[v] = NoTxn
               /\ BeganWrite(v, v) /\ Kept(v)
            \/ pod[v].pc = "registered" /\ Now(v, "also") /\ txn[v] = NoTxn
               /\ BeganWrite(v, "mbtiles") /\ Kept("mbtiles")
            \/ /\ pod[v].pc \in {"registering", "also"} /\ txn[v].state = "done" /\ Settle(v)
               /\ UNCHANGED assets
               /\ \/ Now(v, "done")
                  \/ v = "pmtiles" /\ pod[v].pc = "registering" /\ Now(v, "registered")
  <1>1. v \in Archives /\ v \in Writers /\ "mbtiles" \in Archives
    BY VariantsKnown DEF Writers, Archives
  <1> QED BY <1>1, Empty DEF Register, In, WorkerSound, BeganWrite, Attempts

LEMMA WriteStep ==
  ASSUME TilepackInv, Next, NEW a \in Writers
  PROVE  WriteSound(a)' /\ txn'[a] \in TxnRec
  <1>1. txn \in [Writers -> TxnRec] /\ txn[a] \in TxnRec /\ assets \subseteq Archives
    BY TypeParts DEF TilepackInv
  <1>2. WriteSound(a)
    BY DEF TilepackInv
  <1>3. \A x : Kept(x) => Kept(x)'
    BY KeptStays
  <1>4. CASE txn'[a] = txn[a] /\ UNCHANGED assets
    BY <1>1, <1>2, <1>3, <1>4 DEF WriteSound
  <1>5. CASE Commit(a)
    <2>1. /\ txn' \in [Writers -> TxnRec] /\ txn'[a].state = "done" /\ txn'[a].key = txn[a].key
          /\ txn[a].state = "open" /\ assets' = txn[a].snap \cup {txn[a].key}
      BY <1>1, <1>5, Commits
    <2> QED BY <1>2, <1>3, <2>1 DEF WriteSound
  <1>6. ASSUME NEW b \in Writers \ {a}, Commit(b) PROVE WriteSound(a)' /\ txn'[a] \in TxnRec
    <2>1. /\ txn' \in [Writers -> TxnRec] /\ Overtaken(a)
          /\ txn[b].state = "open" /\ ~txn[b].behind /\ assets' = txn[b].snap \cup {txn[b].key}
      BY <1>1, <1>6, Commits
    <2>2. assets \subseteq assets'
      BY <2>1 DEF TilepackInv, WriteSound
    <2> QED BY <1>2, <1>3, <2>1, <2>2 DEF WriteSound, Overtaken
  <1>7. ASSUME NEW key, BeganWrite(a, key), Kept(key) PROVE WriteSound(a)' /\ txn'[a] \in TxnRec
    <2>1. /\ txn' \in [Writers -> TxnRec] /\ txn'[a].state = "open" /\ txn'[a].key = key
          /\ txn'[a].snap = assets
      BY <1>1, <1>7, Begins DEF BeganWrite
    <2> QED BY <1>3, <1>7, <2>1 DEF WriteSound, BeganWrite
  <1>8. CASE Settle(a) /\ UNCHANGED assets
    BY <1>1, <1>8, Settles, Empty DEF WriteSound
  <1>9. ASSUME txn' = [txn EXCEPT ![a].state = "failed"], txn[a].state = "open"
        PROVE  WriteSound(a)' /\ txn'[a] \in TxnRec
    <2>1. txn' \in [Writers -> TxnRec] /\ txn'[a].state = "failed" /\ txn'[a].key = txn[a].key
      BY <1>1, <1>9, Fails
    <2> QED BY <1>2, <1>3, <1>9, <2>1 DEF WriteSound
  <1>10. CASE Again(a)
    <2>1. CASE txn[a].tries < Attempts
      BY <1>2, <1>7, <1>10, <2>1 DEF Again, BeganWrite, WriteSound
    <2>2. CASE ~(txn[a].tries < Attempts)
      BY <1>9, <1>10, <2>2 DEF Again
    <2> QED BY <2>1, <2>2
  <1>11. CASE AssetFails(a)
    BY <1>9, <1>11 DEF AssetFails
  <1>12. CASE a \in Clients /\ (Patch(a) \/ Patched(a) \/ Breaks(a))
    BY <1>7, <1>8, <1>12, PatchBegins DEF Patched, Breaks, TilepackInv
  <1>13. CASE a \in Variants /\ (Register(a) \/ PodFails(a) \/ RegisterFails(a))
    BY <1>7, <1>8, <1>13, RegisterBegins DEF PodFails, RegisterFails, Ends, TilepackInv
  <1> QED BY <1>4, <1>5, <1>6, <1>10, <1>11, <1>12, <1>13, WriteMoves DEF TilepackInv

(* The item keeps its assets. *)
LEMMA AssetsGrow ==
  ASSUME TilepackInv, Next
  PROVE  assets \subseteq assets'
  <1>1. ASSUME NEW a \in Writers, Commit(a) PROVE assets \subseteq assets'
    <2>1. txn[a].state = "open" /\ ~txn[a].behind /\ assets' = txn[a].snap \cup {txn[a].key}
      BY <1>1 DEF Commit
    <2> QED BY <2>1 DEF TilepackInv, WriteSound
  <1> QED BY <1>1, AssetsMove

LEMMA StoredStep ==
  ASSUME TilepackInv, Next
  PROVE  /\ stored' \subseteq Archives /\ assets' \subseteq Archives
         /\ AssetsAreStored'
  <1>1. stored' \subseteq Archives
    <2>1. stored \subseteq Archives /\ "mbtiles" \in Archives /\ Variants \subseteq Archives
      BY VariantsKnown DEF TilepackInv, TypeOK, Archives
    <2>2. ASSUME NEW v \in Variants, Render(v) \/ Store(v) \/ Vanish(v)
          PROVE  stored' \subseteq Archives
      BY <2>1, <2>2 DEF Render, Store, Vanish
    <2> QED BY <2>1, <2>2, StoredMoves
  <1>2. \A x \in assets : Kept(x)'
    <2>1. \A x \in assets : Kept(x)
      BY DEF TilepackInv, AssetsAreStored, Kept
    <2> QED BY <2>1, KeptStays
  <1>3. assets \subseteq Archives
    BY DEF TilepackInv, TypeOK
  <1>4. ASSUME NEW a \in Writers, Commit(a)
        PROVE  assets' \subseteq Archives /\ \A x \in assets' : Kept(x)'
    <2>1. txn[a].state = "open" /\ ~txn[a].behind /\ assets' = txn[a].snap \cup {txn[a].key}
      BY <1>4 DEF Commit
    <2>2. PICK key \in Archives : key = txn[a].key /\ Kept(key) /\ txn[a].snap = assets
      BY <2>1 DEF TilepackInv, WriteSound
    <2>3. assets' = assets \cup {key} /\ Kept(key)'
      BY <2>1, <2>2, KeptStays
    <2> QED BY <1>2, <1>3, <2>3
  <1> QED BY <1>1, <1>2, <1>3, <1>4, AssetsMove DEF AssetsAreStored, Kept

-----------------------------------------------------------------------------
(* Clients and workers. *)

(* A write that its caller leaves alone is still the same write. *)
LEMMA WriteStays ==
  ASSUME TilepackInv, Next, NEW a \in Writers,
         a \in Clients => ~Patch(a) /\ ~Patched(a) /\ ~Breaks(a),
         a \in Variants => ~Register(a) /\ ~PodFails(a) /\ ~RegisterFails(a)
  PROVE  /\ txn[a] = NoTxn => txn'[a] = NoTxn
         /\ txn[a].state # "none" => txn'[a].state # "none" /\ txn'[a].key = txn[a].key
  <1>1. txn \in [Writers -> TxnRec] /\ assets \subseteq Archives
    BY TypeParts DEF TilepackInv
  <1>2. CASE Commit(a)
    BY <1>1, <1>2, Commits, Empty
  <1>3. ASSUME NEW b \in Writers \ {a}, Commit(b)
        PROVE  /\ txn[a] = NoTxn => txn'[a] = NoTxn
               /\ txn[a].state # "none" => txn'[a].state # "none" /\ txn'[a].key = txn[a].key
    <2>1. Overtaken(a)
      BY <1>1, <1>3, Commits
    <2> QED BY <2>1 DEF Overtaken
  <1>4. CASE Again(a)
    <2>1. txn[a].state = "open" /\ txn[a].key \in Archives
      BY <1>4 DEF Again, TilepackInv, WriteSound
    <2>2. CASE txn[a].tries < Attempts
      BY <1>1, <1>4, <2>1, <2>2, Begins, Empty DEF Again
    <2>3. CASE ~(txn[a].tries < Attempts)
      BY <1>1, <1>4, <2>1, <2>3, Fails, Empty DEF Again
    <2> QED BY <2>2, <2>3
  <1>5. CASE AssetFails(a)
    BY <1>1, <1>5, Fails, Empty DEF AssetFails
  <1> QED BY <1>2, <1>3, <1>4, <1>5, WriteMoves DEF TilepackInv

LEMMA ClientStep ==
  ASSUME TilepackInv, Next, NEW c \in Clients
  PROVE  ClientSound(c)'
  <1>1. req \in [Clients -> ReqRec] /\ txn \in [Writers -> TxnRec] /\ assets \subseteq Archives
        /\ TypeOK /\ ClientSound(c) /\ c \in Writers /\ c \notin Variants
    BY TypeParts, ClientsApart DEF TilepackInv, Writers
  <1>2. assets \subseteq assets' /\ \A x : Kept(x) => Kept(x)'
    BY AssetsGrow, KeptStays
  <1>3. req[c].v \in Variants
    BY <1>1 DEF ReqRec
  <1>4. PICK v \in Variants : v = req[c].v
    BY <1>3
  <1>5. CASE req'[c] = req[c]
    <2>1. ~Patch(c) /\ ~Patched(c) /\ ~Breaks(c)
      <3>1. Patch(c) => req'[c].pc = "patching" /\ req[c].pc = "read"
        BY <1>1, Moves DEF Patch, At
      <3>2. Patched(c) \/ Breaks(c) => req[c].pc # "idle" /\ req'[c].pc = "idle"
        BY <1>1, Answers DEF Patched, Breaks, At
      <3> QED BY <1>5, <3>1, <3>2
    <2>2. /\ txn[c] = NoTxn => txn'[c] = NoTxn
          /\ txn[c].state # "none" => txn'[c].state # "none" /\ txn'[c].key = txn[c].key
      BY <1>1, <2>1, WriteStays
    <2> QED BY <1>1, <1>2, <1>4, <1>5, <2>2 DEF ClientSound, Canonical
  <1>6. CASE Quiet(c)
    BY <1>1, <1>2, <1>4, <1>6 DEF Quiet, ClientSound, Canonical
  <1>7. CASE Ready(c)
    <2>1. /\ req'[c].pc = "idle" /\ req'[c].v = v /\ req'[c].has = FALSE
          /\ txn' = txn /\ stored' = stored /\ assets' = assets
          /\ v \in stored /\ (Canonical(v) => req[c].has) /\ req[c].pc = "read"
      BY <1>1, <1>4, <1>7, Answers DEF Ready, At, item, bucket
    <2> QED BY <1>1, <1>4, <2>1 DEF ClientSound, Kept, Canonical
  <1>8. CASE Patch(c)
    <2>1. BeganWrite(c, v) /\ Kept(v) /\ Canonical(v) /\ To(c, "patching") /\ txn[c] = NoTxn
      BY <1>1, <1>4, <1>8, PatchBegins
    <2>2. txn'[c].state = "open" /\ txn'[c].key = v
      BY <1>1, <2>1, Begins DEF BeganWrite
    <2>3. /\ req'[c].pc = "patching" /\ req'[c].v = v
          /\ req'[c].has = req[c].has /\ req'[c].ans = req[c].ans
      BY <1>1, <1>4, <2>1, Moves
    <2> QED BY <1>1, <1>2, <1>4, <2>1, <2>2, <2>3 DEF ClientSound, Canonical
  <1>9. CASE Patched(c)
    <2>1. /\ req[c].pc = "patching" /\ txn[c].state \in {"done", "failed"} /\ Settle(c)
          /\ \E kind \in {"ready", "error"} :
               Answer(c, kind) /\ (kind = "ready" => txn[c].state = "done")
      BY <1>9 DEF Patched, At
    <2> PICK kind \in {"ready", "error"} :
               Answer(c, kind) /\ (kind = "ready" => txn[c].state = "done")
      BY <2>1
    <2>2. /\ req'[c].pc = "idle" /\ req'[c].v = v /\ req'[c].has = FALSE
          /\ req'[c].ans = "ready" => txn[c].state = "done"
      <3>1. /\ req'[c].pc = "idle" /\ req'[c].v = req[c].v /\ req'[c].has = FALSE
            /\ req'[c].ans = IF kind = "ready" THEN "ready" ELSE "retry"
        BY <1>1, Answers
      <3> QED BY <1>4, <3>1
    <2>3. txn'[c] = NoTxn
      BY <1>1, <2>1, Settles
    <2>4. txn[c].state = "done" => v \in assets
      BY <1>1, <1>4, <2>1 DEF TilepackInv, WriteSound, ClientSound
    <2>5. Kept(v)
      BY <1>1, <1>4, <2>1 DEF ClientSound
    <2> QED BY <1>2, <2>2, <2>3, <2>4, <2>5 DEF ClientSound, Canonical
  <1>10. CASE Breaks(c)
    <2>1. PICK kind \in {"error"} : Answer(c, kind) /\ Settle(c)
      BY <1>10 DEF Breaks
    <2>2. /\ req'[c].pc = "idle" /\ req'[c].v = v /\ req'[c].has = FALSE /\ req'[c].ans = "retry"
      <3>1. /\ req'[c].pc = "idle" /\ req'[c].v = req[c].v /\ req'[c].has = FALSE
            /\ req'[c].ans = IF kind = "ready" THEN "ready" ELSE "retry"
        BY <1>1, <2>1, Answers
      <3> QED BY <1>4, <3>1
    <2>3. txn'[c] = NoTxn
      BY <1>1, <2>1, Settles
    <2> QED BY <2>2, <2>3 DEF ClientSound
  <1> QED BY <1>1, <1>5, <1>6, <1>7, <1>8, <1>9, <1>10, ClientMoves

LEMMA PodMoves ==
  ASSUME TypeOK, Next, NEW v \in Variants
  PROVE  \/ pod'[v] = pod[v] /\ ~Register(v) /\ ~PodFails(v) /\ ~RegisterFails(v)
         \/ StartPod(v) \/ Render(v) \/ Store(v) \/ Register(v) \/ Exit(v)
         \/ PodFails(v) \/ RegisterFails(v)
  <1>1. pod \in [Variants -> PodRec]
    BY TypeParts
  <1>2. ASSUME NEW c \in Clients, Post(c) \/ Serve(c) \/ CreateFails(c) \/ Breaks(c)
        PROVE  pod' = pod
    BY <1>2 DEF Post, Serve, GetItem, Ready, Patch, Patched, Unbuilt, JobActive, JobOver, NoJob,
      LockHeld, LockFree, Busy, CapFree, PutLock, CreateJob, CreateFails, Breaks, cluster, Created
  <1>3. ASSUME NEW w \in Variants, w # v,
               Work(w) \/ PodFails(w) \/ Collect(w) \/ Age(w) \/ Vanish(w)
        PROVE  pod'[v] = pod[v]
    BY <1>1, <1>3 DEF Work, StartPod, Render, Store, Register, Exit, RegisterFails, PodFails,
      Ends, Collect, Age, Vanish, cluster, Now
  <1>4. CASE Collect(v) \/ Age(v) \/ Vanish(v)
    BY <1>4 DEF Collect, Age, Vanish, cluster
  <1>5. ASSUME NEW a \in Writers, Write(a) \/ AssetFails(a) PROVE pod' = pod
    BY <1>5 DEF Write, Commit, Again, AssetFails, cluster
  <1>6. pod' = pod => pod'[v] = pod[v]
    OBVIOUS
  <1> QED BY <1>2, <1>3, <1>4, <1>5, <1>6 DEF Next, Work

LEMMA WorkerStep ==
  ASSUME TilepackInv, Next, NEW v \in Variants
  PROVE  WorkerSound(v)' /\ pod'[v] \in PodRec
  <1>1. /\ pod \in [Variants -> PodRec] /\ txn \in [Writers -> TxnRec] /\ pod[v] \in PodRec
        /\ assets \subseteq Archives /\ stored \subseteq Archives
        /\ TypeOK /\ WorkerSound(v) /\ v \in Writers /\ v \notin Clients
    BY TypeParts, ClientsApart DEF TilepackInv, Writers
  <1>2. \A x : Kept(x) => Kept(x)'
    BY KeptStays
  <1>3. ASSUME NEW pc \in {"made", "stored", "registering", "registered", "also", "done"},
               Now(v, pc)
        PROVE  pod'[v] \in PodRec /\ pod'[v].pc = pc
    <2>1. pod' = [pod EXCEPT ![v] = [pod[v] EXCEPT !.pc = pc]]
      BY <1>3 DEF Now
    <2>2. [pod[v] EXCEPT !.pc = pc] \in PodRec /\ [pod[v] EXCEPT !.pc = pc].pc = pc
      BY <1>1 DEF PodRec
    <2> QED BY <1>1, <2>1, <2>2
  <1>4. CASE pod'[v] = pod[v] /\ ~Register(v) /\ ~PodFails(v) /\ ~RegisterFails(v)
    <2>1. txn[v] = NoTxn => txn'[v] = NoTxn
      BY <1>1, <1>4, WriteStays
    <2> QED BY <1>1, <1>2, <1>4, <2>1 DEF WorkerSound, Canonical
  <1>5. CASE StartPod(v)
    <2>1. pod[v].tries + 1 \in 0..Pods /\ pod[v].pc = "none"
      BY <1>1, <1>5 DEF StartPod, PodRec, Pods, In
    <2>2. pod'[v] = [pc |-> "run", tries |-> pod[v].tries + 1] /\ txn' = txn
      BY <1>1, <1>5 DEF StartPod, item
    <2>3. pod'[v] \in PodRec /\ pod'[v].pc = "run"
      BY <2>1, <2>2 DEF PodRec
    <2> QED BY <1>1, <2>1, <2>2, <2>3 DEF WorkerSound
  <1>6. CASE Render(v)
    <2>1. /\ pod[v].pc = "run" /\ Now(v, "made") /\ txn' = txn
          /\ v = "pmtiles" => "mbtiles" \in stored'
      BY <1>6 DEF Render, In, item
    <2>2. pod'[v] \in PodRec /\ pod'[v].pc = "made"
      BY <1>3, <2>1
    <2> QED BY <1>1, <2>1, <2>2 DEF WorkerSound, Kept
  <1>7. CASE Store(v)
    <2>1. PICK pc \in {"stored", "done"} : Now(v, pc) /\ (pc = "stored" => Canonical(v))
      BY <1>7 DEF Store
    <2>2. pod[v].pc = "made" /\ v \in stored' /\ txn' = txn
      BY <1>7 DEF Store, In, item
    <2>3. pod'[v] \in PodRec /\ pod'[v].pc = pc
      BY <1>3, <2>1
    <2> QED BY <1>1, <1>2, <2>1, <2>2, <2>3 DEF WorkerSound, Kept, Canonical
  <1>8. CASE Register(v)
    <2>1. CASE pod[v].pc = "stored" /\ Now(v, "registering")
      <3>1. pod'[v] \in PodRec /\ pod'[v].pc = "registering"
        BY <1>3, <2>1
      <3> QED BY <1>1, <1>2, <2>1, <3>1 DEF WorkerSound, Canonical
    <2>2. CASE pod[v].pc = "registered" /\ Now(v, "also")
      <3>1. pod'[v] \in PodRec /\ pod'[v].pc = "also"
        BY <1>3, <2>2
      <3> QED BY <1>1, <1>2, <2>2, <3>1 DEF WorkerSound, Canonical
    <2>3. CASE /\ pod[v].pc \in {"registering", "also"} /\ Settle(v)
               /\ \/ Now(v, "done")
                  \/ v = "pmtiles" /\ pod[v].pc = "registering" /\ Now(v, "registered")
      <3>1. PICK pc \in {"done", "registered"} : Now(v, pc) /\ (pc = "registered" => v = "pmtiles")
        BY <2>3
      <3>2. pod'[v] \in PodRec /\ pod'[v].pc = pc
        BY <1>3, <3>1
      <3>3. txn'[v] = NoTxn
        BY <1>1, <2>3, Settles
      <3> QED BY <1>1, <1>2, <2>3, <3>1, <3>2, <3>3 DEF WorkerSound, Canonical
    <2> QED BY <1>1, <1>8, <2>1, <2>2, <2>3, RegisterBegins
  <1>9. CASE Exit(v)
    <2>1. pod'[v] = NoPod /\ pod[v].pc = "done" /\ txn' = txn
      BY <1>1, <1>9 DEF Exit, In, item
    <2> QED BY <1>1, <2>1, Empty DEF WorkerSound
  <1>10. CASE PodFails(v) \/ RegisterFails(v)
    <2>1. Ends(v)
      BY <1>10 DEF PodFails, RegisterFails
    <2>2. txn'[v] = NoTxn
      BY <1>1, <2>1, Settles DEF Ends
    <2>3. pod'[v] = NoPod \/ pod'[v] = [pod[v] EXCEPT !.pc = "none"]
      BY <1>1, <2>1 DEF Ends
    <2>4. [pod[v] EXCEPT !.pc = "none"] \in PodRec /\ [pod[v] EXCEPT !.pc = "none"].pc = "none"
      BY <1>1 DEF PodRec
    <2>5. pod'[v] \in PodRec /\ pod'[v].pc = "none"
      BY <2>3, <2>4, Empty
    <2> QED BY <2>2, <2>5 DEF WorkerSound
  <1> QED BY <1>1, <1>4, <1>5, <1>6, <1>7, <1>8, <1>9, <1>10, PodMoves

-----------------------------------------------------------------------------
(* Types. *)

LEMMA ReqStep ==
  ASSUME TypeOK, Next
  PROVE  req' \in [Clients -> ReqRec]
  <1>1. req \in [Clients -> ReqRec]
    BY TypeParts
  <1>2. ASSUME NEW v \in Variants, Work(v) \/ PodFails(v) \/ Collect(v) \/ Age(v) \/ Vanish(v)
        PROVE  req' = req
    BY <1>2 DEF Work, StartPod, Render, Store, Register, Exit, RegisterFails, PodFails, Ends,
      Collect, Age, Vanish
  <1>3. ASSUME NEW a \in Writers, Write(a) \/ AssetFails(a) PROVE req' = req
    BY <1>3 DEF Write, Commit, Again, AssetFails
  <1>4. ASSUME NEW c \in Clients,
               \/ Post(c) \/ Patch(c) \/ Unbuilt(c) \/ NoJob(c) \/ LockFree(c) \/ CapFree(c)
               \/ PutLock(c)
        PROVE  req' \in [Clients -> ReqRec]
    <2>1. \E pc \in {"asked", "patching", "unbuilt", "jobless", "unlocked", "counted", "locked"} :
            To(c, pc)
      BY <1>4 DEF Post, Patch, Unbuilt, NoJob, LockFree, CapFree, PutLock
    <2> QED BY <1>1, <2>1, Moves
  <1>5. ASSUME NEW c \in Clients,
               \/ Ready(c) \/ Patched(c) \/ JobActive(c) \/ JobOver(c) \/ LockHeld(c) \/ Busy(c)
               \/ CreateJob(c) \/ CreateFails(c) \/ Breaks(c)
        PROVE  req' \in [Clients -> ReqRec]
    <2>1. \E kind : Answer(c, kind)
      BY <1>5 DEF Ready, Patched, JobActive, JobOver, LockHeld, Busy, CreateJob, CreateFails,
        Breaks
    <2> QED BY <1>1, <2>1, Answers
  <1>6. ASSUME NEW c \in Clients, GetItem(c) PROVE req' \in [Clients -> ReqRec]
    <2> DEFINE r == [req[c] EXCEPT !.pc = "read", !.has = req[c].v \in assets]
    <2>1. req' = [req EXCEPT ![c] = r]
      BY <1>6 DEF GetItem
    <2>2. req[c] \in ReqRec /\ (req[c].v \in assets) \in BOOLEAN
      BY <1>1
    <2>3. r \in ReqRec
      BY <2>2 DEF ReqRec
    <2> HIDE DEF r
    <2> QED BY <1>1, <2>1, <2>3
  <1> QED BY <1>1, <1>2, <1>3, <1>4, <1>5, <1>6 DEF Next, Serve

LEMMA ClusterStep ==
  ASSUME TilepackInv, Next
  PROVE  /\ job' \in [Variants -> {"absent", "active", "succeeded", "failed"}]
         /\ lock' \in [Variants -> {"none", "fresh", "stale"}]
         /\ pod' \in [Variants -> PodRec]
         /\ faults' \in 0..MaxFaults
  <1>1. /\ job \in [Variants -> {"absent", "active", "succeeded", "failed"}]
        /\ lock \in [Variants -> {"none", "fresh", "stale"}]
        /\ pod \in [Variants -> PodRec] /\ req \in [Clients -> ReqRec]
        /\ faults \in 0..MaxFaults
    BY TypeParts DEF TilepackInv
  <1>2. \A c \in Clients : req[c].v \in Variants
    BY <1>1 DEF ReqRec
  <1>3. job' \in [Variants -> {"absent", "active", "succeeded", "failed"}]
    <2> DEFINE Put(v) == \E x \in {"absent", "active", "succeeded", "failed"} :
                           job' = [job EXCEPT ![v] = x]
    <2>1. ASSUME NEW c \in Clients, Post(c) \/ Serve(c) \/ CreateFails(c) \/ Breaks(c)
          PROVE  job' = job \/ Put(req[c].v)
      BY <2>1 DEF Post, Serve, GetItem, Ready, Patch, Patched, Unbuilt, JobActive,
        JobOver, NoJob, LockHeld, LockFree, Busy, CapFree, PutLock, CreateJob, CreateFails,
        Breaks, cluster, Created
    <2>2. ASSUME NEW v \in Variants, Work(v) \/ PodFails(v) \/ Collect(v) \/ Age(v) \/ Vanish(v)
          PROVE  job' = job \/ Put(v)
      BY <2>2 DEF Work, StartPod, Render, Store, Register, Exit, RegisterFails, PodFails,
        Ends, Collect, Age, Vanish, cluster
    <2>3. ASSUME NEW a \in Writers, Write(a) \/ AssetFails(a) PROVE job' = job
      BY <2>3 DEF Write, Commit, Again, AssetFails, cluster
    <2>4. job' = job \/ \E v \in Variants : Put(v)
      BY <1>2, <2>1, <2>2, <2>3 DEF Next
    <2> QED BY <1>1, <2>4
  <1>4. lock' \in [Variants -> {"none", "fresh", "stale"}]
    <2> DEFINE Put(v) == \E x \in {"none", "fresh", "stale"} : lock' = [lock EXCEPT ![v] = x]
    <2>1. ASSUME NEW c \in Clients, Post(c) \/ Serve(c) \/ CreateFails(c) \/ Breaks(c)
          PROVE  lock' = lock \/ Put(req[c].v)
      BY <2>1 DEF Post, Serve, GetItem, Ready, Patch, Patched, Unbuilt, JobActive,
        JobOver, NoJob, LockHeld, LockFree, Busy, CapFree, PutLock, CreateJob, CreateFails,
        Breaks, bucket
    <2>2. ASSUME NEW v \in Variants, Work(v) \/ PodFails(v) \/ Collect(v) \/ Age(v) \/ Vanish(v)
          PROVE  lock' = lock \/ Put(v)
      BY <2>2 DEF Work, StartPod, Render, Store, Register, Exit, RegisterFails, PodFails,
        Ends, Collect, Age, Vanish, bucket
    <2>3. ASSUME NEW a \in Writers, Write(a) \/ AssetFails(a) PROVE lock' = lock
      BY <2>3 DEF Write, Commit, Again, AssetFails, bucket
    <2>4. lock' = lock \/ \E v \in Variants : Put(v)
      BY <1>2, <2>1, <2>2, <2>3 DEF Next
    <2> QED BY <1>1, <2>4
  <1>5. pod' \in [Variants -> PodRec]
    <2>1. ASSUME NEW c \in Clients, Post(c) \/ Serve(c) \/ CreateFails(c) \/ Breaks(c)
          PROVE  pod' = pod
      BY <2>1 DEF Post, Serve, GetItem, Ready, Patch, Patched, Unbuilt, JobActive, JobOver,
        NoJob, LockHeld, LockFree, Busy, CapFree, PutLock, CreateJob, CreateFails, Breaks,
        cluster, Created
    <2>2. ASSUME NEW v \in Variants, Work(v) \/ PodFails(v) \/ Collect(v) \/ Age(v) \/ Vanish(v)
          PROVE  pod' = pod \/ \E p : pod' = [pod EXCEPT ![v] = p]
      BY <2>2 DEF Work, StartPod, Render, Store, Register, Exit, RegisterFails, PodFails,
        Ends, Collect, Age, Vanish, cluster, Now
    <2>3. ASSUME NEW a \in Writers, Write(a) \/ AssetFails(a) PROVE pod' = pod
      BY <2>3 DEF Write, Commit, Again, AssetFails, cluster
    <2>4. pod' = pod \/ \E v \in Variants : \E p : pod' = [pod EXCEPT ![v] = p]
      BY <2>1, <2>2, <2>3 DEF Next
    <2>5. pod' = [v \in Variants |-> pod'[v]]
      BY <1>1, <2>4
    <2> QED BY <2>5, WorkerStep
  <1>6. faults' \in 0..MaxFaults
    <2>1. faults' = faults \/ Fault
      <3>1. ASSUME NEW c \in Clients, Post(c) \/ Serve(c) \/ CreateFails(c) \/ Breaks(c)
            PROVE  faults' = faults \/ Fault
        BY <3>1 DEF Post, Serve, GetItem, Ready, Patch, Patched, Unbuilt, JobActive, JobOver,
          NoJob, LockHeld, LockFree, Busy, CapFree, PutLock, CreateJob, CreateFails, Breaks
      <3>2. ASSUME NEW v \in Variants,
                   Work(v) \/ PodFails(v) \/ Collect(v) \/ Age(v) \/ Vanish(v)
            PROVE  faults' = faults \/ Fault
        BY <3>2 DEF Work, StartPod, Render, Store, Register, Exit, RegisterFails, PodFails,
          Collect, Age, Vanish
      <3>3. ASSUME NEW a \in Writers, Write(a) \/ AssetFails(a) PROVE faults' = faults \/ Fault
        BY <3>3 DEF Write, Commit, Again, AssetFails
      <3> QED BY <3>1, <3>2, <3>3 DEF Next
    <2> QED BY <1>1, <2>1, MaxFaultsIsNat DEF Fault
  <1> QED BY <1>3, <1>4, <1>5, <1>6

LEMMA TxnStep ==
  ASSUME TilepackInv, Next
  PROVE  txn' \in [Writers -> TxnRec]
  <1>1. txn \in [Writers -> TxnRec] /\ Clients \subseteq Writers /\ Variants \subseteq Writers
    BY TypeParts DEF TilepackInv, Writers
  <1>2. ASSUME NEW c \in Clients, Post(c) \/ Serve(c) \/ CreateFails(c) \/ Breaks(c)
        PROVE  txn' = txn \/ \E t : txn' = [txn EXCEPT ![c] = t]
    BY <1>2 DEF Post, Serve, GetItem, Ready, Patch, Patched, Unbuilt, JobActive, JobOver,
      NoJob, LockHeld, LockFree, Busy, CapFree, PutLock, CreateJob, CreateFails, Breaks, item,
      Begin, Settle
  <1>3. ASSUME NEW v \in Variants, Work(v) \/ PodFails(v) \/ Collect(v) \/ Age(v) \/ Vanish(v)
        PROVE  txn' = txn \/ \E t : txn' = [txn EXCEPT ![v] = t]
    BY <1>3 DEF Work, StartPod, Render, Store, Register, Exit, RegisterFails, PodFails, Ends,
      Collect, Age, Vanish, item, Begin, Settle
  <1>4. ASSUME NEW a \in Writers, Again(a) \/ AssetFails(a)
        PROVE  \E t : txn' = [txn EXCEPT ![a] = t]
    BY <1>4 DEF Again, AssetFails, Begin
  <1>5. ASSUME NEW a \in Writers, Commit(a) PROVE txn' \in [Writers -> TxnRec]
    BY <1>1, <1>5, Commits
  <1>6. \/ txn' = txn \/ txn' \in [Writers -> TxnRec]
        \/ \E a \in Writers : \E t : txn' = [txn EXCEPT ![a] = t]
    BY <1>1, <1>2, <1>3, <1>4, <1>5 DEF Next, Write
  <1>7. txn' \in [Writers -> TxnRec] \/ txn' = [a \in Writers |-> txn'[a]]
    BY <1>1, <1>6
  <1> QED BY <1>7, WriteStep

-----------------------------------------------------------------------------
LEMMA TilepackInit ==
  ASSUME Init
  PROVE  TilepackInv
  <1>1. ASSUME NEW c \in Clients PROVE
          /\ req[c] \in ReqRec /\ req[c].pc = "idle" /\ req[c].has = FALSE /\ req[c].ans = "retry"
    <2>1. PICK v \in Variants :
            req[c] = [pc |-> "idle", v |-> v, has |-> FALSE, ans |-> "retry"]
      BY DEF Init
    <2> QED BY <2>1 DEF ReqRec
  <1>2. req = [c \in Clients |-> req[c]]
    BY DEF Init
  <1>3. req \in [Clients -> ReqRec]
    BY <1>1, <1>2
  <1>4. /\ job \in [Variants -> {"absent", "active", "succeeded", "failed"}]
        /\ lock \in [Variants -> {"none", "fresh", "stale"}]
        /\ pod \in [Variants -> PodRec] /\ txn \in [Writers -> TxnRec]
        /\ stored = {} /\ assets = {} /\ faults \in 0..MaxFaults
    BY Empty, MaxFaultsIsNat DEF Init
  <1>5. TypeOK
    BY <1>3, <1>4, TypeParts
  <1>6. (\A a \in Writers : txn[a] = NoTxn) /\ \A v \in Variants : pod[v] = NoPod
    BY DEF Init
  <1>7. \A c \in Clients : ClientSound(c)
    BY <1>1, <1>6 DEF ClientSound, Writers
  <1>8. \A v \in Variants : WorkerSound(v)
    BY <1>6, Empty DEF WorkerSound, Writers
  <1>9. \A a \in Writers : WriteSound(a)
    BY <1>6, Empty DEF WriteSound
  <1> QED BY <1>4, <1>5, <1>7, <1>8, <1>9 DEF TilepackInv, AssetsAreStored

LEMMA TilepackStep ==
  ASSUME TilepackInv, [Next]_vars
  PROVE  TilepackInv'
  <1>1. CASE Next
    <2>1. /\ req' \in [Clients -> ReqRec] /\ txn' \in [Writers -> TxnRec]
      BY <1>1, ReqStep, TxnStep DEF TilepackInv
    <2>2. TypeOK'
      BY <1>1, <2>1, ClusterStep, StoredStep DEF TypeOK, ReqRec, PodRec, TxnRec
    <2> QED BY <1>1, <2>2, StoredStep, ClientStep, WorkerStep, WriteStep DEF TilepackInv
  <1>2. CASE UNCHANGED vars
    BY <1>2 DEF vars, cluster, bucket, item, TilepackInv, TypeOK, AssetsAreStored, ClientSound,
      WorkerSound, WriteSound, Kept
  <1> QED BY <1>1, <1>2

(* Neither the item nor an answer promises an archive that cannot be had: every
   path that patches the item has seen the object stored, and "ready" is said
   only of what is stored and, if canonical, in the item (postTilepack,
   AddAsset, generate.py). *)
THEOREM PromisesHold == Spec => []PromisesKept
  <1>1. TilepackInv => PromisesKept
    BY DEF TilepackInv, PromisesKept, ClientSound, ReadyMeansBoth, Kept
  <1> QED BY <1>1, TilepackInit, TilepackStep, PTL DEF Spec

(* No asset is lost to a concurrent registration: a write that did not see the
   last one committed is begun again (AddAsset, serializable). *)
THEOREM AssetsKept == Spec => AssetsStay
  <1>1. TilepackInv /\ [Next]_vars => [assets \subseteq assets']_vars
    BY AssetsGrow
  <1> QED BY <1>1, TilepackInit, TilepackStep, PTL DEF Spec, AssetsStay

-----------------------------------------------------------------------------
(* Refinement. *)

Asked(v) == \E c \in Clients : req[c].v = v

(* Who was told "ready" asks no more; Jobs and their pods are of those asked
   for; and what goes into the item belongs there. *)
ServiceInv ==
  /\ \A c \in Clients : req[c].pc # "idle" => req[c].ans # "ready"
  /\ \A v \in Variants : job[v] # "absent" \/ pod[v].pc # "none" => Asked(v)
  /\ \A a \in Writers : txn[a].state # "none" => Canonical(txn[a].key)

(* Nobody asks for something else, and an answer stays. *)
LEMMA AnswersStay ==
  ASSUME TypeOK, ServiceInv, Next, NEW c \in Clients
  PROVE  /\ req'[c].v = req[c].v
         /\ req'[c].pc # "idle" => req'[c].ans # "ready"
         /\ req[c].ans = "ready" => req'[c].ans = "ready"
         /\ req'[c].ans = "ready" => req[c].ans = "ready" \/ Ready(c) \/ Patched(c)
  <1>1. req \in [Clients -> ReqRec] /\ req[c] \in ReqRec
        /\ (req[c].pc # "idle" => req[c].ans # "ready")
    BY TypeParts DEF ServiceInv
  <1>2. CASE req'[c] = req[c]
    BY <1>1, <1>2
  <1>3. CASE Quiet(c)
    BY <1>1, <1>3 DEF Quiet
  <1>4. CASE Patch(c)
    <2>1. req[c].pc = "read" /\ To(c, "patching")
      BY <1>4 DEF Patch, At
    <2> QED BY <1>1, <2>1, Moves
  <1>5. ASSUME NEW kind, Answer(c, kind), req[c].pc # "idle",
               kind = "ready" => Ready(c) \/ Patched(c)
        PROVE  /\ req'[c].v = req[c].v
               /\ req'[c].pc # "idle" => req'[c].ans # "ready"
               /\ req[c].ans = "ready" => req'[c].ans = "ready"
               /\ req'[c].ans = "ready" => req[c].ans = "ready" \/ Ready(c) \/ Patched(c)
    BY <1>1, <1>5, Answers
  <1>6. CASE Ready(c) \/ Patched(c)
    <2>1. req[c].pc # "idle" /\ \E kind : Answer(c, kind)
      BY <1>6 DEF Ready, Patched, At
    <2> QED BY <1>5, <1>6, <2>1
  <1>7. CASE Breaks(c)
    BY <1>5, <1>7 DEF Breaks, At
  <1> QED BY <1>2, <1>3, <1>4, <1>6, <1>7, ClientMoves

(* A Job is there because somebody asked for it, and its pod because of it. *)
LEMMA JobsOfAsked ==
  ASSUME TilepackInv, Next, NEW v \in Variants, job'[v] # "absent"
  PROVE  job[v] # "absent" \/ pod[v].pc # "none" \/ Asked(v)
  <1>1. job \in [Variants -> {"absent", "active", "succeeded", "failed"}]
    BY TypeParts DEF TilepackInv
  <1> SUFFICES ASSUME job'[v] # job[v]
               PROVE  pod[v].pc # "none" \/ Asked(v)
    OBVIOUS
  <1>2. ASSUME NEW c \in Clients, Post(c) \/ Serve(c) \/ CreateFails(c) \/ Breaks(c)
        PROVE  req[c].v = v
    <2>1. job' = job \/ Created(req[c].v)
      BY <1>2 DEF Post, Serve, GetItem, Ready, Patch, Patched, Unbuilt, JobActive, JobOver, NoJob,
        LockHeld, LockFree, Busy, CapFree, PutLock, CreateJob, CreateFails, Breaks, cluster
    <2> QED BY <1>1, <2>1 DEF Created
  <1>3. ASSUME NEW w \in Variants, Work(w) \/ PodFails(w) \/ Collect(w) \/ Age(w) \/ Vanish(w)
        PROVE  w = v /\ (Exit(v) \/ RegisterFails(v) \/ PodFails(v) \/ Collect(v))
    BY <1>1, <1>3 DEF Work, StartPod, Render, Store, Register, Exit, RegisterFails, PodFails,
      Ends, Collect, Age, Vanish, cluster
  <1>4. ASSUME NEW a \in Writers, Write(a) \/ AssetFails(a) PROVE job' = job
    BY <1>4 DEF Write, Commit, Again, AssetFails, cluster
  <1>5. CASE Exit(v) \/ PodFails(v)
    BY <1>5 DEF Exit, PodFails, In
  <1>6. CASE RegisterFails(v)
    <2>1. txn[v] # NoTxn /\ WorkerSound(v)
      BY <1>6, Empty DEF RegisterFails, TilepackInv
    <2> QED BY <2>1 DEF WorkerSound
  <1>7. CASE Collect(v)
    BY <1>1, <1>7 DEF Collect
  <1> QED BY <1>2, <1>3, <1>4, <1>5, <1>6, <1>7 DEF Next, Asked

LEMMA PodsOfJobs ==
  ASSUME TypeOK, Next, NEW v \in Variants, pod'[v].pc # "none"
  PROVE  pod[v].pc # "none" \/ job[v] = "active"
  <1>1. pod \in [Variants -> PodRec]
    BY TypeParts
  <1>2. CASE Render(v) \/ Store(v) \/ Register(v) \/ Exit(v) \/ PodFails(v)
    BY <1>2 DEF Render, Store, Register, Exit, PodFails, In
  <1>3. CASE RegisterFails(v)
    <2>1. pod'[v] = NoPod \/ pod'[v] = [pod[v] EXCEPT !.pc = "none"]
      BY <1>1, <1>3 DEF RegisterFails, Ends
    <2> QED BY <1>1, <2>1, Empty DEF PodRec
  <1>4. CASE StartPod(v)
    BY <1>4 DEF StartPod
  <1> QED BY <1>2, <1>3, <1>4, PodMoves

(* What is being written belongs into the item. *)
LEMMA KeysCanonical ==
  ASSUME TilepackInv, ServiceInv, Next, NEW a \in Writers, txn'[a].state # "none"
  PROVE  Canonical(txn'[a].key)
  <1>1. txn \in [Writers -> TxnRec] /\ txn[a] \in TxnRec /\ assets \subseteq Archives
        /\ (txn[a].state # "none" => Canonical(txn[a].key) /\ txn[a].key \in Archives)
    BY TypeParts DEF TilepackInv, ServiceInv, WriteSound
  <1>2. CASE txn'[a] = txn[a]
    BY <1>1, <1>2
  <1>3. CASE Commit(a)
    <2>1. txn[a].state = "open" /\ txn'[a].key = txn[a].key
      BY <1>1, <1>3, Commits
    <2> QED BY <1>1, <2>1 DEF Canonical
  <1>4. ASSUME NEW b \in Writers \ {a}, Commit(b) PROVE Canonical(txn'[a].key)
    <2>1. Overtaken(a)
      BY <1>1, <1>4, Commits
    <2> QED BY <1>1, <2>1 DEF Overtaken, Canonical
  <1>5. ASSUME NEW key \in Archives, Canonical(key), Begin(a, key), txn[a].tries < Attempts
        PROVE  Canonical(txn'[a].key)
    <2>1. txn'[a].key = key
      BY <1>1, <1>5, Begins
    <2> QED BY <1>5, <2>1 DEF Canonical
  <1>6. ASSUME txn' = [txn EXCEPT ![a].state = "failed"], txn[a].state = "open"
        PROVE  Canonical(txn'[a].key)
    <2>1. txn'[a].key = txn[a].key
      BY <1>1, <1>6, Fails
    <2> QED BY <1>1, <1>6, <2>1 DEF Canonical
  <1>7. CASE Settle(a)
    BY <1>1, <1>7, Settles, Empty
  <1>8. CASE Again(a)
    BY <1>1, <1>5, <1>6, <1>8 DEF Again
  <1>9. CASE AssetFails(a)
    BY <1>6, <1>9 DEF AssetFails
  <1>10. CASE a \in Clients /\ (Patch(a) \/ Patched(a) \/ Breaks(a))
    BY <1>5, <1>7, <1>10, PatchBegins DEF Patched, Breaks, BeganWrite, TilepackInv
  <1>11. CASE a \in Variants /\ (Register(a) \/ PodFails(a) \/ RegisterFails(a))
    <2>1. CASE Register(a)
      <3>1. WorkerSound(a) /\ TypeOK
        BY <1>11 DEF TilepackInv
      <3>2. (BeganWrite(a, a) /\ Canonical(a)) \/ BeganWrite(a, "mbtiles") \/ Settle(a)
        BY <1>11, <2>1, <3>1, RegisterBegins DEF WorkerSound
      <3>3. Canonical("mbtiles")
        BY DEF Canonical
      <3> QED BY <1>5, <1>7, <3>2, <3>3 DEF BeganWrite
    <2>2. CASE PodFails(a) \/ RegisterFails(a)
      BY <1>7, <2>2 DEF PodFails, RegisterFails, Ends
    <2> QED BY <1>11, <2>1, <2>2
  <1> QED
    BY <1>2, <1>3, <1>4, <1>8, <1>9, <1>10, <1>11, WriteMoves DEF TilepackInv

LEMMA ServiceStep ==
  ASSUME TilepackInv, ServiceInv, [Next]_vars
  PROVE  ServiceInv'
  <1>1. CASE Next
    <2>1. TypeOK
      BY DEF TilepackInv
    <2>2. \A c \in Clients : req'[c].v = req[c].v /\ (req'[c].pc # "idle" => req'[c].ans # "ready")
      BY <1>1, <2>1, AnswersStay
    <2>3. ASSUME NEW v \in Variants, job'[v] # "absent" \/ pod'[v].pc # "none" PROVE Asked(v)'
      <3>1. Asked(v)
        BY <1>1, <2>1, <2>3, JobsOfAsked, PodsOfJobs DEF ServiceInv
      <3> QED BY <2>2, <3>1 DEF Asked
    <2>4. \A a \in Writers : txn'[a].state # "none" => Canonical(txn'[a].key)
      BY <1>1, KeysCanonical
    <2> QED BY <2>2, <2>3, <2>4 DEF ServiceInv, Canonical
  <1>2. CASE UNCHANGED vars
    BY <1>2 DEF vars, cluster, item, ServiceInv, Asked, Canonical
  <1> QED BY <1>1, <1>2

LEMMA ServiceInit == ASSUME Init PROVE ServiceInv
  <1>1. ASSUME NEW c \in Clients PROVE req[c].pc = "idle"
    BY DEF Init
  <1>2. /\ \A v \in Variants : job[v] = "absent" /\ pod[v].pc = "none"
        /\ \A a \in Writers : txn[a].state = "none"
    BY Empty DEF Init
  <1> QED BY <1>1, <1>2 DEF ServiceInv

(* What clients ask for, and who was told, as the promise sees them. *)
Wants     == [c \in Clients |-> req[c].v]
ToldReady == {c \in Clients : req[c].ans = "ready"}

(* Archives come and go by what somebody asked for, and after what they are
   made from. *)
LEMMA ShelfPromised ==
  ASSUME TilepackInv, ServiceInv, NEW v \in Variants, Render(v) \/ Store(v) \/ Vanish(v)
  PROVE  [Service!PromiseNext]_(Service!promiseVars)
  <1>1. req' = req /\ assets' = assets
    BY DEF Render, Store, Vanish, item
  <1>2. Wants' = Wants /\ ToldReady' = ToldReady
    BY <1>1 DEF Wants, ToldReady
  <1>3. WorkerSound(v) /\ (pod[v].pc # "none" => \E c \in Clients : Wants[c] = v)
    BY DEF TilepackInv, ServiceInv, Asked, Wants
  <1>4. CASE Render(v)
    <2>1. pod[v].pc = "run" /\ stored' = IF v = "pmtiles" THEN stored \cup {"mbtiles"} ELSE stored
      BY <1>4 DEF Render, In
    <2>2. CASE v = "pmtiles"
      <3>1. PICK c \in Clients : Wants[c] = "pmtiles"
        BY <1>3, <2>1, <2>2
      <3>2. "mbtiles" \in Service!WantedBy(c)
        BY <3>1 DEF Service!WantedBy, Wants
      <3>3. Service!Deliver("mbtiles")
        BY <1>1, <1>2, <2>1, <2>2, <3>2 DEF Service!Deliver, Wants, ToldReady
      <3> QED BY <3>3 DEF Service!PromiseNext, Service!Published
    <2>3. CASE v # "pmtiles"
      BY <1>1, <1>2, <2>1, <2>3 DEF Service!promiseVars, Wants, ToldReady
    <2> QED BY <2>2, <2>3
  <1>5. CASE Store(v)
    <2>1. pod[v].pc = "made" /\ stored' = stored \cup {v}
      BY <1>5 DEF Store, In
    <2>2. PICK c \in Clients : Wants[c] = v
      BY <1>3, <2>1
    <2>3. v \in Service!WantedBy(c)
      BY <2>2 DEF Service!WantedBy, Wants
    <2>4. v = "pmtiles" => Service!Had("mbtiles")
      BY <1>3, <2>1 DEF WorkerSound, Kept, Service!Had
    <2>5. Service!Deliver(v)
      BY <1>1, <1>2, <2>1, <2>3, <2>4 DEF Service!Deliver, Wants, ToldReady
    <2> QED BY <2>5 DEF Service!PromiseNext
  <1>6. CASE Vanish(v)
    <2>1. Service!Lose(v)
      BY <1>1, <1>2, <1>6 DEF Vanish, Service!Lose, Wants, ToldReady
    <2> QED BY <2>1 DEF Service!PromiseNext
  <1> QED BY <1>4, <1>5, <1>6

(* The item names what is there, or was. *)
LEMMA ItemPromised ==
  ASSUME TilepackInv, ServiceInv, NEW a \in Writers, Commit(a)
  PROVE  Service!PromiseNext
  <1>1. /\ UNCHANGED <<req, stored>> /\ txn[a].state = "open" /\ ~txn[a].behind
        /\ assets' = txn[a].snap \cup {txn[a].key}
    BY DEF Commit, bucket
  <1>2. PICK key : key = txn[a].key
    OBVIOUS
  <1>3. assets' = assets \cup {key} /\ Kept(key) /\ key \in Archives /\ Canonical(key)
    BY <1>1, <1>2 DEF TilepackInv, ServiceInv, WriteSound
  <1>4. key \in {"pmtiles", "mbtiles"}
    BY <1>3 DEF Archives, Canonical
  <1>5. Service!Name(key)
    BY <1>1, <1>3, <1>4 DEF Service!Name, Service!Published, Service!Had, Kept
  <1> QED BY <1>4, <1>5 DEF Service!PromiseNext, Service!Published

(* "ready" is said of what can be had, and is not taken back. *)
LEMMA AnswersPromised ==
  ASSUME TilepackInv, ServiceInv, Next, TilepackInv', UNCHANGED <<stored, assets>>
  PROVE  [Service!PromiseNext]_(Service!promiseVars)
  <1>1. TypeOK
    BY DEF TilepackInv
  <1>2. Wants' = Wants /\ ToldReady \subseteq ToldReady'
    BY <1>1, AnswersStay DEF Wants, ToldReady
  <1>3. CASE ToldReady' = ToldReady
    BY <1>2, <1>3 DEF Service!promiseVars, Wants, ToldReady
  <1>4. CASE ToldReady' # ToldReady
    <2>1. PICK c \in Clients : req'[c].ans = "ready" /\ req[c].ans # "ready"
      BY <1>2, <1>4 DEF ToldReady
    <2>2. \E kind : Answer(c, kind)
      BY <1>1, <2>1, AnswersStay DEF Ready, Patched
    <2>3. \A d \in Clients \ {c} : req'[d] = req[d]
      BY <1>1, <2>2, TypeParts, Answers
    <2>4. ToldReady' = ToldReady \cup {c}
      BY <2>1, <2>3 DEF ToldReady
    <2>5. ClientSound(c)'
      BY DEF TilepackInv
    <2>6. Kept(req[c].v) /\ (Canonical(req[c].v) => req[c].v \in assets)
      <3>1. req'[c].v = req[c].v
        BY <1>1, AnswersStay
      <3> QED BY <2>1, <2>5, <3>1 DEF ClientSound, Kept, Canonical
    <2>7. Wants[c] = req[c].v
      BY DEF Wants
    <2>8. Service!Tell(c)
      BY <1>2, <2>4, <2>6, <2>7
         DEF Service!Tell, Service!Had, Service!Published, Kept, Canonical, Wants, ToldReady
    <2> QED BY <2>8 DEF Service!PromiseNext
  <1> QED BY <1>3, <1>4

(* The service implements TilepackPromise: every step of a client, a worker, a
   Job, a lock or a write is a step the promise allows, or a stutter. *)
THEOREM ServiceRefines == Spec => ServedAsPromised
  <1>1. Init => Service!PromiseInit
    <2>1. ASSUME Init, NEW c \in Clients PROVE req[c].v \in Variants /\ req[c].ans = "retry"
      BY <2>1 DEF Init
    <2>2. ASSUME Init PROVE Wants \in [Clients -> Variants] /\ ToldReady = {}
      BY <2>1, <2>2 DEF Wants, ToldReady
    <2> QED BY <2>2 DEF Init, Service!PromiseInit, Wants, ToldReady
  <1>2. TilepackInv /\ ServiceInv /\ [Next]_vars => [Service!PromiseNext]_(Service!promiseVars)
    <2> SUFFICES ASSUME TilepackInv, ServiceInv, [Next]_vars
                 PROVE  [Service!PromiseNext]_(Service!promiseVars)
      OBVIOUS
    <2>1. ASSUME Next, stored' # stored PROVE [Service!PromiseNext]_(Service!promiseVars)
      BY <2>1, StoredMoves, ShelfPromised
    <2>2. ASSUME Next, assets' # assets PROVE [Service!PromiseNext]_(Service!promiseVars)
      BY <2>2, AssetsMove, ItemPromised
    <2>3. ASSUME Next, UNCHANGED <<stored, assets>>
          PROVE  [Service!PromiseNext]_(Service!promiseVars)
      BY <2>3, TilepackStep, AnswersPromised
    <2>4. CASE UNCHANGED vars
      BY <2>4 DEF vars, bucket, item, Service!promiseVars
    <2> QED BY <2>1, <2>2, <2>3, <2>4
  <1>3. Init => TilepackInv /\ ServiceInv
    BY TilepackInit, ServiceInit
  <1>4. TilepackInv /\ ServiceInv /\ [Next]_vars => (TilepackInv /\ ServiceInv)'
    BY TilepackStep, ServiceStep
  <1> QED BY <1>1, <1>2, <1>3, <1>4, PTL DEF Spec, ServedAsPromised, Service!PromiseSpec

-----------------------------------------------------------------------------
(* The worker: its tiles. *)
Rows == UNION {Row(z) : z \in 0..MaxZoom}

SceneOK ==
  /\ scene.width \in Nat \ {0} /\ scene.off \in Int
  /\ scene.valid \subseteq 0..(scene.width - 1)

LEMMA SpanIsInt ==
  ASSUME NEW z \in 0..MaxZoom PROVE Span(z) \in Int
  <1>1. MaxZoom - z \in Nat
    BY ZoomsAreCounted
  <1> HIDE DEF Span
  <1>2. PICK n \in Nat : n = MaxZoom - z
    BY <1>1
  <1>3. 2^n \in Int
    OBVIOUS
  <1> QED BY <1>2, <1>3, SizesArePositive DEF Span

LEMMA RowsAre ==
  ASSUME NEW t \in Rows
  PROVE  t[1] \in 0..MaxZoom /\ t[2] \in Int /\ t \in Row(t[1]) /\ t # <<-1, -1>>
  <1>1. PICK z \in 0..MaxZoom : t \in Row(z)
    BY DEF Rows
  <1>2. PICK x \in Int : t = <<z, x>>
    BY <1>1 DEF Row
  <1> QED BY <1>1, <1>2, ZoomsAreCounted

LEMMA EdgesAreInts ==
  ASSUME SceneOK, NEW t \in Rows
  PROVE  West(t) \in Int /\ East(t) \in Int
  <1>1. Span(t[1]) \in Int /\ t[2] \in Int /\ scene.off \in Int
    BY SpanIsInt, RowsAre DEF SceneOK
  <1> QED BY <1>1 DEF West, East

(* A tile with data is not outside. *)
LEMMA DataInside ==
  ASSUME SceneOK, NEW t \in Rows, HasData(t)
  PROVE  ~Outside(t)
  BY EdgesAreInts DEF HasData, Outside, SceneOK

LEMMA CeilBounds ==
  ASSUME NEW a \in Int, NEW b \in Nat \ {0}, NEW j \in Int, j * b < a
  PROVE  j < Ceil(a, b)
  <1>1. (a + b - 1) \div b \in Int /\ a + b - 1 < b * ((a + b - 1) \div b) + b
    OBVIOUS
  <1>2. PICK q \in Int : q = (a + b - 1) \div b
    BY <1>1
  <1>3. a - 1 < b * q
    BY <1>1, <1>2
  <1>4. j * b < b * q
    BY <1>3
  <1>5. j < q
    BY <1>4
  <1> QED BY <1>2, <1>5 DEF Ceil

LEMMA CellsPositive ==
  ASSUME SceneOK PROVE Cells \in Nat \ {0}
  <1>1. \A w \in Nat \ {0}, f \in Nat \ {0} : (w + f - 1) \div f \in Nat \ {0}
    OBVIOUS
  <1> QED BY <1>1, SizesArePositive DEF Cells, Ceil, SceneOK

LEMMA Scaled ==
  ASSUME NEW a \in Int, NEW b \in Int, NEW c \in Nat \ {0}
  PROVE  (a <= b => a * c <= b * c) /\ (a < b => a * c < b * c)
  OBVIOUS

LEMMA DivGrows ==
  ASSUME NEW a \in Nat, NEW b \in Nat, NEW w \in Nat \ {0}, a <= b
  PROVE  a \div w <= b \div w
  <1>1. a \div w \in Nat /\ b \div w \in Nat /\ w * (a \div w) <= a /\ b < w * (b \div w) + w
    OBVIOUS
  <1>2. PICK p \in Nat, q \in Nat : p = a \div w /\ q = b \div w
    BY <1>1
  <1>3. w * p < w * (q + 1)
    BY <1>1, <1>2
  <1>4. p < q + 1
    BY <1>3
  <1> QED BY <1>2, <1>4

(* build_coverage: the prefilter drops no tile that has data. *)
LEMMA PrefilterKeeps ==
  ASSUME SceneOK, NEW t \in Rows, HasData(t)
  PROVE  Intersects(t)
  <1>1. PICK p \in scene.valid : West(t) <= p /\ p < East(t)
    BY DEF HasData
  <1>2. PICK w \in Nat \ {0} : w = scene.width
    BY DEF SceneOK
  <1>3. PICK n \in Nat \ {0} : n = Cells
    BY CellsPositive
  <1>4. PICK f \in Nat \ {0} : f = Factor
    BY SizesArePositive
  <1>5. p \in Nat /\ p < w
    BY <1>2 DEF SceneOK
  <1> DEFINE i == p \div f
             j == (p * n) \div w
  <1>6. i \in Nat /\ f * i <= p /\ p < f * i + f
    BY <1>5
  <1>7. p * n \in Nat
    BY <1>5
  <1>8. j \in Nat /\ w * j <= p * n /\ p * n < w * j + w
    BY <1>7
  <1> HIDE DEF i, j
  <1>9. j < n
    <2>1. p * n < w * n
      BY <1>5, Scaled
    <2>2. w * j < w * n
      BY <1>7, <1>8, <2>1
    <2> QED BY <1>8, <2>2
  <1>10. i \in Pooled
    BY <1>1, <1>4 DEF Pooled, i
  <1>11. i * f * n < (j + 1) * w
    <2>1. i * f <= p
      BY <1>6
    <2>2. (i * f) * n <= p * n
      BY <1>5, <1>6, <2>1, Scaled
    <2>3. p * n < (j + 1) * w
      BY <1>8
    <2> QED BY <1>5, <1>6, <1>8, <2>2, <2>3
  <1>12. (i + 1) * f * n > j * w
    <2>1. p < (i + 1) * f
      BY <1>6
    <2>2. p * n < ((i + 1) * f) * n
      BY <1>5, <1>6, <2>1, Scaled
    <2>3. j * w <= p * n
      BY <1>8
    <2> QED BY <1>5, <1>6, <1>8, <2>2, <2>3
  <1>13. j \in Warped
    BY <1>2, <1>3, <1>4, <1>8, <1>9, <1>10, <1>11, <1>12 DEF Warped
  <1>14. j \in Grown
    BY <1>3, <1>8, <1>9, <1>13 DEF Grown
  <1>15. PICK m \in Nat : m = Max({West(t), 0}) /\ m <= p
    <2>1. West(t) \in Int
      BY EdgesAreInts
    <2>2. Max({West(t), 0}) \in {West(t), 0} /\ Max({West(t), 0}) >= 0
      BY <2>1 DEF Max
    <2> QED BY <1>1, <1>5, <2>1, <2>2
  <1>16. (m * n) \div w <= j
    <2>1. m * n \in Nat /\ m * n <= p * n
      BY <1>5, <1>15, Scaled
    <2> QED BY <1>7, <2>1, DivGrows DEF j
  <1>17. PICK e \in Int : e = East(t)
    BY EdgesAreInts
  <1>18. j * w < e * n
    <2>1. p * n < e * n
      BY <1>1, <1>5, <1>17, Scaled
    <2> QED BY <1>5, <1>8, <2>1
  <1>19. j < Ceil(e * n, w)
    BY <1>8, <1>18, CeilBounds
  <1> QED BY <1>2, <1>3, <1>8, <1>14, <1>15, <1>16, <1>17, <1>19 DEF Intersects
-----------------------------------------------------------------------------
(* The worker: its state. *)
Pcs == Working \cup {"off", "clear", "note", "unlock", "ended"}

MainRec ==
  [pc : Pcs, fmt : Formats, try : {1, 2}, code : {0, 1, 75, 143}, reason : Reasons,
   canonical : BOOLEAN, zoom : 0..MaxZoom, left : SUBSET Rows, seen : BOOLEAN,
   again : Rows \cup NoPack]

ShelfRec == [archive : [Formats -> {NoPack, Wanted}], lock : BOOLEAN, note : Reasons]

Archive(f) == shelf.archive[f]

WorkerType ==
  /\ SceneOK /\ main \in MainRec /\ shelf \in ShelfRec /\ listed \subseteq Formats
  /\ pool \in [DOMAIN pool -> Results \cup {"queued"}] /\ DOMAIN pool \subseteq Rows
  /\ clean \in BOOLEAN

Fresh ==
  /\ main.left = {} /\ main.again \in NoPack /\ listed = {} /\ main.code = 0
  /\ \A f \in Formats : Archive(f) = NoPack

Told(t, r) == (r = "ok" => HasData(t)) /\ (r \in {"empty", "outside"} => ~HasData(t))

(* The tiles there are data for are drawn, in hand, or of a later zoom. *)
InHand == main.left \cup DOMAIN pool \cup (IF InMain("retry") THEN {main.again} ELSE {})

Drawn ==
  /\ \A t \in DOMAIN pool : Told(t, pool[t])
  /\ main.pc \notin {"drain", "retry"} => DOMAIN pool = {}
  /\ InMain("retry") => main.again \in Rows
  /\ main.pc \in {"batch", "drain", "retry"} =>
       /\ pack \subseteq Wanted
       /\ \A t \in Wanted : t[1] <= main.zoom => t \in pack \cup InHand
  /\ main.pc \in {"storeMb", "convert", "listPm", "listMb", "finish"} => pack = Wanted

(* The note is the run's own while no call about it failed. *)
Noted ==
  /\ clean /\ main.pc \in Working => shelf.note = "none"
  /\ clean /\ InMain("unlock") => shelf.note = main.reason
  /\ clean /\ InMain("ended") => shelf.note = main.reason /\ ~shelf.lock

(* What is stored and listed by when. *)
BothStored ==
  /\ Archive("mbtiles") = Wanted
  /\ main.fmt = "pmtiles" =>
       Archive("pmtiles") = Wanted /\ (main.canonical => "pmtiles" \in listed)

Listed ==
  /\ InMain("off") => Fresh
  /\ \A f \in listed : main.canonical /\ Archive(f) = Wanted
  /\ Archive("pmtiles") # NoPack => main.fmt = "pmtiles"
  /\ main.pc \in {"convert", "listPm"} =>
       main.fmt = "pmtiles" /\ Archive("mbtiles") = Wanted
  /\ InMain("listPm") => Archive("pmtiles") = Wanted
  /\ InMain("listMb") => BothStored
  /\ InMain("note") => main.code # 0
  /\ InMain("finish") \/ (main.pc \in {"unlock", "ended"} /\ main.code = 0) =>
       BothStored /\ (main.canonical => "mbtiles" \in listed)

WorkerInv == WorkerType /\ Drawn /\ Noted /\ Listed

LEMMA SameTiles ==
  ASSUME scene' = scene
  PROVE  /\ Rows' = Rows /\ Wanted' = Wanted /\ SceneOK' = SceneOK
         /\ \A t : (HasData(t)' <=> HasData(t)) /\ \A r : Told(t, r)' <=> Told(t, r)
  BY DEF Rows, Row, Span, Wanted, HasData, West, East, SceneOK, Told

LEMMA WantedOfRows ==
  Wanted \subseteq Rows /\ (\A t \in Wanted : HasData(t)) /\ NoPack # Wanted
  <1>1. Wanted \subseteq Rows /\ \A t \in Wanted : HasData(t)
    BY DEF Wanted, Rows
  <1>2. <<-1, -1>> \notin Wanted
    BY <1>1, RowsAre
  <1> QED BY <1>1, <1>2 DEF NoPack

LEMMA DataWanted ==
  ASSUME NEW t \in Rows, HasData(t) PROVE t \in Wanted
  BY DEF Wanted, Rows

(* The main thread goes on: only its place changes. *)
LEMMA Goes ==
  ASSUME main \in MainRec, NEW pc \in Pcs, Go(pc)
  PROVE  /\ main' \in MainRec /\ main'.pc = pc
         /\ main'.fmt = main.fmt /\ main'.code = main.code /\ main'.reason = main.reason
         /\ main'.canonical = main.canonical /\ main'.zoom = main.zoom
         /\ main'.left = main.left /\ main'.again = main.again /\ main'.seen = main.seen
  BY DEF Go, MainRec

LEMMA Quits ==
  ASSUME main \in MainRec, NEW code \in {0, 1, 75, 143}, NEW reason \in Reasons, Quit(code, reason)
  PROVE  /\ main' \in MainRec /\ main'.pc = IF reason = "none" THEN "unlock" ELSE "note"
         /\ main'.fmt = main.fmt /\ main'.code = code /\ main'.reason = reason
         /\ main'.canonical = main.canonical
         /\ DOMAIN pool' = {} /\ pool' \in [{} -> Results \cup {"queued"}]
  <1> DEFINE pc == IF reason = "none" THEN "unlock" ELSE "note"
  <1>1. pc \in Pcs
    BY DEF Pcs
  <1>2. main' = [main EXCEPT !.pc = pc, !.code = code, !.reason = reason]
    BY DEF Quit
  <1> HIDE DEF pc
  <1>3. /\ main' \in MainRec /\ main'.pc = pc
        /\ main'.fmt = main.fmt /\ main'.code = code /\ main'.reason = reason
        /\ main'.canonical = main.canonical
    BY <1>1, <1>2 DEF MainRec
  <1>4. DOMAIN pool' = {} /\ pool' \in [{} -> Results \cup {"queued"}]
    BY DEF Quit
  <1> QED BY <1>3, <1>4 DEF pc

LEMMA TypeMoves ==
  ASSUME WorkerType, scene' = scene, main' \in MainRec, shelf' \in ShelfRec,
         listed' \subseteq Formats, DOMAIN pool' \subseteq Rows,
         pool' \in [DOMAIN pool' -> Results \cup {"queued"}], clean' \in BOOLEAN
  PROVE  WorkerType'
  BY SameTiles DEF WorkerType, MainRec, ShelfRec

(* A run that is over with a reason, wherever it was. *)
LEMMA GivesUpKeeps ==
  ASSUME WorkerInv, NEW code \in {1, 75, 143}, NEW reason \in Reasons \ {"none"},
         Quit(code, reason), main.pc \in Working, UNCHANGED <<scene, shelf, listed, clean>>
  PROVE  WorkerInv'
  <1>1. /\ main' \in MainRec /\ main'.pc = "note" /\ main'.fmt = main.fmt /\ main'.code = code
        /\ main'.reason = reason /\ main'.canonical = main.canonical
        /\ DOMAIN pool' = {} /\ pool' \in [{} -> Results \cup {"queued"}]
    BY Quits DEF WorkerInv, WorkerType
  <1>2. WorkerType'
    BY <1>1, TypeMoves DEF WorkerInv, WorkerType
  <1>3. Drawn'
    BY <1>1 DEF Drawn, InMain
  <1>4. Noted'
    BY <1>1 DEF Noted, InMain, Working
  <1>5. Listed'
    BY <1>1, SameTiles DEF WorkerInv, Listed, InMain, Archive, Working
  <1> QED BY <1>2, <1>3, <1>4, <1>5 DEF WorkerInv

LEMMA StartsSound == WorkerInit => WorkerInv
  <1> SUFFICES ASSUME WorkerInit PROVE WorkerInv
    OBVIOUS
  <1>1. SceneOK
    BY DEF WorkerInit, SceneOK
  <1>2. main \in MainRec
    BY ZoomsAreCounted DEF WorkerInit, MainRec, Pcs, Formats, Reasons, NoPack
  <1>3. pool \in [DOMAIN pool -> Results \cup {"queued"}] /\ DOMAIN pool = {}
    BY DEF WorkerInit
  <1>4. shelf \in ShelfRec /\ \A f \in Formats : Archive(f) = NoPack
    BY DEF WorkerInit, ShelfRec, Archive, Reasons
  <1>5. InMain("off") /\ main.left = {} /\ main.again \in NoPack /\ main.code = 0 /\ listed = {}
    BY DEF WorkerInit, InMain, NoPack
  <1> QED BY <1>1, <1>2, <1>3, <1>4, <1>5
       DEF WorkerInit, WorkerInv, WorkerType, Drawn, Noted, Listed, Fresh, InMain, Working, Formats
-----------------------------------------------------------------------------
(* The worker: its steps. *)
LEMMA CreateKeeps ==
  ASSUME WorkerInv, CreatePod PROVE WorkerInv'
  <1>1. InMain("off") /\ Fresh /\ main.pc = "off"
    BY DEF CreatePod, WorkerInv, Listed, InMain
  <1>2. PICK f \in Formats, n \in {"none", "earlier"}, old \in BOOLEAN, c \in BOOLEAN :
          /\ main' = [main EXCEPT !.pc = "clear", !.fmt = f, !.canonical = c]
          /\ shelf' = [shelf EXCEPT !.lock = TRUE, !.note = n,
                         !.archive["mbtiles"] = IF old THEN Wanted' ELSE NoPack]
    BY DEF CreatePod
  <1>3. /\ main.left = {} /\ main.again \in NoPack /\ main.code = 0 /\ listed = {}
        /\ \A g \in Formats : shelf.archive[g] = NoPack
    BY <1>1 DEF Fresh, Archive
  <1>4. SceneOK'
    BY ScenesArePictures DEF CreatePod, SceneOK
  <1>5. main' \in MainRec' /\ main'.pc = "clear" /\ main'.fmt = f /\ main'.canonical = c
        /\ main'.code = 0
    <2>1. main \in MainRec
      BY DEF WorkerInv, WorkerType
    <2>2. main.left \in SUBSET Rows' /\ main.again \in Rows' \cup NoPack
      BY <1>3
    <2>3. /\ main = [pc |-> main.pc, fmt |-> main.fmt, try |-> main.try, code |-> main.code,
                     reason |-> main.reason, canonical |-> main.canonical, zoom |-> main.zoom,
                     left |-> main.left, seen |-> main.seen, again |-> main.again]
          /\ main.try \in {1, 2} /\ main.code = 0 /\ main.reason \in Reasons
          /\ main.zoom \in 0..MaxZoom /\ main.seen \in BOOLEAN
      BY <1>3, <2>1 DEF MainRec
    <2>4. main' = [pc |-> "clear", fmt |-> f, try |-> main.try, code |-> main.code,
                   reason |-> main.reason, canonical |-> c, zoom |-> main.zoom,
                   left |-> main.left, seen |-> main.seen, again |-> main.again]
      BY <1>2, <2>3
    <2>5. main'.pc = "clear" /\ main'.fmt = f /\ main'.canonical = c /\ main'.code = 0
      BY <2>3, <2>4
    <2>6. "clear" \in Pcs
      BY DEF Pcs
    <2>7. main' \in MainRec'
      BY <2>2, <2>3, <2>4, <2>6 DEF MainRec
    <2> QED BY <2>5, <2>7
  <1>6. /\ shelf' \in ShelfRec'
        /\ shelf'.archive["pmtiles"] = NoPack
    <2> DEFINE a == IF old THEN Wanted' ELSE NoPack
               b == [shelf.archive EXCEPT !["mbtiles"] = a]
    <2>1. shelf' = [shelf EXCEPT !.lock = TRUE, !.note = n, !.archive = b]
      BY <1>2
    <2>2. b \in [Formats -> {NoPack, Wanted'}] /\ b["pmtiles"] = NoPack
      BY <1>3 DEF WorkerInv, WorkerType, ShelfRec, Formats
    <2> HIDE DEF b
    <2> QED BY <2>1, <2>2 DEF WorkerInv, WorkerType, ShelfRec, Reasons
  <1>7. pool' = pool /\ listed' = {} /\ DOMAIN pool = {} /\ clean' = clean
    BY <1>1, <1>3 DEF CreatePod, faultVars, WorkerInv, Drawn
  <1>8. WorkerType'
    BY <1>4, <1>5, <1>6, <1>7 DEF WorkerInv, WorkerType
  <1>9. Drawn' /\ Noted'
    BY <1>5, <1>7 DEF Drawn, Noted, InMain, Working
  <1>10. Listed'
    BY <1>5, <1>6, <1>7 DEF Listed, InMain, Archive, Working
  <1> QED BY <1>8, <1>9, <1>10 DEF WorkerInv

LEMMA RetryPodKeeps ==
  ASSUME WorkerInv, RetryPod PROVE WorkerInv'
  <1>1. /\ main' \in MainRec /\ main'.pc = "clear" /\ main'.fmt = main.fmt /\ main'.code = 0
        /\ main'.canonical = main.canonical /\ main.pc = "ended"
    BY ZenonT(60) DEF RetryPod, WorkerInv, WorkerType, MainRec, Pcs, Reasons, InMain
  <1>2. UNCHANGED <<scene, pool, pack, shelf, listed, clean>>
    BY DEF RetryPod, files, faultVars
  <1>3. WorkerType'
    BY <1>1, <1>2, TypeMoves DEF WorkerInv, WorkerType
  <1>4. Drawn'
    BY <1>1, <1>2, SameTiles DEF WorkerInv, Drawn, InMain
  <1>5. Noted' /\ Listed'
    BY <1>1, <1>2, SameTiles DEF WorkerInv, Noted, Listed, InMain, Working, Archive
  <1> QED BY <1>3, <1>4, <1>5 DEF WorkerInv

LEMMA ClearKeeps ==
  ASSUME WorkerInv, ClearNote PROVE WorkerInv'
  <1>1. /\ main' \in MainRec /\ main'.pc = "choose" /\ main'.fmt = main.fmt
        /\ main'.canonical = main.canonical /\ main.pc = "clear"
    BY Goes DEF ClearNote, WorkerInv, WorkerType, Pcs, Working, InMain
  <1>2. UNCHANGED <<scene, pool, pack, listed>>
    BY DEF ClearNote
  <1>3. /\ shelf' \in ShelfRec /\ shelf'.archive = shelf.archive /\ clean' \in BOOLEAN
        /\ clean' => shelf'.note = "none"
    BY DEF ClearNote, WorkerInv, WorkerType, ShelfRec, Reasons, faultVars
  <1>4. WorkerType'
    BY <1>1, <1>2, <1>3, TypeMoves DEF WorkerInv, WorkerType
  <1>5. Drawn'
    BY <1>1, <1>2, SameTiles DEF WorkerInv, Drawn, InMain
  <1>6. Noted' /\ Listed'
    BY <1>1, <1>2, <1>3, SameTiles DEF WorkerInv, Noted, Listed, InMain, Working, Archive
  <1> QED BY <1>4, <1>5, <1>6 DEF WorkerInv

LEMMA ReuseKeeps ==
  ASSUME WorkerInv, Reuse PROVE WorkerInv'
  <1>1. /\ main' \in MainRec /\ main'.pc = "convert" /\ main'.fmt = main.fmt
        /\ main'.canonical = main.canonical /\ main.pc = "choose"
    BY Goes DEF Reuse, WorkerInv, WorkerType, Pcs, Working, InMain
  <1>2. UNCHANGED <<scene, pool, shelf, listed, clean>>
    BY DEF Reuse, faultVars
  <1>3. main.fmt = "pmtiles" /\ shelf.archive["mbtiles"] = Wanted /\ pack' = Wanted
    BY DEF Reuse, Found, WorkerInv, WorkerType, ShelfRec, Formats
  <1>4. WorkerType'
    BY <1>1, <1>2, TypeMoves DEF WorkerInv, WorkerType
  <1>5. Drawn'
    BY <1>1, <1>2, <1>3, SameTiles DEF WorkerInv, Drawn, InMain
  <1>6. Noted' /\ Listed'
    BY <1>1, <1>2, <1>3, SameTiles DEF WorkerInv, Noted, Listed, InMain, Working, Archive
  <1> QED BY <1>4, <1>5, <1>6 DEF WorkerInv

LEMMA PlanKeeps ==
  ASSUME WorkerInv, Plan PROVE WorkerInv'
  <1>1. PICK on \in BOOLEAN :
          main' = [main EXCEPT !.pc = "batch", !.zoom = 0, !.seen = on /\ Prefilters,
                    !.left = {t \in Row(0) : on /\ Prefilters => Intersects(t)}]
    BY DEF Plan
  <1> DEFINE on2 == on /\ Prefilters
             l == {t \in Row(0) : on /\ Prefilters => Intersects(t)}
  <1>2. on2 \in BOOLEAN
    OBVIOUS
  <1>3. l \in SUBSET Rows /\ \A t \in Wanted : t[1] <= 0 => t \in l
    <2>1. 0 \in 0..MaxZoom
      BY ZoomsAreCounted
    <2>2. l \subseteq Rows
      BY <2>1 DEF Rows
    <2>3. ASSUME NEW t \in Wanted, t[1] <= 0 PROVE t \in l
      <3>1. t \in Rows /\ HasData(t)
        BY WantedOfRows
      <3>2. t \in Row(0)
        BY <2>3, <3>1, RowsAre, ZoomsAreCounted
      <3>3. Intersects(t)
        BY <3>1, PrefilterKeeps DEF WorkerInv, WorkerType
      <3> QED BY <3>2, <3>3
    <2> QED BY <2>2, <2>3
  <1>4. 0 \in 0..MaxZoom
    BY ZoomsAreCounted
  <1>5. main' = [main EXCEPT !.pc = "batch", !.zoom = 0, !.seen = on2, !.left = l]
    BY <1>1
  <1> HIDE DEF on2, l
  <1>6. /\ main' \in MainRec /\ main'.pc = "batch" /\ main'.fmt = main.fmt
        /\ main'.canonical = main.canonical /\ main.pc = "choose"
        /\ main'.zoom = 0 /\ main'.left = l
    BY <1>2, <1>3, <1>4, <1>5, ZenonT(60)
       DEF Plan, InMain, WorkerInv, WorkerType, MainRec, Pcs, Working
  <1>7. UNCHANGED <<scene, pool, shelf, listed, clean>> /\ pack' = {}
    BY DEF Plan, faultVars
  <1>8. WorkerType'
    BY <1>6, <1>7, TypeMoves DEF WorkerInv, WorkerType
  <1>9. Drawn'
    BY <1>3, <1>6, <1>7, SameTiles DEF WorkerInv, Drawn, InMain, InHand
  <1>10. Noted' /\ Listed'
    BY <1>6, <1>7, SameTiles DEF WorkerInv, Noted, Listed, InMain, Working, Archive
  <1> QED BY <1>8, <1>9, <1>10, SMTT(60) DEF WorkerInv

LEMMA SubmitKeeps ==
  ASSUME WorkerInv, Submit PROVE WorkerInv'
  <1> DEFINE b == FirstOf(TileBatch, main.left)
             l == main.left \ b
  <1>1. b \subseteq main.left /\ main.left \subseteq Rows
    BY DEF FirstOf, WorkerInv, WorkerType, MainRec
  <1>2. pool' = [t \in b |-> "queued"] /\ main' = [main EXCEPT !.pc = "drain", !.left = l]
    BY DEF Submit
  <1>3. main.left = l \cup b
    BY <1>1
  <1> HIDE DEF b, l
  <1>4. /\ main' \in MainRec /\ main'.pc = "drain" /\ main'.fmt = main.fmt
        /\ main'.canonical = main.canonical /\ main.pc = "batch"
        /\ main'.zoom = main.zoom /\ main'.left = l
    <2>1. main.pc = "batch" /\ main \in MainRec
      BY DEF Submit, InMain, WorkerInv, WorkerType
    <2>2. l \in SUBSET Rows /\ "drain" \in Pcs
      BY <1>1, <1>3 DEF Pcs, Working
    <2> QED BY <1>2, <2>1, <2>2 DEF MainRec
  <1>5. UNCHANGED <<scene, pack, shelf, listed, clean>>
    BY DEF Submit, files, faultVars
  <1>6. /\ DOMAIN pool' = b /\ pool' \in [b -> Results \cup {"queued"}]
        /\ \A t \in b : pool'[t] = "queued"
    BY <1>2
  <1>7. WorkerType'
    BY <1>1, <1>4, <1>5, <1>6, TypeMoves DEF WorkerInv, WorkerType
  <1>8. Drawn'
    <2>1. \A t \in DOMAIN pool' : Told(t, pool'[t])
      BY <1>6 DEF Told
    <2>2. \A t \in Wanted : t[1] <= main.zoom => t \in pack \cup l \cup b
      BY <1>3, <1>4 DEF WorkerInv, Drawn, InHand, InMain
    <2>3. pack \subseteq Wanted
      BY <1>4 DEF WorkerInv, Drawn
    <2> QED BY <1>4, <1>5, <1>6, <2>1, <2>2, <2>3, SameTiles DEF Drawn, InHand, InMain
  <1>9. Noted' /\ Listed'
    BY <1>4, <1>5, SameTiles DEF WorkerInv, Noted, Listed, InMain, Working, Archive
  <1> QED BY <1>7, <1>8, <1>9 DEF WorkerInv
(* A thread's picture of a tile is what the tile is. *)
LEMMA RenderedTold ==
  ASSUME SceneOK, NEW t \in Rows, NEW r \in Results, Rendered(t, r)
  PROVE  Told(t, r)
  BY DataInside DEF Rendered, Told

LEMMA RenderKeeps ==
  ASSUME WorkerInv, RenderTile PROVE WorkerInv'
  <1>1. PICK t \in DOMAIN pool, r \in Results :
          pool[t] = "queued" /\ Rendered(t, r) /\ pool' = [pool EXCEPT ![t] = r]
    BY DEF RenderTile
  <1>2. UNCHANGED <<scene, main, pack, shelf, listed, clean>>
    BY DEF RenderTile, files
  <1>3. /\ DOMAIN pool' = DOMAIN pool /\ pool' \in [DOMAIN pool -> Results \cup {"queued"}]
        /\ \A u \in DOMAIN pool : pool'[u] = IF u = t THEN r ELSE pool[u]
    BY <1>1 DEF WorkerInv, WorkerType
  <1>4. Told(t, r)
    BY <1>1, RenderedTold DEF WorkerInv, WorkerType
  <1>5. WorkerType'
    BY <1>2, <1>3, TypeMoves DEF WorkerInv, WorkerType
  <1>6. Drawn'
    <2>1. \A u \in DOMAIN pool' : Told(u, pool'[u])
      BY <1>3, <1>4 DEF WorkerInv, Drawn
    <2> QED BY <1>2, <1>3, <2>1, SameTiles DEF WorkerInv, Drawn, InHand, InMain
  <1>7. Noted' /\ Listed'
    BY <1>2, SameTiles DEF WorkerInv, Noted, Listed, InMain, Archive, BothStored, Fresh
  <1> QED BY <1>5, <1>6, <1>7 DEF WorkerInv

(* A result is taken: of a future, or of the second try of a tile. *)
LEMMA TakeKeeps ==
  ASSUME WorkerInv, NEW t \in Rows, NEW r \in Results, Told(t, r), Take(t, r),
         \/ InMain("drain") /\ t \in DOMAIN pool
         \/ InMain("retry") /\ t = main.again,
         UNCHANGED <<scene, shelf, listed, clean>>
  PROVE  WorkerInv'
  <1>1. CASE (\E c \in {1, 143}, w \in {"error", "stopped"} : Quit(c, w))
    <2>1. main.pc \in Working
      BY DEF InMain, Working
    <2> QED BY <1>1, <2>1, GivesUpKeeps DEF Reasons
  <1>2. CASE /\ pool' = Rest(t) /\ Go("drain")
             /\ \/ r \in {"outside", "empty"} /\ pack' = pack
                \/ r = "ok" /\ pack' = pack \cup {t}
    <2>1. /\ main' \in MainRec /\ main'.pc = "drain" /\ main'.fmt = main.fmt
          /\ main'.canonical = main.canonical /\ main'.zoom = main.zoom /\ main'.left = main.left
          /\ main.pc \in {"drain", "retry"}
      BY <1>2, Goes DEF WorkerInv, WorkerType, Pcs, Working, InMain
    <2>2. /\ DOMAIN pool' = DOMAIN pool \ {t}
          /\ pool' \in [DOMAIN pool' -> Results \cup {"queued"}]
          /\ \A u \in DOMAIN pool' : pool'[u] = pool[u]
      BY <1>2 DEF Rest, WorkerInv, WorkerType
    <2>3. WorkerType'
      BY <2>1, <2>2, TypeMoves DEF WorkerInv, WorkerType
    <2>4. Drawn'
      <3>1. \A u \in DOMAIN pool' : Told(u, pool'[u])
        BY <2>2 DEF WorkerInv, Drawn
      <3>2. pack' \subseteq Wanted
        BY <1>2, <2>1, DataWanted DEF WorkerInv, Drawn, Told
      <3>3. t \in pack' \/ ~HasData(t)
        BY <1>2 DEF Told
      <3>4. pack \subseteq pack'
        BY <1>2
      <3>5. ASSUME NEW u \in Wanted, u[1] <= main.zoom
            PROVE  u \in pack' \cup main.left \cup DOMAIN pool'
        <4>1. u \in pack \cup InHand
          BY <2>1, <3>5 DEF WorkerInv, Drawn
        <4>2. u \in pack \cup main.left \cup DOMAIN pool \cup {t}
          BY <4>1 DEF InHand, InMain
        <4>3. HasData(u)
          BY WantedOfRows
        <4> QED BY <2>2, <3>3, <3>4, <4>2, <4>3
      <3> QED BY <2>1, <2>2, <3>1, <3>2, <3>5, SameTiles DEF Drawn, InHand, InMain
    <2>5. Noted' /\ Listed'
      BY <2>1, SameTiles DEF WorkerInv, Noted, Listed, InMain, Working, Archive
    <2> QED BY <2>3, <2>4, <2>5 DEF WorkerInv
  <1> QED BY <1>1, <1>2 DEF Take

LEMMA GatherKeeps ==
  ASSUME WorkerInv, Gather PROVE WorkerInv'
  <1>1. InMain("drain") /\ UNCHANGED <<scene, shelf, listed, clean>> /\ main.pc = "drain"
    BY DEF Gather, faultVars, InMain
  <1>2. PICK t \in DOMAIN pool :
          /\ pool[t] # "queued"
          /\ \/ pool[t] # "failed" /\ Take(t, pool[t])
             \/ /\ pool[t] = "failed" /\ pool' = Rest(t) /\ UNCHANGED pack
                /\ main' = [main EXCEPT !.pc = "retry", !.again = t]
    BY DEF Gather
  <1>3. t \in Rows /\ pool[t] \in Results /\ Told(t, pool[t])
    BY <1>2 DEF WorkerInv, WorkerType, Drawn
  <1>4. CASE pool[t] # "failed" /\ Take(t, pool[t])
    BY <1>1, <1>3, <1>4, TakeKeeps
  <1>5. CASE /\ pool[t] = "failed" /\ pool' = Rest(t) /\ UNCHANGED pack
             /\ main' = [main EXCEPT !.pc = "retry", !.again = t]
    <2>1. /\ main' \in MainRec /\ main'.pc = "retry" /\ main'.fmt = main.fmt
          /\ main'.canonical = main.canonical /\ main'.zoom = main.zoom /\ main'.left = main.left
          /\ main'.again = t
      BY <1>3, <1>5 DEF WorkerInv, WorkerType, MainRec, Pcs, Working
    <2>2. /\ DOMAIN pool' = DOMAIN pool \ {t}
          /\ pool' \in [DOMAIN pool' -> Results \cup {"queued"}]
          /\ \A u \in DOMAIN pool' : pool'[u] = pool[u]
      BY <1>5 DEF Rest, WorkerInv, WorkerType
    <2>3. WorkerType'
      BY <1>1, <2>1, <2>2, TypeMoves DEF WorkerInv, WorkerType
    <2>4. Drawn'
      <3>1. \A u \in DOMAIN pool' : Told(u, pool'[u])
        BY <2>2 DEF WorkerInv, Drawn
      <3>2. ASSUME NEW u \in Wanted, u[1] <= main.zoom
            PROVE  u \in pack \cup main.left \cup DOMAIN pool' \cup {t}
        BY <1>1, <2>2, <3>2 DEF WorkerInv, Drawn, InHand, InMain
      <3>3. pack \subseteq Wanted
        BY <1>1 DEF WorkerInv, Drawn
      <3> QED BY <1>1, <1>3, <1>5, <2>1, <2>2, <3>1, <3>2, <3>3, SameTiles
              DEF Drawn, InHand, InMain
    <2>5. Noted' /\ Listed'
      BY <1>1, <2>1, SameTiles DEF WorkerInv, Noted, Listed, InMain, Working, Archive
    <2> QED BY <2>3, <2>4, <2>5 DEF WorkerInv
  <1> QED BY <1>2, <1>4, <1>5

LEMMA RetryTileKeeps ==
  ASSUME WorkerInv, RetryTile PROVE WorkerInv'
  <1>1. InMain("retry") /\ UNCHANGED <<scene, shelf, listed, clean>> /\ main.again \in Rows
    BY DEF RetryTile, WorkerInv, Drawn
  <1>2. PICK r \in Results :
          /\ Rendered(main.again, r)
          /\ IF r = "failed" THEN Quit(1, "error") ELSE Take(main.again, r)
    BY DEF RetryTile
  <1>3. Told(main.again, r)
    BY <1>1, <1>2, RenderedTold DEF WorkerInv, WorkerType
  <1>4. CASE r = "failed"
    BY <1>1, <1>2, <1>4, GivesUpKeeps DEF Reasons, Working, InMain
  <1>5. CASE r # "failed"
    BY <1>1, <1>2, <1>3, <1>5, TakeKeeps
  <1> QED BY <1>4, <1>5
LEMMA GivesUps ==
  ASSUME WorkerInv, Refuse \/ OutOfTime \/ CallFails \/ Signalled PROVE WorkerInv'
  <1>1. CASE Refuse
    BY <1>1, GivesUpKeeps DEF Refuse, faultVars, Reasons, InMain, Working
  <1>2. CASE OutOfTime
    BY <1>2, GivesUpKeeps DEF OutOfTime, faultVars, Reasons, InMain, Working
  <1>3. CASE CallFails
    BY <1>3, GivesUpKeeps DEF CallFails, Reasons, Working
  <1>4. CASE Signalled
    BY <1>4, GivesUpKeeps DEF Signalled, Reasons, Working
  <1> QED BY <1>1, <1>2, <1>3, <1>4

LEMMA EndBatchKeeps ==
  ASSUME WorkerInv, EndBatch PROVE WorkerInv'
  <1>1. /\ main' \in MainRec /\ main'.pc = "batch" /\ main'.fmt = main.fmt
        /\ main'.canonical = main.canonical /\ main'.zoom = main.zoom /\ main'.left = main.left
        /\ main.pc = "drain"
    BY Goes DEF EndBatch, WorkerInv, WorkerType, Pcs, Working, InMain
  <1>2. UNCHANGED <<scene, pool, pack, shelf, listed, clean>> /\ DOMAIN pool = {}
    BY DEF EndBatch, files, faultVars
  <1>3. WorkerType'
    BY <1>1, <1>2, TypeMoves DEF WorkerInv, WorkerType
  <1>4. Drawn'
    BY <1>1, <1>2, SameTiles DEF WorkerInv, Drawn, InHand, InMain
  <1>5. Noted' /\ Listed'
    BY <1>1, <1>2, SameTiles DEF WorkerInv, Noted, Listed, InMain, Working, Archive
  <1> QED BY <1>3, <1>4, <1>5 DEF WorkerInv

LEMMA NextZoomKeeps ==
  ASSUME WorkerInv, NextZoom PROVE WorkerInv'
  <1>1. /\ main.pc = "batch" /\ main \in MainRec /\ main.zoom \in 0..MaxZoom /\ main.left = {}
        /\ main.seen \in BOOLEAN
    BY DEF NextZoom, InMain, WorkerInv, WorkerType, MainRec
  <1>2. UNCHANGED <<scene, pool, pack, shelf, listed, clean>> /\ DOMAIN pool = {}
    BY <1>1 DEF NextZoom, files, faultVars, WorkerInv, Drawn
  <1>3. pack \subseteq Wanted /\ \A t \in Wanted : t[1] <= main.zoom => t \in pack
    BY <1>1, <1>2 DEF WorkerInv, Drawn, InHand, InMain
  <1>4. CASE main.zoom = MaxZoom
    <2>1. /\ main' \in MainRec /\ main'.pc = "storeMb" /\ main'.fmt = main.fmt
          /\ main'.canonical = main.canonical
      BY <1>1, <1>4 DEF NextZoom, MainRec, Pcs, Working
    <2>2. pack = Wanted
      BY <1>3, <1>4, WantedOfRows, RowsAre
    <2>3. WorkerType'
      BY <1>2, <2>1, TypeMoves DEF WorkerInv, WorkerType
    <2>4. Drawn'
      BY <1>2, <2>1, <2>2, SameTiles DEF Drawn, InMain
    <2>5. Noted' /\ Listed'
      BY <1>1, <1>2, <2>1, SameTiles DEF WorkerInv, Noted, Listed, InMain, Working, Archive
    <2> QED BY <2>3, <2>4, <2>5 DEF WorkerInv
  <1>5. CASE main.zoom # MaxZoom
    <2>1. PICK z \in 0..MaxZoom : z = main.zoom + 1
      BY <1>1, <1>5, ZoomsAreCounted
    <2> DEFINE l == {t \in Row(z) : main.seen => Intersects(t)}
    <2>2. main' = [main EXCEPT !.zoom = z, !.left = l]
      BY <1>5, <2>1 DEF NextZoom
    <2>3. l \in SUBSET Rows
      BY DEF Rows
    <2>4. ASSUME NEW t \in Wanted, t[1] <= z PROVE t \in pack \cup l
      <3>1. t \in Rows /\ HasData(t) /\ t[1] \in Int
        BY WantedOfRows, RowsAre
      <3>2. CASE t[1] <= main.zoom
        BY <1>3, <3>2
      <3>3. CASE t[1] = z
        BY <3>1, <3>3, RowsAre, PrefilterKeeps DEF WorkerInv, WorkerType
      <3> QED BY <1>1, <2>1, <2>4, <3>1, <3>2, <3>3
    <2> HIDE DEF l
    <2>5. /\ main' \in MainRec /\ main'.pc = "batch" /\ main'.fmt = main.fmt
          /\ main'.canonical = main.canonical /\ main'.zoom = z /\ main'.left = l
      BY <1>1, <2>2, <2>3 DEF MainRec
    <2>6. WorkerType'
      BY <1>2, <2>5, TypeMoves DEF WorkerInv, WorkerType
    <2>7. Drawn'
      BY <1>2, <1>3, <2>4, <2>5, SameTiles DEF WorkerInv, Drawn, InHand, InMain
    <2>8. Noted' /\ Listed'
      BY <1>1, <1>2, <2>5, SameTiles DEF WorkerInv, Noted, Listed, InMain, Working, Archive
    <2> QED BY <2>6, <2>7, <2>8 DEF WorkerInv
  <1> QED BY <1>4, <1>5

LEMMA StoreKeeps ==
  ASSUME WorkerInv, StoreArchive PROVE WorkerInv'
  <1>1. UNCHANGED <<scene, pool, pack, listed, clean>>
    BY DEF StoreArchive, faultVars
  <1>2. ASSUME NEW fmt \in Formats, Upload(fmt), pack = Wanted
        PROVE  /\ shelf' \in ShelfRec /\ shelf'.note = shelf.note
               /\ \A f \in Formats : shelf'.archive[f] =
                                       IF f = fmt THEN Wanted ELSE shelf.archive[f]
    <2> DEFINE a == [shelf.archive EXCEPT ![fmt] = pack]
    <2>1. shelf' = [shelf EXCEPT !.archive = a]
      BY <1>2 DEF Upload
    <2>2. /\ a \in [Formats -> {NoPack, Wanted}]
          /\ \A f \in Formats : a[f] = IF f = fmt THEN Wanted ELSE shelf.archive[f]
      BY <1>2 DEF WorkerInv, WorkerType, ShelfRec
    <2> HIDE DEF a
    <2> QED BY <2>1, <2>2 DEF WorkerInv, WorkerType, ShelfRec
  <1>3. main.pc \in {"storeMb", "convert"} /\ pack = Wanted
    BY DEF StoreArchive, InMain, WorkerInv, Drawn
  <1>4. PICK fmt \in Formats, pc \in Pcs :
          /\ Upload(fmt) /\ Go(pc)
          /\ \/ main.pc = "storeMb" /\ fmt = "mbtiles"
                /\ pc = IF main.fmt = "mbtiles" THEN "listMb" ELSE "convert"
             \/ main.pc = "convert" /\ fmt = "pmtiles" /\ pc = "listPm"
    BY DEF StoreArchive, InMain, Formats, Pcs, Working
  <1>5. /\ main' \in MainRec /\ main'.pc = pc /\ main'.fmt = main.fmt
        /\ main'.canonical = main.canonical /\ main.fmt \in Formats
    BY <1>4, Goes DEF WorkerInv, WorkerType, MainRec
  <1>6. /\ shelf' \in ShelfRec /\ shelf'.note = shelf.note
        /\ \A f \in Formats : shelf'.archive[f] = IF f = fmt THEN Wanted ELSE shelf.archive[f]
    BY <1>2, <1>3, <1>4
  <1>7. WorkerType'
    BY <1>1, <1>5, <1>6, TypeMoves DEF WorkerInv, WorkerType
  <1>8. Drawn'
    BY <1>1, <1>3, <1>4, <1>5, SameTiles DEF WorkerInv, Drawn, InMain
  <1>9. Noted'
    BY <1>1, <1>3, <1>4, <1>5, <1>6 DEF WorkerInv, Noted, InMain, Working
  <1>10. Listed'
    BY <1>1, <1>3, <1>4, <1>5, <1>6, SameTiles
       DEF WorkerInv, WorkerType, Listed, BothStored, InMain, Archive, Formats
  <1> QED BY <1>7, <1>8, <1>9, <1>10 DEF WorkerInv

LEMMA RegisterKeeps ==
  ASSUME WorkerInv, RegisterAsset PROVE WorkerInv'
  <1>1. UNCHANGED <<scene, pool, pack, shelf, clean>>
    BY DEF RegisterAsset, faultVars
  <1>2. PICK fmt \in Formats, pc \in Pcs :
          /\ PatchAsset(fmt) /\ Go(pc)
          /\ \/ main.pc = "listPm" /\ fmt = "pmtiles" /\ pc = "listMb"
             \/ main.pc = "listMb" /\ fmt = "mbtiles" /\ pc = "finish"
    BY DEF RegisterAsset, InMain, Formats, Pcs, Working
  <1>3. /\ main' \in MainRec /\ main'.pc = pc /\ main'.fmt = main.fmt
        /\ main'.canonical = main.canonical /\ main.canonical \in BOOLEAN
    BY <1>2, Goes DEF WorkerInv, WorkerType, MainRec
  <1>4. \/ main.canonical /\ listed' = listed \cup {fmt}
        \/ ~main.canonical /\ listed' = listed
    BY <1>2 DEF PatchAsset, PatchItemAsset
  <1>5. WorkerType'
    BY <1>1, <1>3, <1>4, TypeMoves DEF WorkerInv, WorkerType
  <1>6. Drawn' /\ Noted'
    BY <1>1, <1>2, <1>3, SameTiles DEF WorkerInv, Drawn, Noted, InMain, Working
  <1>7. Listed'
    BY <1>1, <1>2, <1>3, <1>4, SameTiles
       DEF WorkerInv, Listed, BothStored, InMain, Archive
  <1> QED BY <1>5, <1>6, <1>7 DEF WorkerInv

LEMMA FinishKeeps ==
  ASSUME WorkerInv, Finish PROVE WorkerInv'
  <1>1. UNCHANGED <<scene, shelf, listed, clean>> /\ main.pc = "finish"
    BY DEF Finish, faultVars, InMain
  <1>2. /\ main' \in MainRec /\ main'.pc = "unlock" /\ main'.fmt = main.fmt
        /\ main'.reason = "none" /\ main'.canonical = main.canonical
        /\ DOMAIN pool' = {} /\ pool' \in [{} -> Results \cup {"queued"}]
    <2>1. Quit(0, "none") /\ "none" \in Reasons
      BY DEF Finish, Reasons
    <2> QED BY <2>1, Quits DEF WorkerInv, WorkerType
  <1>3. WorkerType'
    BY <1>1, <1>2, TypeMoves DEF WorkerInv, WorkerType
  <1>4. Drawn' /\ Noted'
    BY <1>1, <1>2 DEF WorkerInv, Drawn, Noted, InMain, Working
  <1>5. Listed'
    BY <1>1, <1>2, SameTiles DEF WorkerInv, Listed, BothStored, InMain, Archive
  <1> QED BY <1>3, <1>4, <1>5 DEF WorkerInv

LEMMA NoteKeeps ==
  ASSUME WorkerInv, PutNote PROVE WorkerInv'
  <1>1. UNCHANGED <<scene, pool, pack, listed>> /\ main.pc = "note"
    BY DEF PutNote, InMain
  <1>2. /\ main' \in MainRec /\ main'.pc = "unlock" /\ main'.fmt = main.fmt
        /\ main'.reason = main.reason /\ main'.canonical = main.canonical
        /\ main'.code = main.code /\ main.reason \in Reasons
    BY Goes DEF PutNote, WorkerInv, WorkerType, MainRec, Pcs
  <1>3. /\ shelf' \in ShelfRec /\ shelf'.archive = shelf.archive /\ clean' \in BOOLEAN
        /\ clean' => shelf'.note = main.reason
    BY <1>2 DEF PutNote, WorkerInv, WorkerType, ShelfRec, faultVars
  <1>4. WorkerType'
    BY <1>1, <1>2, <1>3, TypeMoves DEF WorkerInv, WorkerType
  <1>5. Drawn' /\ Noted'
    BY <1>1, <1>2, <1>3, SameTiles DEF WorkerInv, Drawn, Noted, InMain, Working
  <1>6. Listed'
    BY <1>1, <1>2, <1>3, SameTiles DEF WorkerInv, Listed, InMain, Archive
  <1> QED BY <1>4, <1>5, <1>6 DEF WorkerInv

LEMMA UnlockKeeps ==
  ASSUME WorkerInv, DeleteLock PROVE WorkerInv'
  <1>1. UNCHANGED <<scene, pool, pack, listed>> /\ main.pc = "unlock"
    BY DEF DeleteLock, InMain
  <1>2. /\ main' \in MainRec /\ main'.pc = "ended" /\ main'.fmt = main.fmt
        /\ main'.reason = main.reason /\ main'.canonical = main.canonical
        /\ main'.code = main.code
    BY Goes DEF DeleteLock, WorkerInv, WorkerType, Pcs
  <1>3. /\ shelf' \in ShelfRec /\ shelf'.archive = shelf.archive /\ clean' \in BOOLEAN
        /\ shelf'.note = shelf.note /\ (clean' => clean /\ ~shelf'.lock)
    <2>1. CASE shelf' = [shelf EXCEPT !.lock = FALSE] /\ clean' = clean
      <3>1. shelf'.lock = FALSE
        BY <2>1 DEF WorkerInv, WorkerType, ShelfRec
      <3> QED BY <2>1, <3>1 DEF WorkerInv, WorkerType, ShelfRec
    <2>2. CASE clean' = FALSE /\ shelf' = shelf
      BY <2>2 DEF WorkerInv, WorkerType
    <2> QED BY <2>1, <2>2 DEF DeleteLock, faultVars
  <1>4. WorkerType'
    BY <1>1, <1>2, <1>3, TypeMoves DEF WorkerInv, WorkerType
  <1>5. Drawn' /\ Noted'
    BY <1>1, <1>2, <1>3, SameTiles DEF WorkerInv, Drawn, Noted, InMain, Working
  <1>6. Listed'
    BY <1>1, <1>2, <1>3, SameTiles DEF WorkerInv, Listed, BothStored, InMain, Archive
  <1> QED BY <1>4, <1>5, <1>6 DEF WorkerInv

LEMMA WorkerStutters ==
  ASSUME WorkerInv, UNCHANGED workerVars PROVE WorkerInv'
  <1>1. UNCHANGED <<scene, main, pool, pack, shelf, listed, clean>>
    BY DEF workerVars, files, faultVars
  <1>2. WorkerType'
    BY <1>1, TypeMoves DEF WorkerInv, WorkerType
  <1>3. Drawn'
    BY <1>1, SameTiles DEF WorkerInv, Drawn, InHand, InMain
  <1>4. Noted' /\ Listed'
    BY <1>1, SameTiles DEF WorkerInv, Noted, Listed, BothStored, Fresh, InMain, Archive
  <1> QED BY <1>2, <1>3, <1>4 DEF WorkerInv

LEMMA WorkerSteps == WorkerInv /\ [WorkerNext]_workerVars => WorkerInv'
  <1> SUFFICES ASSUME WorkerInv, [WorkerNext]_workerVars PROVE WorkerInv'
    OBVIOUS
  <1>1. CASE CreatePod \/ RetryPod \/ RenderTile
    BY <1>1, CreateKeeps, RetryPodKeeps, RenderKeeps
  <1>2. CASE OutOfTime \/ CallFails \/ Signalled
    BY <1>2, GivesUps
  <1>3. CASE MainStep
    <2>1. CASE ClearNote \/ Reuse \/ Refuse \/ Plan \/ Submit
      BY <2>1, ClearKeeps, ReuseKeeps, GivesUps, PlanKeeps, SubmitKeeps
    <2>2. CASE Gather \/ RetryTile \/ EndBatch \/ NextZoom
      BY <2>2, GatherKeeps, RetryTileKeeps, EndBatchKeeps, NextZoomKeeps
    <2>3. CASE StoreArchive \/ RegisterAsset \/ Finish \/ PutNote \/ DeleteLock
      BY <2>3, StoreKeeps, RegisterKeeps, FinishKeeps, NoteKeeps, UnlockKeeps
    <2> QED BY <1>3, <2>1, <2>2, <2>3 DEF MainStep
  <1> QED BY <1>1, <1>2, <1>3, WorkerStutters DEF WorkerNext

LEMMA WorkerTells == WorkerInv => ShelfTellsTruth
  <1> SUFFICES ASSUME WorkerInv PROVE ShelfTellsTruth
    OBVIOUS
  <1>1. StoredIsWhole
    BY DEF WorkerInv, WorkerType, ShelfRec, StoredIsWhole
  <1>2. EndTellsWhy
    BY DEF WorkerInv, Noted, EndTellsWhy, InMain
  <1>3. \A f \in listed : main.canonical /\ shelf.archive[f] = Wanted
    BY DEF WorkerInv, Listed, Archive
  <1>4. ASSUME main.pc = "ended", main.code = 0, main.canonical
        PROVE  listed = {f \in Formats : shelf.archive[f] # NoPack}
    <2>1. BothStored /\ "mbtiles" \in listed /\ listed \subseteq Formats
      BY <1>4 DEF WorkerInv, WorkerType, Listed
    <2>2. shelf.archive["pmtiles"] # NoPack => "pmtiles" \in listed
      BY <1>4, <2>1 DEF WorkerInv, Listed, Archive, BothStored
    <2> QED BY <1>3, <2>1, <2>2, WantedOfRows DEF Formats
  <1> QED BY <1>1, <1>2, <1>3, <1>4 DEF ShelfTellsTruth, ListedIsStored

(* Whatever the picture, its zooms and what fails: the archives in the bucket
   are whole, the note and the lock tell how the last run ended, and the item
   names what is there. *)
THEOREM ShelfTrue == WorkerSpec => []ShelfTellsTruth
  BY StartsSound, WorkerSteps, WorkerTells, PTL DEF WorkerSpec
=============================================================================
