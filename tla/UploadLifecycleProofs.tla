----------------------- MODULE UploadLifecycleProofs -----------------------
(***************************************************************************)
(* Proofs about UploadLifecycle, for every set of uploads and handlers,    *)
(* every retry limit and every choice of the messages followed: what a row *)
(* promises, and that the reconciler spares a running workflow.  And about *)
(* Sweep, for any table and replicas: no row ends twice.                   *)
(***************************************************************************)
EXTENDS UploadLifecycleInv, Sweep, FiniteSetTheorems, TLAPS

-----------------------------------------------------------------------------
(* Facts about statuses and rows. *)

(* Ranks are numbers, and no two stages share one. *)
LEMMA RankOfStages ==
  /\ \A s \in Status : Rank[s] \in Nat
  /\ \A s, t \in Stages : Rank[s] = Rank[t] => s = t
  /\ \A s \in Stages : Rank["Succeeded"] > Rank[s]
  BY DEF Rank, Status, Stages, TERMINAL_STATUSES

(* No stage is an end, and the ends the sweep may write are ends. *)
LEMMA StatusKinds ==
  /\ Stages \cap TERMINAL_STATUSES = {}
  /\ UNSUCCESSFUL \subseteq TERMINAL_STATUSES
  /\ "Initiated" \in Stages /\ "Processing" \in Stages
  /\ "Succeeded" \in TERMINAL_STATUSES
  /\ "absent" \notin Status
  BY DEF Stages, TERMINAL_STATUSES, UNSUCCESSFUL, Status

(* What a status write leaves in the row. *)
LEMMA MovedRow ==
  ASSUME NEW r \in Rows, NEW s \in Status \cup {"absent"}
  PROVE  /\ Moved(r, s) \in Rows
         /\ Moved(r, s).status = s
         /\ Moved(r, s).named = r.named
         /\ Moved(r, s).age = "fresh"
         /\ Moved(r, s).token <=> r.token /\ s \notin TERMINAL_STATUSES
         /\ Moved(r, s).source <=> r.source /\ s \notin TERMINAL_STATUSES
  BY DEF Moved, Rows, Expires, Ages

(* update_status moves an open row forward, or leaves it alone. *)
LEMMA UpdatedRow ==
  ASSUME NEW r \in Rows, NEW s \in Status
  PROVE  /\ Updated(r, s) \in Rows
         /\ Updated(r, s).named = r.named
         /\ \/ Updated(r, s) = r /\ ~(r.token /\ Applies(r.status, s))
            \/ /\ Updated(r, s) = Moved(r, s)
               /\ r.token
               /\ Applies(r.status, s)
  BY MovedRow DEF Updated

-----------------------------------------------------------------------------
(* Types, one part per variable. *)

RowType     == row \in [Uploads -> Rows]
SessionType == session \in [Uploads -> {"none", "open", "gone"}]
SlotType    == /\ req \in [Handlers -> [pc: Points, u: Uploads \cup {NoUpload}]]
               /\ SlotsBusy
RunRecord   == [phase: Phases, stage: WorkStages, attempts: 0..MaxAttempts]
RunType     == wf \in [Uploads -> RunRecord]
ReportType  == reports \in [Uploads -> SUBSET Messages]
SweepRecord == [pc: {"idle", "read", "decided"}, u: Uploads \cup {NoUpload},
                status: Status \cup {"absent"}, named: BOOLEAN, aged: BOOLEAN,
                outcome: UNSUCCESSFUL \cup {"absent"}]
SweepType   == sweep \in SweepRecord

LEMMA TypeParts ==
  TypeOK /\ SlotsBusy <=> /\ RowType /\ SessionType /\ SlotType /\ RunType
                          /\ ReportType /\ SweepType
                          /\ object \subseteq Uploads /\ catalog \subseteq Uploads
  BY DEF TypeOK, RowType, SessionType, SlotType, RunType, RunRecord, ReportType,
         SweepType, SweepRecord

(* Writing a row. *)
LEMMA WriteTyped ==
  ASSUME RowType, NEW u, NEW r \in Rows, Write(u, r)
  PROVE  RowType'
  BY DEF RowType, Write

(* A busy slot works on an upload; it begins, goes on and ends. *)
LEMMA SlotWorks ==
  ASSUME SlotType, NEW h \in Handlers, ~At(h, "idle")
  PROVE  req[h].u \in Uploads
  BY DEF SlotType, SlotsBusy, At

LEMMA SlotBegins ==
  ASSUME SlotType, NEW h \in Handlers, NEW u \in Uploads, NEW p \in Points \ {"idle"},
         Begins(h, u, p)
  PROVE  SlotType'
  BY NoUploadIsNone DEF SlotType, SlotsBusy, Begins

LEMMA SlotGoes ==
  ASSUME SlotType, NEW h \in Handlers, ~At(h, "idle"), NEW p \in Points \ {"idle"},
         Goes(h, p)
  PROVE  SlotType'
  BY DEF SlotType, SlotsBusy, Goes, At

LEMMA SlotEnds ==
  ASSUME SlotType, NEW h \in Handlers, Ends(h)
  PROVE  SlotType'
  BY DEF SlotType, SlotsBusy, Ends, Idle, Points

(* A variable left alone keeps its type. *)
LEMMA TypeStays ==
  /\ RowType /\ UNCHANGED row => RowType'
  /\ SessionType /\ UNCHANGED session => SessionType'
  /\ SlotType /\ UNCHANGED req => SlotType'
  /\ RunType /\ UNCHANGED wf => RunType'
  /\ ReportType /\ UNCHANGED reports => ReportType'
  /\ SweepType /\ UNCHANGED sweep => SweepType'
  <1>1. RowType /\ UNCHANGED row => RowType'
    BY DEF RowType
  <1>2. SessionType /\ UNCHANGED session => SessionType'
    BY DEF SessionType
  <1>3. SlotType /\ UNCHANGED req => SlotType'
    BY DEF SlotType, SlotsBusy
  <1>4. RunType /\ UNCHANGED wf => RunType'
    BY DEF RunType
  <1>5. ReportType /\ UNCHANGED reports => ReportType'
    BY DEF ReportType
  <1>6. SweepType /\ UNCHANGED sweep => SweepType'
    BY DEF SweepType
  <1> QED BY <1>1, <1>2, <1>3, <1>4, <1>5, <1>6

LEMMA PostTyped ==
  ASSUME ReportType, NEW u \in Uploads, NEW sent \in SUBSET Messages, Post(u, sent)
  PROVE  ReportType'
  BY DEF ReportType, Post

LEMMA EnterTyped ==
  ASSUME RunType, ReportType, NEW u \in Uploads, NEW stage \in WorkStages,
         NEW sent \in SUBSET Messages, Enter(u, stage, sent)
  PROVE  RunType' /\ ReportType'
  BY PostTyped DEF RunType, RunRecord, Enter

(* The names the actions write are of their types. *)
LEMMA Names ==
  /\ {"session", "complete", "submit", "submitted", "abort", "authorized", "upserted"}
       \subseteq Points \ {"idle"}
  /\ {"Uploaded", "Succeeded", "Failed", "Error", "Aborted", "Initiated", "Processing"}
       \subseteq Status
  /\ {"Failed", "Error", "Aborted"} = UNSUCCESSFUL
  /\ {"fetch", "transfer", "validate", "convert", "upload", "register",
      "registered", "exit"} \subseteq WorkStages
  /\ {"Running", "Succeeded", "Failed", "Error", "gone"} \subseteq Phases
  /\ {"Fetching", "Validating", "Converting", "Uploading", "Registering", "Failed",
      "checksum"} = Messages
  /\ Messages \ {"checksum"} \subseteq Status
  /\ Stages \subseteq Status /\ TERMINAL_STATUSES \subseteq Status
  BY DEF Points, Status, Stages, TERMINAL_STATUSES, UNSUCCESSFUL, WorkStages, Phases, Messages

(* The other rows the actions write. *)
LEMMA OtherRows ==
  ASSUME NEW r \in Rows
  PROVE  /\ Named(r) \in Rows
         /\ Checksummed(r) \in Rows
         /\ \A a \in Ages : [r EXCEPT !.age = a] \in Rows
  BY Names DEF Named, Checksummed, Rows, Ages

LEMMA InitType == Init => TypeOK /\ SlotsBusy
  BY AttemptsPositive, NoUploadIsNone
  DEF Init, TypeOK, SlotsBusy, Rows, NoRow, NoRun, NoSweep, Idle, Ages, Points,
      Phases, WorkStages, Messages

LEMMA StepType == TypeOK /\ SlotsBusy /\ [Next]_vars => TypeOK' /\ SlotsBusy'
  <1> DEFINE Typed == /\ RowType /\ SessionType /\ SlotType /\ RunType /\ ReportType
                      /\ SweepType /\ object \subseteq Uploads /\ catalog \subseteq Uploads
  <1> SUFFICES ASSUME Typed, [Next]_vars PROVE Typed'
    BY DEF TypeOK, RowType, SessionType, SlotType, RunType, RunRecord, ReportType,
           SweepType, SweepRecord
  <1> USE Names, TypeStays
  <1>1. ASSUME NEW h \in Handlers, NEW u \in Uploads, Create(h, u) PROVE Typed'
    <2>1. [status |-> "Initiated", token |-> TRUE, source |-> u \in Remote,
          named |-> FALSE, age |-> "fresh"] \in Rows
      BY <1>1 DEF Rows, Ages
    <2>2. RowType'
      BY <1>1, <2>1, WriteTyped DEF Create
    <2>3. SlotType'
      BY <1>1, SlotBegins DEF Create
    <2> QED BY <1>1, <2>1, <2>2, <2>3 DEF Create
  <1>2. ASSUME NEW h \in Handlers, OpenSession(h) PROVE Typed'
    <2>1. SlotType'
      BY <1>2, SlotEnds DEF OpenSession
    <2>2. SessionType'
      BY <1>2 DEF SessionType, OpenSession
    <2> QED BY <1>2, <2>1, <2>2 DEF OpenSession
  <1>3. ASSUME NEW h \in Handlers, SessionRefused(h) PROVE Typed'
    <2>1. req[h].u \in Uploads /\ row[req[h].u] \in Rows
      BY <1>3, SlotWorks DEF SessionRefused, At, RowType
    <2>2. RowType'
      BY <1>3, <2>1, WriteTyped, MovedRow DEF SessionRefused
    <2>3. SlotType'
      BY <1>3, SlotEnds DEF SessionRefused
    <2> QED BY <1>3, <2>1, <2>2, <2>3 DEF SessionRefused
  <1>4. ASSUME NEW u \in Uploads, Touch(u) PROVE Typed'
    <2>1. RowType'
      BY <1>4, WriteTyped, OtherRows DEF Touch, RowType, Ages
    <2> QED BY <1>4, <2>1 DEF Touch
  <1>5. ASSUME NEW h \in Handlers, NEW u \in Uploads, Claim(h, u) PROVE Typed'
    <2>1. SlotType'
      BY <1>5, SlotBegins DEF Claim
    <2> QED BY <1>5, <2>1 DEF Claim
  <1>6. ASSUME NEW h \in Handlers, Assemble(h) PROVE Typed'
    <2>1. req[h].u \in Uploads
      BY <1>6, SlotWorks DEF Assemble, At
    <2>2. SlotType'
      BY <1>6, SlotGoes DEF Assemble, At
    <2>3. SessionType'
      BY <1>6 DEF SessionType, Assemble
    <2> QED BY <1>6, <2>1, <2>2, <2>3 DEF Assemble
  <1>7. ASSUME NEW h \in Handlers, CompleteRefused(h) PROVE Typed'
    <2>1. SlotType'
      BY <1>7, SlotEnds DEF CompleteRefused
    <2> QED BY <1>7, <2>1 DEF CompleteRefused
  <1>8. ASSUME NEW h \in Handlers, NoCluster(h) PROVE Typed'
    <2>1. req[h].u \in Uploads /\ row[req[h].u] \in Rows
      BY <1>8, SlotWorks DEF NoCluster, At, RowType
    <2>2. RowType'
      BY <1>8, <2>1, WriteTyped, UpdatedRow DEF NoCluster
    <2>3. SlotType'
      BY <1>8, SlotEnds DEF NoCluster
    <2> QED BY <1>8, <2>1, <2>2, <2>3 DEF NoCluster
  <1>9. ASSUME NEW h \in Handlers, Submit(h) PROVE Typed'
    <2>1. req[h].u \in Uploads
      BY <1>9, SlotWorks DEF Submit, At
    <2>2. SlotType'
      BY <1>9, SlotGoes DEF Submit, At
    <2>3. RunType'
      BY <1>9, <2>1, AttemptsPositive DEF Submit, RunType, RunRecord, NewRun
    <2>4. ReportType'
      BY <1>9, <2>1, PostTyped DEF Submit
    <2> QED BY <1>9, <2>1, <2>2, <2>3, <2>4 DEF Submit
  <1>10. ASSUME NEW h \in Handlers, SubmitFailed(h) PROVE Typed'
    <2>1. req[h].u \in Uploads /\ row[req[h].u] \in Rows
      BY <1>10, SlotWorks DEF SubmitFailed, At, RowType
    <2>2. RowType'
      BY <1>10, <2>1, WriteTyped, UpdatedRow DEF SubmitFailed
    <2>3. SlotType'
      BY <1>10, SlotEnds DEF SubmitFailed
    <2> QED BY <1>10, <2>1, <2>2, <2>3 DEF SubmitFailed
  <1>11. ASSUME NEW h \in Handlers, Submitted(h) PROVE Typed'
    <2>1. req[h].u \in Uploads /\ row[req[h].u] \in Rows
      BY <1>11, SlotWorks DEF Submitted, At, RowType
    <2>2. RowType'
      BY <1>11, <2>1, WriteTyped, UpdatedRow, OtherRows DEF Submitted
    <2>3. SlotType'
      BY <1>11, SlotEnds DEF Submitted
    <2> QED BY <1>11, <2>1, <2>2, <2>3 DEF Submitted
  <1>12. ASSUME NEW h \in Handlers, NEW u \in Uploads, AbortSession(h, u) PROVE Typed'
    <2>1. SlotType'
      BY <1>12, SlotBegins DEF AbortSession
    <2>2. SessionType'
      BY <1>12 DEF SessionType, AbortSession
    <2> QED BY <1>12, <2>1, <2>2 DEF AbortSession
  <1>13. ASSUME NEW h \in Handlers, AbortRow(h) PROVE Typed'
    <2>1. req[h].u \in Uploads /\ row[req[h].u] \in Rows
      BY <1>13, SlotWorks DEF AbortRow, At, RowType
    <2>2. RowType'
      BY <1>13, <2>1, WriteTyped, MovedRow DEF AbortRow
    <2>3. SlotType'
      BY <1>13, SlotEnds DEF AbortRow
    <2> QED BY <1>13, <2>1, <2>2, <2>3 DEF AbortRow
  <1>14. ASSUME NEW h \in Handlers, RequestDies(h) PROVE Typed'
    <2>1. SlotType'
      BY <1>14, SlotEnds DEF RequestDies
    <2> QED BY <1>14, <2>1 DEF RequestDies
  <1>15. ASSUME NEW u \in Uploads, FetchAuthorized(u) PROVE Typed'
    <2>1. RunType' /\ ReportType'
      BY <1>15, EnterTyped DEF FetchAuthorized
    <2> QED BY <1>15, <2>1 DEF FetchAuthorized
  <1>16. ASSUME NEW u \in Uploads, Fetched(u) PROVE Typed'
    <2>1. RunType' /\ ReportType'
      BY <1>16, EnterTyped DEF Fetched
    <2> QED BY <1>16, <2>1 DEF Fetched
  <1>17. ASSUME NEW u \in Uploads, Work(u) PROVE Typed'
    <2>1. RunType' /\ ReportType'
      BY <1>17, EnterTyped DEF Work
    <2> QED BY <1>17, <2>1 DEF Work
  <1>18. ASSUME NEW h \in Handlers, NEW u \in Uploads, RegisterAuthorized(h, u) PROVE Typed'
    <2>1. SlotType'
      BY <1>18, SlotBegins DEF RegisterAuthorized
    <2>2. RunType'
      BY <1>18, AttemptsPositive DEF RegisterAuthorized, RunType, RunRecord
    <2> QED BY <1>18, <2>1, <2>2 DEF RegisterAuthorized
  <1>19. ASSUME NEW h \in Handlers, Upsert(h) PROVE Typed'
    <2>1. req[h].u \in Uploads
      BY <1>19, SlotWorks DEF Upsert, At
    <2>2. SlotType'
      BY <1>19, SlotGoes DEF Upsert, At
    <2> QED BY <1>19, <2>1, <2>2 DEF Upsert
  <1>20. ASSUME NEW h \in Handlers, Registered(h) PROVE Typed'
    <2>1. req[h].u \in Uploads /\ row[req[h].u] \in Rows
      BY <1>20, SlotWorks DEF Registered, At, RowType
    <2>2. RowType'
      BY <1>20, <2>1, WriteTyped, UpdatedRow DEF Registered
    <2>3. SlotType'
      BY <1>20, SlotEnds DEF Registered
    <2>4. RunType'
      BY <1>20 DEF Registered, RunType, RunRecord
    <2> QED BY <1>20, <2>1, <2>2, <2>3, <2>4 DEF Registered
  <1>21. ASSUME NEW u \in Uploads, WorkflowSucceeds(u) PROVE Typed'
    <2>1. RunType'
      BY <1>21 DEF WorkflowSucceeds, RunType, RunRecord
    <2> QED BY <1>21, <2>1 DEF WorkflowSucceeds
  <1>22. ASSUME NEW u \in Uploads, WorkflowFails(u) PROVE Typed'
    <2>1. RunType' /\ ReportType'
      BY <1>22, EnterTyped DEF WorkflowFails
    <2> QED BY <1>22, <2>1 DEF WorkflowFails
  <1>23. ASSUME NEW u \in Uploads, WorkflowCloses(u) PROVE Typed'
    <2>1. RunType'
      BY <1>23 DEF WorkflowCloses, RunType, RunRecord
    <2> QED BY <1>23, <2>1 DEF WorkflowCloses
  <1>24. ASSUME NEW u \in Uploads, WorkflowCollected(u) PROVE Typed'
    <2>1. RunType'
      BY <1>24 DEF WorkflowCollected, RunType, RunRecord
    <2> QED BY <1>24, <2>1 DEF WorkflowCollected
  <1>25. ASSUME NEW u \in Uploads, NEW m \in Messages, Report(u, m) PROVE Typed'
    <2>1. row[u] \in Rows
      BY <1>25 DEF RowType
    <2>2. RowType'
      BY <1>25, <2>1, WriteTyped, UpdatedRow, OtherRows DEF Report
    <2>3. ReportType'
      BY <1>25 DEF Report, ReportType
    <2> QED BY <1>25, <2>1, <2>2, <2>3 DEF Report
  <1>26. ASSUME NEW u \in Uploads, NEW m \in Messages, ReportLost(u, m) PROVE Typed'
    <2>1. ReportType'
      BY <1>26 DEF ReportLost, ReportType
    <2> QED BY <1>26, <2>1 DEF ReportLost
  <1>27. ASSUME NEW u \in Uploads, GrowOld(u) PROVE Typed'
    <2>1. RowType'
      BY <1>27, WriteTyped, OtherRows DEF GrowOld, RowType, Ages
    <2> QED BY <1>27, <2>1 DEF GrowOld
  <1>28. ASSUME NEW u \in Uploads, SweepRead(u) PROVE Typed'
    <2>1. row[u] \in Rows
      BY <1>28 DEF RowType
    <2>2. SweepType'
      BY <1>28, <2>1, ZenonT(60) DEF SweepRead, SweepType, SweepRecord, NoSweep, Rows
    <2> QED BY <1>28, <2>1, <2>2 DEF SweepRead
  <1>29. ASSUME SweepDecide PROVE Typed'
    <2>1. SweepType'
      BY <1>29 DEF SweepDecide, SweepType, SweepRecord, NoSweep, Verdict
    <2> QED BY <1>29, <2>1 DEF SweepDecide
  <1>30. ASSUME SweepFinalize PROVE Typed'
    <2>1. sweep.outcome \in Status \cup {"absent"}
      BY <1>30 DEF SweepType, SweepRecord
    <2>2. sweep.u \in Uploads => RowType'
      BY <1>30, <2>1, WriteTyped, MovedRow DEF SweepFinalize, RowType
    <2>3. sweep.u \notin Uploads => RowType'
      BY <1>30 DEF SweepFinalize, Write, RowType
    <2>4. SweepType'
      BY <1>30 DEF SweepFinalize, SweepType, SweepRecord, NoSweep
    <2> QED BY <1>30, <2>1, <2>2, <2>3, <2>4 DEF SweepFinalize
  <1>31. ASSUME SweepCut PROVE Typed'
    <2>1. SweepType'
      BY <1>31 DEF SweepCut, SweepType, SweepRecord, NoSweep
    <2> QED BY <1>31, <2>1 DEF SweepCut
  <1>32. ASSUME UNCHANGED vars PROVE Typed'
    BY <1>32 DEF vars
  <1> QED
    BY <1>1, <1>2, <1>3, <1>4, <1>5, <1>6, <1>7, <1>8, <1>9, <1>10, <1>11,
       <1>12, <1>13, <1>14, <1>15, <1>16, <1>17, <1>18, <1>19, <1>20, <1>21,
       <1>22, <1>23, <1>24, <1>25, <1>26, <1>27, <1>28, <1>29, <1>30, <1>31,
       <1>32
    DEF Next, RequestStep, Request, Workflow, Sweep

-----------------------------------------------------------------------------
(* A step works on one upload, and leaves what concerns any other alone. *)

Same(v) ==
  /\ row'[v] = row[v]
  /\ session'[v] = session[v]
  /\ wf'[v] = wf[v]
  /\ reports'[v] = reports[v]
  /\ v \in object' <=> v \in object
  /\ v \in catalog' <=> v \in catalog
  /\ \A h \in Handlers : req'[h].u = v \/ req[h].u = v => req'[h] = req[h]
  /\ sweep'.u = v \/ sweep.u = v => sweep' = sweep

LEMMA SameKeeps ==
  ASSUME NEW v \in Uploads, UploadInv(v), Same(v)
  PROVE  UploadInv(v)'
  <1>1. SecretsEnd(v)'
    BY DEF UploadInv, SecretsEnd, Same, Open
  <1>2. Unborn(v)'
    BY DEF UploadInv, Unborn, Same
  <1>3. SessionAlone(v)'
    BY DEF UploadInv, SessionAlone, Same
  <1>4. ClaimHolds(v)'
    BY DEF UploadInv, ClaimHolds, Claims, Same
  <1>5. SubmitSound(v)' /\ RemoteOnce(v)'
    BY DEF UploadInv, SubmitSound, RemoteOnce, Same
  <1>6. StageMeans(v)' /\ SucceededLate(v)' /\ ProcessingIsHandedOver(v)'
    BY DEF UploadInv, StageMeans, SucceededLate, ProcessingIsHandedOver, Same, Ended
  <1>7. RegisterLate(v)'
    BY DEF UploadInv, RegisterLate, Same, Ended
  <1> QED BY <1>1, <1>2, <1>3, <1>4, <1>5, <1>6, <1>7 DEF UploadInv

(* What a slot's step leaves in the slots, by its four forms. *)
SlotsSame == \A g \in Handlers : req'[g] = req[g]
Others(h) == \A g \in Handlers \ {h} : req'[g] = req[g]
Began(h, u, p) ==
  req[h].pc = "idle" /\ req[h].u # u /\ req'[h].u = u /\ req'[h].pc = p /\ Others(h)
WentOn(h, u, p) == req[h].u = u /\ req'[h].u = u /\ req'[h].pc = p /\ Others(h)
Left(h, u) == req[h].u = u /\ req'[h].u # u /\ req'[h].pc = "idle" /\ Others(h)

LEMMA SlotSteps ==
  ASSUME SlotType, NEW h \in Handlers, NEW u \in Uploads, NEW p
  PROVE  /\ Begins(h, u, p) => Began(h, u, p)
         /\ req[h].u = u /\ Goes(h, p) => WentOn(h, u, p)
         /\ req[h].u = u /\ Ends(h) => Left(h, u)
  BY NoUploadIsNone
  DEF SlotType, Begins, Began, Goes, WentOn, Ends, Left, Others, Idle

(* What a step leaves in the row, by the ways it may change. *)
RowSame(u) == row'[u] = row[u]
RowAged(u) ==    \* its age, name or source, and not its status
  /\ row'[u].status = row[u].status
  /\ row'[u].token = row[u].token
  /\ row'[u].source => row[u].source
  /\ row[u].named => row'[u].named
RowMoved(u, s) ==
  /\ row'[u].status = s
  /\ row'[u].token <=> row[u].token /\ s \notin TERMINAL_STATUSES
  /\ row'[u].source <=> row[u].source /\ s \notin TERMINAL_STATUSES
  /\ row[u].named => row'[u].named
RowUpdated(u, s) ==
  \/ RowMoved(u, s) /\ row[u].token /\ Applies(row[u].status, s)
  \/ RowAged(u) /\ ~(row[u].token /\ Applies(row[u].status, s))

LEMMA RowSteps ==
  ASSUME RowType, NEW u \in Uploads
  PROVE  /\ \A s \in Status : Write(u, Moved(row[u], s)) => RowMoved(u, s)
         /\ \A s \in Status : Write(u, Updated(row[u], s)) => RowUpdated(u, s)
         /\ \A s \in Status : Write(u, Named(Updated(row[u], s))) =>
              RowUpdated(u, s) /\ row'[u].named
         /\ Write(u, Checksummed(row[u])) => RowAged(u)
         /\ \A a \in Ages : Write(u, [row[u] EXCEPT !.age = a]) => RowAged(u)
  <1>1. row[u] \in Rows
    BY DEF RowType
  <1>2. \A r : Write(u, r) => row'[u] = r
    BY DEF Write, RowType
  <1>3. ASSUME NEW s \in Status PROVE Write(u, Moved(row[u], s)) => RowMoved(u, s)
    BY <1>1, <1>2, MovedRow DEF RowMoved
  <1>4. ASSUME NEW s \in Status PROVE Write(u, Updated(row[u], s)) => RowUpdated(u, s)
    BY <1>1, <1>2, MovedRow, UpdatedRow DEF RowUpdated, RowMoved, RowAged
  <1>5. ASSUME NEW s \in Status, Write(u, Named(Updated(row[u], s)))
        PROVE  RowUpdated(u, s) /\ row'[u].named
    <2> DEFINE r == Updated(row[u], s)
    <2>1. r \in Rows
      BY <1>1, UpdatedRow
    <2>2. /\ row'[u].status = r.status /\ row'[u].token = r.token
          /\ row'[u].source = r.source /\ row'[u].named
      BY <1>2, <1>5, <2>1, ZenonT(60) DEF Named, Rows
    <2> QED BY <1>1, <2>2, MovedRow, UpdatedRow DEF RowUpdated, RowMoved, RowAged
  <1>6. Write(u, Checksummed(row[u])) => RowAged(u)
    BY <1>1, <1>2 DEF Checksummed, RowAged, Rows
  <1>7. ASSUME NEW a \in Ages PROVE Write(u, [row[u] EXCEPT !.age = a]) => RowAged(u)
    BY <1>1, <1>2 DEF RowAged, Rows
  <1> QED BY <1>3, <1>4, <1>5, <1>6, <1>7
(* Each step keeps what its upload relies on. *)

LEMMA SecretsUpdated ==
  ASSUME NEW u \in Uploads, SecretsEnd(u), NEW s \in Status, RowUpdated(u, s)
  PROVE  SecretsEnd(u)'
  <1>1. CASE RowAged(u)
    BY <1>1 DEF SecretsEnd, Open, RowAged
  <1>2. CASE RowMoved(u, s) /\ row[u].token
    <2>1. s \in Stages <=> s \notin TERMINAL_STATUSES
      BY StatusKinds DEF Status
    <2> QED BY <1>2, <2>1 DEF SecretsEnd, Open, RowMoved
  <1> QED BY <1>1, <1>2 DEF RowUpdated

LEMMA SucceededEnds ==
  ASSUME RowType, NEW u \in Uploads, SecretsEnd(u), row[u].status # "absent",
         RowUpdated(u, "Succeeded")
  PROVE  Ended(u)'
  <1>1. row[u].status \in Stages \/ Ended(u)
    BY DEF RowType, Rows, Status, Ended
  <1>2. CASE row[u].status \in Stages
    <2>1. Applies(row[u].status, "Succeeded")
      BY <1>2, RankOfStages, StatusKinds, Names DEF Applies
    <2> QED BY <1>2, <2>1, StatusKinds DEF SecretsEnd, Open, Ended, RowUpdated, RowMoved
  <1>3. CASE Ended(u)
    BY <1>3, StatusKinds, SMTT(60) DEF Ended, RowUpdated, RowMoved, RowAged
  <1> QED BY <1>1, <1>2, <1>3

(* What each action does to the upload it works on, in those terms. *)

CreateDoes(h, u) ==
  /\ row[u].status = "absent"
  /\ row'[u].status = "Initiated" /\ row'[u].token /\ ~row'[u].named
  /\ row'[u].age = "fresh"
  /\ \/ u \in Remote /\ Began(h, u, "submit")
     \/ u \notin Remote /\ Began(h, u, "session")
  /\ session'[u] = session[u] /\ object' = object /\ catalog' = catalog
  /\ wf'[u] = wf[u] /\ reports'[u] = reports[u] /\ sweep' = sweep

OpenSessionDoes(h, u) ==
  /\ req[h].pc = "session" /\ Left(h, u) /\ RowSame(u) /\ object' = object
  /\ catalog' = catalog /\ wf'[u] = wf[u] /\ reports'[u] = reports[u]
  /\ sweep' = sweep

SessionRefusedDoes(h, u) ==
  /\ req[h].pc = "session" /\ Left(h, u) /\ RowMoved(u, "Error")
  /\ session'[u] = session[u] /\ object' = object /\ catalog' = catalog
  /\ wf'[u] = wf[u] /\ reports'[u] = reports[u] /\ sweep' = sweep

TouchDoes(u) ==
  /\ session[u] # "none" /\ row[u].status = "Initiated" /\ RowAged(u)
  /\ row'[u].named = row[u].named /\ session'[u] = session[u]
  /\ object' = object /\ catalog' = catalog /\ SlotsSame /\ wf'[u] = wf[u]
  /\ reports'[u] = reports[u] /\ sweep' = sweep

ClaimDoes(h, u) ==
  /\ u \notin Remote /\ session[u] # "none" /\ row[u].status = "Initiated"
  /\ \A g \in Handlers : ~Claims(g, u)
  /\ Began(h, u, "complete") /\ RowSame(u) /\ session'[u] = session[u]
  /\ object' = object /\ catalog' = catalog /\ wf'[u] = wf[u]
  /\ reports'[u] = reports[u] /\ sweep' = sweep

AssembleDoes(h, u) ==
  /\ req[h].pc = "complete" /\ WentOn(h, u, "submit")
  /\ session'[u] # "none" /\ object' = object \cup {u} /\ RowSame(u)
  /\ catalog' = catalog /\ wf'[u] = wf[u] /\ reports'[u] = reports[u]
  /\ sweep' = sweep

CompleteRefusedDoes(h, u) ==
  /\ Left(h, u) /\ RowSame(u) /\ session'[u] = session[u]
  /\ object' = object /\ catalog' = catalog /\ wf'[u] = wf[u]
  /\ reports'[u] = reports[u] /\ sweep' = sweep

NoClusterDoes(h, u) ==
  /\ req[h].pc = "submit" /\ Left(h, u)
  /\ \/ RowUpdated(u, "Error")
     \/ RowUpdated(u, "Uploaded")
  /\ session'[u] = session[u] /\ object' = object /\ catalog' = catalog
  /\ wf'[u] = wf[u] /\ reports'[u] = reports[u] /\ sweep' = sweep

SubmitDoes(h, u) ==
  /\ req[h].pc = "submit" /\ WentOn(h, u, "submitted")
  /\ \/ wf[u].phase \in {"absent", "gone"} /\ wf'[u] = NewRun
     \/ wf[u].phase \notin {"absent", "gone"} /\ wf'[u] = wf[u] /\ reports'[u] = reports[u]
  /\ RowSame(u) /\ session'[u] = session[u] /\ object' = object
  /\ catalog' = catalog /\ sweep' = sweep

SubmitFailedDoes(h, u) ==
  /\ req[h].pc \in Submitting /\ Left(h, u)
  /\ \/ u \in Remote /\ RowUpdated(u, "Error")
     \/ u \notin Remote /\ RowSame(u)
  /\ session'[u] = session[u] /\ object' = object /\ catalog' = catalog
  /\ wf'[u] = wf[u] /\ reports'[u] = reports[u] /\ sweep' = sweep

SubmittedDoes(h, u) ==
  /\ req[h].pc = "submitted" /\ Left(h, u) /\ RowUpdated(u, "Processing")
  /\ row'[u].named /\ session'[u] = session[u] /\ object' = object
  /\ catalog' = catalog /\ wf'[u] = wf[u] /\ reports'[u] = reports[u]
  /\ sweep' = sweep

AbortSessionDoes(h, u) ==
  /\ session[u] # "none" /\ Began(h, u, "abort") /\ session'[u] # "none"
  /\ RowSame(u) /\ object' = object /\ catalog' = catalog
  /\ wf'[u] = wf[u] /\ reports'[u] = reports[u] /\ sweep' = sweep

AbortRowDoes(h, u) ==
  /\ req[h].pc = "abort" /\ Left(h, u)
  /\ \A g \in Handlers : ~Claims(g, u)
  /\ \/ RowSame(u)
     \/ row[u].status = "Initiated" /\ RowMoved(u, "Aborted")
  /\ session'[u] = session[u] /\ object' = object /\ catalog' = catalog
  /\ wf'[u] = wf[u] /\ reports'[u] = reports[u] /\ sweep' = sweep

RequestDiesDoes(h, u) ==
  /\ Left(h, u) /\ RowSame(u) /\ session'[u] = session[u]
  /\ object' = object /\ catalog' = catalog /\ wf'[u] = wf[u]
  /\ reports'[u] = reports[u] /\ sweep' = sweep

FetchAuthorizedDoes(u) ==
  /\ wf[u].phase = "Running" /\ wf[u].stage = "fetch"
  /\ wf'[u].phase = wf[u].phase /\ wf'[u].stage = "transfer" /\ RowSame(u)
  /\ session'[u] = session[u] /\ object' = object /\ catalog' = catalog
  /\ SlotsSame /\ sweep' = sweep

FetchedDoes(u) ==
  /\ wf[u].phase = "Running" /\ wf[u].stage = "transfer"
  /\ wf'[u].phase = wf[u].phase /\ wf'[u].stage = "validate"
  /\ object' = object \cup {u} /\ RowSame(u) /\ session'[u] = session[u]
  /\ catalog' = catalog /\ SlotsSame /\ sweep' = sweep

WorkDoes(u) ==
  /\ wf[u].phase = "Running"
  /\ wf[u].stage \in {"validate", "convert", "upload"}
  /\ wf'[u].phase = wf[u].phase
  /\ wf'[u].stage \in {"convert", "upload", "register"} /\ RowSame(u)
  /\ session'[u] = session[u] /\ object' = object /\ catalog' = catalog
  /\ SlotsSame /\ sweep' = sweep

RegisterAuthorizedDoes(h, u) ==
  /\ wf[u].phase = "Running" /\ wf[u].stage = "register"
  /\ wf'[u].phase = wf[u].phase /\ wf'[u].stage = wf[u].stage
  /\ Began(h, u, "authorized") /\ RowSame(u) /\ session'[u] = session[u]
  /\ object' = object /\ catalog' = catalog /\ reports'[u] = reports[u]
  /\ sweep' = sweep

UpsertDoes(h, u) ==
  /\ req[h].pc = "authorized" /\ WentOn(h, u, "upserted")
  /\ catalog' = catalog \cup {u} /\ RowSame(u) /\ session'[u] = session[u]
  /\ object' = object /\ wf'[u] = wf[u] /\ reports'[u] = reports[u]
  /\ sweep' = sweep

RegisteredDoes(h, u) ==
  /\ req[h].pc = "upserted" /\ Left(h, u)
  /\ \A g \in Handlers : ~Claims(g, u)
  /\ RowUpdated(u, "Succeeded")
  /\ \/ wf'[u] = wf[u]
     \/ /\ wf[u].phase = "Running" /\ wf[u].stage = "register"
        /\ wf'[u].phase = wf[u].phase /\ wf'[u].stage = "registered"
  /\ session'[u] = session[u] /\ object' = object /\ catalog' = catalog
  /\ reports'[u] = reports[u] /\ sweep' = sweep

WorkflowSucceedsDoes(u) ==
  /\ wf[u].phase = "Running" /\ wf[u].stage = "registered"
  /\ wf'[u].phase = "Succeeded" /\ wf'[u].stage = wf[u].stage
  /\ RowSame(u) /\ session'[u] = session[u] /\ object' = object
  /\ catalog' = catalog /\ SlotsSame /\ reports'[u] = reports[u]
  /\ sweep' = sweep

WorkflowFailsDoes(u) ==
  /\ wf[u].phase = "Running" /\ wf'[u].phase = "Running"
  /\ wf'[u].stage = "exit"
  /\ \/ object' = object
     \/ wf[u].stage \in {"fetch", "transfer", "validate"} /\ object' = object \ {u}
  /\ RowSame(u) /\ session'[u] = session[u] /\ catalog' = catalog
  /\ SlotsSame /\ sweep' = sweep

WorkflowClosesDoes(u) ==
  /\ wf[u].phase = "Running" /\ wf[u].stage = "exit"
  /\ wf'[u].phase \in {"Failed", "Error"} /\ wf'[u].stage = wf[u].stage
  /\ RowSame(u) /\ session'[u] = session[u] /\ object' = object
  /\ catalog' = catalog /\ SlotsSame /\ reports'[u] = reports[u]
  /\ sweep' = sweep

WorkflowCollectedDoes(u) ==
  /\ \/ wf[u].phase = "Succeeded"
     \/ wf[u].phase \in {"Failed", "Error"} /\ \A g \in Handlers : req[g].u # u
  /\ wf'[u].phase = "gone" /\ wf'[u].stage = wf[u].stage /\ RowSame(u)
  /\ session'[u] = session[u] /\ object' = object /\ catalog' = catalog
  /\ SlotsSame /\ reports'[u] = reports[u] /\ sweep' = sweep

ReportDoes(u) ==
  /\ reports[u] # {}
  /\ \A g \in Handlers : ~Claims(g, u)
  /\ \/ RowAged(u)
     \/ \E s \in Messages \ {"checksum"} : RowUpdated(u, s)
  /\ session'[u] = session[u] /\ object' = object /\ catalog' = catalog
  /\ SlotsSame /\ wf'[u] = wf[u] /\ sweep' = sweep

ReportLostDoes(u) ==
  /\ reports[u] # {} /\ RowSame(u) /\ session'[u] = session[u]
  /\ object' = object /\ catalog' = catalog /\ SlotsSame /\ wf'[u] = wf[u]
  /\ sweep' = sweep

GrowOldDoes(u) ==
  /\ row[u].status \in Stages /\ RowAged(u)
  /\ row'[u].named = row[u].named
  /\ \/ row'[u].age = "quiet"
     \/ row'[u].age = "abandoned" /\ \A g \in Handlers : req[g].u # u
  /\ session'[u] = session[u] /\ object' = object /\ catalog' = catalog
  /\ SlotsSame /\ wf'[u] = wf[u] /\ reports'[u] = reports[u]
  /\ sweep' = sweep

SweepReadDoes(u) ==
  /\ row[u].status \in Stages /\ sweep'.u = u /\ sweep'.pc = "read"
  /\ sweep'.named = row[u].named
  /\ (sweep'.aged <=> row[u].age = "abandoned") /\ RowSame(u)
  /\ session'[u] = session[u] /\ object' = object /\ catalog' = catalog
  /\ SlotsSame /\ wf'[u] = wf[u] /\ reports'[u] = reports[u]

SweepDecideDoes(u) ==
  /\ sweep.u = u /\ sweep.pc = "read"
  /\ \/ sweep'.u = NoUpload
     \/ sweep'.u = u /\ (sweep.named \/ sweep.aged)
  /\ RowSame(u) /\ session'[u] = session[u] /\ object' = object
  /\ catalog' = catalog /\ SlotsSame /\ wf'[u] = wf[u]
  /\ reports'[u] = reports[u]

SweepFinalizeDoes(u) ==
  /\ sweep.u = u /\ sweep.pc = "decided" /\ sweep'.u = NoUpload
  /\ \A g \in Handlers : ~Claims(g, u)
  /\ \/ RowSame(u)
     \/ row[u].status \in Stages /\ \E s \in UNSUCCESSFUL : RowMoved(u, s)
  /\ session'[u] = session[u] /\ object' = object /\ catalog' = catalog
  /\ SlotsSame /\ wf'[u] = wf[u] /\ reports'[u] = reports[u]

SweepCutDoes(u) ==
  /\ sweep'.u = NoUpload /\ RowSame(u) /\ session'[u] = session[u]
  /\ object' = object /\ catalog' = catalog /\ SlotsSame /\ wf'[u] = wf[u]
  /\ reports'[u] = reports[u]

(* Whatever an action does, the invariant of its upload holds again. *)
LEMMA DoingKeeps ==
  ASSUME NEW u \in Uploads, RowType, SweepHolds, UploadInv(u)
  PROVE  /\ \A h \in Handlers :
              /\ CreateDoes(h, u) => UploadInv(u)'
              /\ OpenSessionDoes(h, u) => UploadInv(u)'
              /\ SessionRefusedDoes(h, u) => UploadInv(u)'
              /\ ClaimDoes(h, u) => UploadInv(u)'
              /\ AssembleDoes(h, u) => UploadInv(u)'
              /\ CompleteRefusedDoes(h, u) => UploadInv(u)'
              /\ NoClusterDoes(h, u) => UploadInv(u)'
              /\ SubmitDoes(h, u) => UploadInv(u)'
              /\ SubmitFailedDoes(h, u) => UploadInv(u)'
              /\ SubmittedDoes(h, u) => UploadInv(u)'
              /\ AbortSessionDoes(h, u) => UploadInv(u)'
              /\ AbortRowDoes(h, u) => UploadInv(u)'
              /\ RequestDiesDoes(h, u) => UploadInv(u)'
              /\ RegisterAuthorizedDoes(h, u) => UploadInv(u)'
              /\ UpsertDoes(h, u) => UploadInv(u)'
              /\ RegisteredDoes(h, u) => UploadInv(u)'
         /\ TouchDoes(u) => UploadInv(u)'
         /\ FetchAuthorizedDoes(u) => UploadInv(u)'
         /\ FetchedDoes(u) => UploadInv(u)'
         /\ WorkDoes(u) => UploadInv(u)'
         /\ WorkflowSucceedsDoes(u) => UploadInv(u)'
         /\ WorkflowFailsDoes(u) => UploadInv(u)'
         /\ WorkflowClosesDoes(u) => UploadInv(u)'
         /\ WorkflowCollectedDoes(u) => UploadInv(u)'
         /\ ReportDoes(u) => UploadInv(u)'
         /\ ReportLostDoes(u) => UploadInv(u)'
         /\ GrowOldDoes(u) => UploadInv(u)'
         /\ SweepReadDoes(u) => UploadInv(u)'
         /\ SweepDecideDoes(u) => UploadInv(u)'
         /\ SweepFinalizeDoes(u) => UploadInv(u)'
         /\ SweepCutDoes(u) => UploadInv(u)'
  <1> USE SecretsUpdated, SucceededEnds, StatusKinds, Names, NoUploadIsNone
      DEF RowSame, RowAged, RowMoved, RowUpdated, Applies,
          SlotsSame, Others, Began, WentOn, Left, NoRun, NewRun, Open, Ended,
          SweepHolds, Claims, Submitting, Registering, Late,
          UploadInv, SecretsEnd, Unborn, SessionAlone, ClaimHolds, SubmitSound,
          RemoteOnce, StageMeans, SucceededLate, RegisterLate, ProcessingIsHandedOver
  <1>1. ASSUME NEW h \in Handlers, CreateDoes(h, u) PROVE UploadInv(u)'
    BY <1>1 DEF CreateDoes
  <1>2. ASSUME NEW h \in Handlers, OpenSessionDoes(h, u) PROVE UploadInv(u)'
    BY <1>2 DEF OpenSessionDoes
  <1>3. ASSUME NEW h \in Handlers, SessionRefusedDoes(h, u) PROVE UploadInv(u)'
    BY <1>3 DEF SessionRefusedDoes
  <1>4. ASSUME TouchDoes(u) PROVE UploadInv(u)'
    BY <1>4 DEF TouchDoes
  <1>5. ASSUME NEW h \in Handlers, ClaimDoes(h, u) PROVE UploadInv(u)'
    BY <1>5 DEF ClaimDoes
  <1>6. ASSUME NEW h \in Handlers, AssembleDoes(h, u) PROVE UploadInv(u)'
    BY <1>6 DEF AssembleDoes
  <1>7. ASSUME NEW h \in Handlers, CompleteRefusedDoes(h, u) PROVE UploadInv(u)'
    BY <1>7 DEF CompleteRefusedDoes
  <1>8. ASSUME NEW h \in Handlers, NoClusterDoes(h, u) PROVE UploadInv(u)'
    BY <1>8 DEF NoClusterDoes
  <1>9. ASSUME NEW h \in Handlers, SubmitDoes(h, u) PROVE UploadInv(u)'
    BY <1>9 DEF SubmitDoes
  <1>10. ASSUME NEW h \in Handlers, SubmitFailedDoes(h, u) PROVE UploadInv(u)'
    BY <1>10 DEF SubmitFailedDoes
  <1>11. ASSUME NEW h \in Handlers, SubmittedDoes(h, u) PROVE UploadInv(u)'
    BY <1>11 DEF SubmittedDoes
  <1>12. ASSUME NEW h \in Handlers, AbortSessionDoes(h, u) PROVE UploadInv(u)'
    BY <1>12 DEF AbortSessionDoes
  <1>13. ASSUME NEW h \in Handlers, AbortRowDoes(h, u) PROVE UploadInv(u)'
    BY <1>13 DEF AbortRowDoes
  <1>14. ASSUME NEW h \in Handlers, RequestDiesDoes(h, u) PROVE UploadInv(u)'
    BY <1>14 DEF RequestDiesDoes
  <1>15. ASSUME FetchAuthorizedDoes(u) PROVE UploadInv(u)'
    BY <1>15 DEF FetchAuthorizedDoes
  <1>16. ASSUME FetchedDoes(u) PROVE UploadInv(u)'
    BY <1>16 DEF FetchedDoes
  <1>17. ASSUME WorkDoes(u) PROVE UploadInv(u)'
    BY <1>17 DEF WorkDoes
  <1>18. ASSUME NEW h \in Handlers, RegisterAuthorizedDoes(h, u) PROVE UploadInv(u)'
    BY <1>18 DEF RegisterAuthorizedDoes
  <1>19. ASSUME NEW h \in Handlers, UpsertDoes(h, u) PROVE UploadInv(u)'
    BY <1>19 DEF UpsertDoes
  <1>20. ASSUME NEW h \in Handlers, RegisteredDoes(h, u) PROVE UploadInv(u)'
    BY <1>20 DEF RegisteredDoes
  <1>21. ASSUME WorkflowSucceedsDoes(u) PROVE UploadInv(u)'
    BY <1>21 DEF WorkflowSucceedsDoes
  <1>22. ASSUME WorkflowFailsDoes(u) PROVE UploadInv(u)'
    BY <1>22 DEF WorkflowFailsDoes
  <1>23. ASSUME WorkflowClosesDoes(u) PROVE UploadInv(u)'
    BY <1>23 DEF WorkflowClosesDoes
  <1>24. ASSUME WorkflowCollectedDoes(u) PROVE UploadInv(u)'
    BY <1>24 DEF WorkflowCollectedDoes
  <1>25. ASSUME ReportDoes(u) PROVE UploadInv(u)'
    BY <1>25 DEF ReportDoes
  <1>26. ASSUME ReportLostDoes(u) PROVE UploadInv(u)'
    BY <1>26 DEF ReportLostDoes
  <1>27. ASSUME GrowOldDoes(u) PROVE UploadInv(u)'
    BY <1>27 DEF GrowOldDoes
  <1>28. ASSUME SweepReadDoes(u) PROVE UploadInv(u)'
    BY <1>28 DEF SweepReadDoes
  <1>29. ASSUME SweepDecideDoes(u) PROVE UploadInv(u)'
    BY <1>29 DEF SweepDecideDoes
  <1>30. ASSUME SweepFinalizeDoes(u) PROVE UploadInv(u)'
    BY <1>30 DEF SweepFinalizeDoes
  <1>31. ASSUME SweepCutDoes(u) PROVE UploadInv(u)'
    BY <1>31 DEF SweepCutDoes
  <1> QED
    BY <1>1, <1>2, <1>3, <1>4, <1>5, <1>6, <1>7, <1>8, <1>9, <1>10, <1>11,
       <1>12, <1>13, <1>14, <1>15, <1>16, <1>17, <1>18, <1>19, <1>20, <1>21,
       <1>22, <1>23, <1>24, <1>25, <1>26, <1>27, <1>28, <1>29, <1>30, <1>31, ZenonT(60)

(* Whatever an action does, it is a step the promise allows, and a run of a
   multipart upload only starts from an Initiated row whose object is stored. *)
Promised(u) ==
  \/ /\ row[u].status = "absent" /\ row'[u].status = "Initiated"
     /\ catalog' = catalog
  \/ /\ row'[u].status = row[u].status
     /\ \/ catalog' = catalog
        \/ row[u].status # "absent" /\ catalog' = catalog \cup {u}
  \/ /\ row[u].status \in Stages /\ row'[u].status \in Stages
     /\ Rank[row'[u].status] > Rank[row[u].status]
     /\ catalog' = catalog
  \/ /\ row[u].status \in Stages /\ row'[u].status = "Succeeded"
     /\ u \in catalog /\ catalog' = catalog
  \/ /\ row[u].status \in Stages /\ row'[u].status \in UNSUCCESSFUL \cup {"Uploaded"}
     /\ catalog' = catalog

RunFromInitiated(u) ==
  u \notin Remote /\ wf'[u].phase = "Running" /\ wf[u].phase # "Running"
    => row[u].status = "Initiated" /\ u \in object

Lawful(u) == Promised(u) /\ RunFromInitiated(u)

LEMMA UpdatedPromised ==
  ASSUME NEW u \in Uploads, SecretsEnd(u), catalog' = catalog,
         NEW s \in Stages \cup UNSUCCESSFUL \cup {"Uploaded"}, RowUpdated(u, s)
  PROVE  Promised(u)
  <1>1. CASE RowAged(u)
    BY <1>1 DEF RowAged, Promised
  <1>2. CASE RowMoved(u, s) /\ row[u].token /\ Applies(row[u].status, s)
    <2>1. row[u].status \in Stages /\ row'[u].status = s
      BY <1>2 DEF SecretsEnd, Open, RowMoved
    <2>2. CASE s \in Stages
      <3>1. Rank[s] = Rank[row[u].status] => s = row[u].status
        BY <2>1, <2>2, RankOfStages
      <3>2. Rank[s] \in Nat /\ Rank[row[u].status] \in Nat
        BY <2>1, <2>2, RankOfStages, Names
      <3> QED BY <1>2, <2>1, <2>2, <3>1, <3>2 DEF Applies, Promised
    <2>3. CASE s \in UNSUCCESSFUL \cup {"Uploaded"}
      BY <2>1, <2>3, SMTT(60) DEF Promised
    <2> QED BY <2>2, <2>3
  <1> QED BY <1>1, <1>2 DEF RowUpdated

LEMMA DoingLawful ==
  ASSUME NEW u \in Uploads, RowType, SweepHolds, UploadInv(u)
  PROVE  /\ \A h \in Handlers :
              /\ CreateDoes(h, u) => Lawful(u)
              /\ OpenSessionDoes(h, u) => Lawful(u)
              /\ SessionRefusedDoes(h, u) => Lawful(u)
              /\ ClaimDoes(h, u) => Lawful(u)
              /\ AssembleDoes(h, u) => Lawful(u)
              /\ CompleteRefusedDoes(h, u) => Lawful(u)
              /\ NoClusterDoes(h, u) => Lawful(u)
              /\ SubmitDoes(h, u) => Lawful(u)
              /\ SubmitFailedDoes(h, u) => Lawful(u)
              /\ SubmittedDoes(h, u) => Lawful(u)
              /\ AbortSessionDoes(h, u) => Lawful(u)
              /\ AbortRowDoes(h, u) => Lawful(u)
              /\ RequestDiesDoes(h, u) => Lawful(u)
              /\ RegisterAuthorizedDoes(h, u) => Lawful(u)
              /\ UpsertDoes(h, u) => Lawful(u)
              /\ RegisteredDoes(h, u) => Lawful(u)
         /\ TouchDoes(u) => Lawful(u)
         /\ FetchAuthorizedDoes(u) => Lawful(u)
         /\ FetchedDoes(u) => Lawful(u)
         /\ WorkDoes(u) => Lawful(u)
         /\ WorkflowSucceedsDoes(u) => Lawful(u)
         /\ WorkflowFailsDoes(u) => Lawful(u)
         /\ WorkflowClosesDoes(u) => Lawful(u)
         /\ WorkflowCollectedDoes(u) => Lawful(u)
         /\ ReportDoes(u) => Lawful(u)
         /\ ReportLostDoes(u) => Lawful(u)
         /\ GrowOldDoes(u) => Lawful(u)
         /\ SweepReadDoes(u) => Lawful(u)
         /\ SweepDecideDoes(u) => Lawful(u)
         /\ SweepFinalizeDoes(u) => Lawful(u)
         /\ SweepCutDoes(u) => Lawful(u)
  <1> USE UpdatedPromised, StatusKinds, Names, NoUploadIsNone
      DEF Lawful, RunFromInitiated, NewRun, UploadInv, SubmitSound, ClaimHolds, Claims,
          Submitting, WentOn, Promised, RowSame, RowAged, RowMoved, RowUpdated, SecretsEnd,
          Open, Unborn, SessionAlone, Left, RegisterLate, Registering
  <1>1. ASSUME NEW h \in Handlers, CreateDoes(h, u) PROVE Lawful(u)
    BY <1>1 DEF CreateDoes
  <1>2. ASSUME NEW h \in Handlers, OpenSessionDoes(h, u) PROVE Lawful(u)
    BY <1>2 DEF OpenSessionDoes
  <1>3. ASSUME NEW h \in Handlers, SessionRefusedDoes(h, u) PROVE Lawful(u)
    BY <1>3 DEF SessionRefusedDoes
  <1>4. ASSUME TouchDoes(u) PROVE Lawful(u)
    BY <1>4 DEF TouchDoes
  <1>5. ASSUME NEW h \in Handlers, ClaimDoes(h, u) PROVE Lawful(u)
    BY <1>5 DEF ClaimDoes
  <1>6. ASSUME NEW h \in Handlers, AssembleDoes(h, u) PROVE Lawful(u)
    BY <1>6 DEF AssembleDoes
  <1>7. ASSUME NEW h \in Handlers, CompleteRefusedDoes(h, u) PROVE Lawful(u)
    BY <1>7 DEF CompleteRefusedDoes
  <1>8. ASSUME NEW h \in Handlers, NoClusterDoes(h, u) PROVE Lawful(u)
    BY <1>8 DEF NoClusterDoes
  <1>9. ASSUME NEW h \in Handlers, SubmitDoes(h, u) PROVE Lawful(u)
    BY <1>9 DEF SubmitDoes
  <1>10. ASSUME NEW h \in Handlers, SubmitFailedDoes(h, u) PROVE Lawful(u)
    BY <1>10 DEF SubmitFailedDoes
  <1>11. ASSUME NEW h \in Handlers, SubmittedDoes(h, u) PROVE Lawful(u)
    BY <1>11 DEF SubmittedDoes
  <1>12. ASSUME NEW h \in Handlers, AbortSessionDoes(h, u) PROVE Lawful(u)
    BY <1>12 DEF AbortSessionDoes
  <1>13. ASSUME NEW h \in Handlers, AbortRowDoes(h, u) PROVE Lawful(u)
    BY <1>13 DEF AbortRowDoes
  <1>14. ASSUME NEW h \in Handlers, RequestDiesDoes(h, u) PROVE Lawful(u)
    BY <1>14 DEF RequestDiesDoes
  <1>15. ASSUME FetchAuthorizedDoes(u) PROVE Lawful(u)
    BY <1>15 DEF FetchAuthorizedDoes
  <1>16. ASSUME FetchedDoes(u) PROVE Lawful(u)
    BY <1>16 DEF FetchedDoes
  <1>17. ASSUME WorkDoes(u) PROVE Lawful(u)
    BY <1>17 DEF WorkDoes
  <1>18. ASSUME NEW h \in Handlers, RegisterAuthorizedDoes(h, u) PROVE Lawful(u)
    BY <1>18 DEF RegisterAuthorizedDoes
  <1>19. ASSUME NEW h \in Handlers, UpsertDoes(h, u) PROVE Lawful(u)
    BY <1>19 DEF UpsertDoes
  <1>20. ASSUME NEW h \in Handlers, RegisteredDoes(h, u) PROVE Lawful(u)
    BY <1>20 DEF RegisteredDoes
  <1>21. ASSUME WorkflowSucceedsDoes(u) PROVE Lawful(u)
    BY <1>21 DEF WorkflowSucceedsDoes
  <1>22. ASSUME WorkflowFailsDoes(u) PROVE Lawful(u)
    BY <1>22 DEF WorkflowFailsDoes
  <1>23. ASSUME WorkflowClosesDoes(u) PROVE Lawful(u)
    BY <1>23 DEF WorkflowClosesDoes
  <1>24. ASSUME WorkflowCollectedDoes(u) PROVE Lawful(u)
    BY <1>24 DEF WorkflowCollectedDoes
  <1>25. ASSUME ReportDoes(u) PROVE Lawful(u)
    <2>1. Promised(u)
      <3>1. CASE RowAged(u)
        BY <1>25, <3>1 DEF ReportDoes
      <3>2. ASSUME NEW s \in Messages \ {"checksum"}, RowUpdated(u, s) PROVE Promised(u)
        <4>1. s \in Stages \cup UNSUCCESSFUL
          BY DEF Messages, Stages, UNSUCCESSFUL
        <4> QED BY <1>25, <3>2, <4>1 DEF ReportDoes
      <3> QED BY <1>25, <3>1, <3>2 DEF ReportDoes
    <2> QED BY <1>25, <2>1 DEF ReportDoes
  <1>26. ASSUME ReportLostDoes(u) PROVE Lawful(u)
    BY <1>26 DEF ReportLostDoes
  <1>27. ASSUME GrowOldDoes(u) PROVE Lawful(u)
    BY <1>27 DEF GrowOldDoes
  <1>28. ASSUME SweepReadDoes(u) PROVE Lawful(u)
    BY <1>28 DEF SweepReadDoes
  <1>29. ASSUME SweepDecideDoes(u) PROVE Lawful(u)
    BY <1>29 DEF SweepDecideDoes
  <1>30. ASSUME SweepFinalizeDoes(u) PROVE Lawful(u)
    BY <1>30 DEF SweepFinalizeDoes
  <1>31. ASSUME SweepCutDoes(u) PROVE Lawful(u)
    BY <1>31 DEF SweepCutDoes
  <1> QED
    BY <1>1, <1>2, <1>3, <1>4, <1>5, <1>6, <1>7, <1>8, <1>9, <1>10, <1>11,
       <1>12, <1>13, <1>14, <1>15, <1>16, <1>17, <1>18, <1>19, <1>20, <1>21,
       <1>22, <1>23, <1>24, <1>25, <1>26, <1>27, <1>28, <1>29, <1>30, <1>31

(* Each step works on one upload: it keeps its invariant, and leaves the others
   alone. *)
Kept(u) == UploadInv(u)' /\ Lawful(u) /\ \A v \in Uploads \ {u} : Same(v)

OneKept == \E u \in Uploads : Kept(u)

LEMMA StepKept ==
  ASSUME RowType, SessionType, SlotType, RunType, ReportType, SweepType, SweepHolds,
         \A u \in Uploads : UploadInv(u), Next
  PROVE  OneKept
  <1>1. ASSUME NEW h \in Handlers, NEW u \in Uploads, Create(h, u) PROVE OneKept
    <2>2. CreateDoes(h, u)
      BY <1>1, SlotSteps, Names, StatusKinds
      DEF CreateDoes, Create, Begins, Write, RowType, RowSame, SlotsSame
    <2>3. \A v \in Uploads \ {u} : Same(v)
      BY <1>1, NoUploadIsNone
      DEF Same, Create, Begins, Write, Idle, At, Open, NoSweep, SweepHolds,
          RowType, SlotType, SessionType, RunType, ReportType
    <2> QED BY <2>2, <2>3, DoingKeeps, DoingLawful DEF OneKept, Kept
  <1>2. ASSUME NEW h \in Handlers, OpenSession(h) PROVE OneKept
    <2>1. PICK u \in Uploads : req[h].u = u
      BY <1>2, SlotWorks DEF OpenSession, At
    <2>2. OpenSessionDoes(h, u)
      BY <2>1, <1>2, SlotSteps, Names, StatusKinds
      DEF OpenSessionDoes, OpenSession, Ends, At, RowSame, SlotsSame
    <2>3. \A v \in Uploads \ {u} : Same(v)
      BY <2>1, <1>2, NoUploadIsNone
      DEF Same, OpenSession, Ends, Idle, At, Open, NoSweep, SweepHolds,
          RowType, SlotType, SessionType, RunType, ReportType
    <2> QED BY <2>2, <2>3, DoingKeeps, DoingLawful DEF OneKept, Kept
  <1>3. ASSUME NEW h \in Handlers, SessionRefused(h) PROVE OneKept
    <2>1. PICK u \in Uploads : req[h].u = u
      BY <1>3, SlotWorks DEF SessionRefused, At
    <2>2. SessionRefusedDoes(h, u)
      BY <2>1, <1>3, SlotSteps, RowSteps, Names, StatusKinds
      DEF SessionRefusedDoes, SessionRefused, Ends, Write, At, RowSame,
          SlotsSame
    <2>3. \A v \in Uploads \ {u} : Same(v)
      BY <2>1, <1>3, NoUploadIsNone
      DEF Same, SessionRefused, Ends, Write, Idle, At, Open, NoSweep,
          SweepHolds, RowType, SlotType, SessionType, RunType, ReportType
    <2> QED BY <2>2, <2>3, DoingKeeps, DoingLawful DEF OneKept, Kept
  <1>4. ASSUME NEW u \in Uploads, Touch(u) PROVE OneKept
    <2>2. TouchDoes(u)
      BY <1>4, RowSteps, Names, StatusKinds, ZenonT(60)
      DEF TouchDoes, Touch, Write, Ages, RowType, Rows, RowSame, SlotsSame
    <2>3. \A v \in Uploads \ {u} : Same(v)
      BY <1>4, NoUploadIsNone
      DEF Same, Touch, Write, Idle, At, Open, NoSweep, SweepHolds, RowType,
          SlotType, SessionType, RunType, ReportType
    <2> QED BY <2>2, <2>3, DoingKeeps, DoingLawful DEF OneKept, Kept
  <1>5. ASSUME NEW h \in Handlers, NEW u \in Uploads, Claim(h, u) PROVE OneKept
    <2>2. ClaimDoes(h, u)
      BY <1>5, SlotSteps, Names, StatusKinds
      DEF ClaimDoes, Claim, Begins, Claimed, Claims, Submitting, RowSame,
          SlotsSame
    <2>3. \A v \in Uploads \ {u} : Same(v)
      BY <1>5, NoUploadIsNone
      DEF Same, Claim, Begins, Idle, At, Open, NoSweep, SweepHolds, RowType,
          SlotType, SessionType, RunType, ReportType
    <2> QED BY <2>2, <2>3, DoingKeeps, DoingLawful DEF OneKept, Kept
  <1>6. ASSUME NEW h \in Handlers, Assemble(h) PROVE OneKept
    <2>1. PICK u \in Uploads : req[h].u = u
      BY <1>6, SlotWorks DEF Assemble, At
    <2>2. AssembleDoes(h, u)
      BY <2>1, <1>6, SlotSteps, Names, StatusKinds
      DEF AssembleDoes, Assemble, Goes, At, SessionType, RowSame, SlotsSame
    <2>3. \A v \in Uploads \ {u} : Same(v)
      BY <2>1, <1>6, NoUploadIsNone
      DEF Same, Assemble, Goes, Idle, At, Open, NoSweep, SweepHolds, RowType,
          SlotType, SessionType, RunType, ReportType
    <2> QED BY <2>2, <2>3, DoingKeeps, DoingLawful DEF OneKept, Kept
  <1>7. ASSUME NEW h \in Handlers, CompleteRefused(h) PROVE OneKept
    <2>1. PICK u \in Uploads : req[h].u = u
      BY <1>7, SlotWorks DEF CompleteRefused, At
    <2>2. CompleteRefusedDoes(h, u)
      BY <2>1, <1>7, SlotSteps, Names, StatusKinds
      DEF CompleteRefusedDoes, CompleteRefused, Ends, RowSame, SlotsSame
    <2>3. \A v \in Uploads \ {u} : Same(v)
      BY <2>1, <1>7, NoUploadIsNone
      DEF Same, CompleteRefused, Ends, Idle, At, Open, NoSweep, SweepHolds,
          RowType, SlotType, SessionType, RunType, ReportType
    <2> QED BY <2>2, <2>3, DoingKeeps, DoingLawful DEF OneKept, Kept
  <1>8. ASSUME NEW h \in Handlers, NoCluster(h) PROVE OneKept
    <2>1. PICK u \in Uploads : req[h].u = u
      BY <1>8, SlotWorks DEF NoCluster, At
    <2>2. NoClusterDoes(h, u)
      BY <2>1, <1>8, SlotSteps, RowSteps, Names, StatusKinds
      DEF NoClusterDoes, NoCluster, Ends, Write, At, RowSame, SlotsSame
    <2>3. \A v \in Uploads \ {u} : Same(v)
      BY <2>1, <1>8, NoUploadIsNone
      DEF Same, NoCluster, Ends, Write, Idle, At, Open, NoSweep, SweepHolds,
          RowType, SlotType, SessionType, RunType, ReportType
    <2> QED BY <2>2, <2>3, DoingKeeps, DoingLawful DEF OneKept, Kept
  <1>9. ASSUME NEW h \in Handlers, Submit(h) PROVE OneKept
    <2>1. PICK u \in Uploads : req[h].u = u
      BY <1>9, SlotWorks DEF Submit, At
    <2>2. SubmitDoes(h, u)
      BY <2>1, <1>9, SlotSteps, Names, StatusKinds
      DEF SubmitDoes, Submit, Goes, Post, NewRun, At, RunType, ReportType,
          RowSame, SlotsSame
    <2>3. \A v \in Uploads \ {u} : Same(v)
      BY <2>1, <1>9, NoUploadIsNone
      DEF Same, Submit, Goes, Post, NewRun, Idle, At, Open, NoSweep,
          SweepHolds, RowType, SlotType, SessionType, RunType, ReportType
    <2> QED BY <2>2, <2>3, DoingKeeps, DoingLawful DEF OneKept, Kept
  <1>10. ASSUME NEW h \in Handlers, SubmitFailed(h) PROVE OneKept
    <2>1. PICK u \in Uploads : req[h].u = u
      BY <1>10, SlotWorks DEF SubmitFailed, At
    <2>2. SubmitFailedDoes(h, u)
      BY <2>1, <1>10, SlotSteps, RowSteps, Names, StatusKinds
      DEF SubmitFailedDoes, SubmitFailed, Ends, Write, At, Submitting,
          RowType, RowSame, SlotsSame
    <2>3. \A v \in Uploads \ {u} : Same(v)
      BY <2>1, <1>10, NoUploadIsNone
      DEF Same, SubmitFailed, Ends, Write, Idle, At, Open, NoSweep,
          SweepHolds, RowType, SlotType, SessionType, RunType, ReportType
    <2> QED BY <2>2, <2>3, DoingKeeps, DoingLawful DEF OneKept, Kept
  <1>11. ASSUME NEW h \in Handlers, Submitted(h) PROVE OneKept
    <2>1. PICK u \in Uploads : req[h].u = u
      BY <1>11, SlotWorks DEF Submitted, At
    <2>2. SubmittedDoes(h, u)
      BY <2>1, <1>11, SlotSteps, RowSteps, Names, StatusKinds
      DEF SubmittedDoes, Submitted, Ends, Write, At, RowSame, SlotsSame
    <2>3. \A v \in Uploads \ {u} : Same(v)
      BY <2>1, <1>11, NoUploadIsNone
      DEF Same, Submitted, Ends, Write, Idle, At, Open, NoSweep, SweepHolds,
          RowType, SlotType, SessionType, RunType, ReportType
    <2> QED BY <2>2, <2>3, DoingKeeps, DoingLawful DEF OneKept, Kept
  <1>12. ASSUME NEW h \in Handlers, NEW u \in Uploads, AbortSession(h, u) PROVE OneKept
    <2>2. AbortSessionDoes(h, u)
      BY <1>12, SlotSteps, Names, StatusKinds
      DEF AbortSessionDoes, AbortSession, Begins, SessionType, RowSame,
          SlotsSame
    <2>3. \A v \in Uploads \ {u} : Same(v)
      BY <1>12, NoUploadIsNone
      DEF Same, AbortSession, Begins, Idle, At, Open, NoSweep, SweepHolds,
          RowType, SlotType, SessionType, RunType, ReportType
    <2> QED BY <2>2, <2>3, DoingKeeps, DoingLawful DEF OneKept, Kept
  <1>13. ASSUME NEW h \in Handlers, AbortRow(h) PROVE OneKept
    <2>1. PICK u \in Uploads : req[h].u = u
      BY <1>13, SlotWorks DEF AbortRow, At
    <2>2. AbortRowDoes(h, u)
      BY <2>1, <1>13, SlotSteps, RowSteps, Names, StatusKinds
      DEF AbortRowDoes, AbortRow, Ends, Write, At, Claimed, Claims,
          Submitting, RowType, RowSame, SlotsSame
    <2>3. \A v \in Uploads \ {u} : Same(v)
      BY <2>1, <1>13, NoUploadIsNone
      DEF Same, AbortRow, Ends, Write, Idle, At, Open, NoSweep, SweepHolds,
          RowType, SlotType, SessionType, RunType, ReportType
    <2> QED BY <2>2, <2>3, DoingKeeps, DoingLawful DEF OneKept, Kept
  <1>14. ASSUME NEW h \in Handlers, RequestDies(h) PROVE OneKept
    <2>1. PICK u \in Uploads : req[h].u = u
      BY <1>14, SlotWorks DEF RequestDies, At
    <2>2. RequestDiesDoes(h, u)
      BY <2>1, <1>14, SlotSteps, Names, StatusKinds
      DEF RequestDiesDoes, RequestDies, Ends, RowSame, SlotsSame
    <2>3. \A v \in Uploads \ {u} : Same(v)
      BY <2>1, <1>14, NoUploadIsNone
      DEF Same, RequestDies, Ends, Idle, At, Open, NoSweep, SweepHolds,
          RowType, SlotType, SessionType, RunType, ReportType
    <2> QED BY <2>2, <2>3, DoingKeeps, DoingLawful DEF OneKept, Kept
  <1>15. ASSUME NEW u \in Uploads, FetchAuthorized(u) PROVE OneKept
    <2>2. FetchAuthorizedDoes(u)
      BY <1>15, Names, StatusKinds
      DEF FetchAuthorizedDoes, FetchAuthorized, Enter, Post, Running, RunType,
          RunRecord, RowSame, SlotsSame
    <2>3. \A v \in Uploads \ {u} : Same(v)
      BY <1>15, NoUploadIsNone
      DEF Same, FetchAuthorized, Enter, Post, Running, Idle, At, Open,
          NoSweep, SweepHolds, RowType, SlotType, SessionType, RunType,
          ReportType
    <2> QED BY <2>2, <2>3, DoingKeeps, DoingLawful DEF OneKept, Kept
  <1>16. ASSUME NEW u \in Uploads, Fetched(u) PROVE OneKept
    <2>2. FetchedDoes(u)
      BY <1>16, Names, StatusKinds
      DEF FetchedDoes, Fetched, Enter, Post, Running, RunType, RunRecord,
          RowSame, SlotsSame
    <2>3. \A v \in Uploads \ {u} : Same(v)
      BY <1>16, NoUploadIsNone
      DEF Same, Fetched, Enter, Post, Running, Idle, At, Open, NoSweep,
          SweepHolds, RowType, SlotType, SessionType, RunType, ReportType
    <2> QED BY <2>2, <2>3, DoingKeeps, DoingLawful DEF OneKept, Kept
  <1>17. ASSUME NEW u \in Uploads, Work(u) PROVE OneKept
    <2>2. WorkDoes(u)
      BY <1>17, Names, StatusKinds
      DEF WorkDoes, Work, Enter, Post, Running, RunType, RunRecord, RowSame,
          SlotsSame
    <2>3. \A v \in Uploads \ {u} : Same(v)
      BY <1>17, NoUploadIsNone
      DEF Same, Work, Enter, Post, Running, Idle, At, Open, NoSweep,
          SweepHolds, RowType, SlotType, SessionType, RunType, ReportType
    <2> QED BY <2>2, <2>3, DoingKeeps, DoingLawful DEF OneKept, Kept
  <1>18. ASSUME NEW h \in Handlers, NEW u \in Uploads, RegisterAuthorized(h, u) PROVE OneKept
    <2>2. RegisterAuthorizedDoes(h, u)
      BY <1>18, SlotSteps, Names, StatusKinds
      DEF RegisterAuthorizedDoes, RegisterAuthorized, Begins, Running,
          RunType, RunRecord, RowSame, SlotsSame
    <2>3. \A v \in Uploads \ {u} : Same(v)
      BY <1>18, NoUploadIsNone
      DEF Same, RegisterAuthorized, Begins, Running, Idle, At, Open, NoSweep,
          SweepHolds, RowType, SlotType, SessionType, RunType, ReportType
    <2> QED BY <2>2, <2>3, DoingKeeps, DoingLawful DEF OneKept, Kept
  <1>19. ASSUME NEW h \in Handlers, Upsert(h) PROVE OneKept
    <2>1. PICK u \in Uploads : req[h].u = u
      BY <1>19, SlotWorks DEF Upsert, At
    <2>2. UpsertDoes(h, u)
      BY <2>1, <1>19, SlotSteps, Names, StatusKinds
      DEF UpsertDoes, Upsert, Goes, At, RowSame, SlotsSame
    <2>3. \A v \in Uploads \ {u} : Same(v)
      BY <2>1, <1>19, NoUploadIsNone
      DEF Same, Upsert, Goes, Idle, At, Open, NoSweep, SweepHolds, RowType,
          SlotType, SessionType, RunType, ReportType
    <2> QED BY <2>2, <2>3, DoingKeeps, DoingLawful DEF OneKept, Kept
  <1>20. ASSUME NEW h \in Handlers, Registered(h) PROVE OneKept
    <2>1. PICK u \in Uploads : req[h].u = u
      BY <1>20, SlotWorks DEF Registered, At
    <2>2. RegisteredDoes(h, u)
      <3>1. /\ req[h].pc = "upserted" /\ Left(h, u)
            /\ \A g \in Handlers : ~Claims(g, u)
            /\ session'[u] = session[u] /\ object' = object /\ catalog' = catalog
            /\ reports'[u] = reports[u] /\ sweep' = sweep
        BY <2>1, <1>20, SlotSteps DEF Registered, Ends, At, Claimed, Claims, Submitting
      <3>2. RowUpdated(u, "Succeeded")
        BY <2>1, <1>20, RowSteps, Names DEF Registered
      <3>3. \/ wf'[u] = wf[u]
            \/ /\ wf[u].phase = "Running" /\ wf[u].stage = "register"
               /\ wf'[u].phase = wf[u].phase /\ wf'[u].stage = "registered"
        BY <2>1, <1>20 DEF Registered, Running, RunType, RunRecord
      <3> QED BY <3>1, <3>2, <3>3 DEF RegisteredDoes
    <2>3. \A v \in Uploads \ {u} : Same(v)
      BY <2>1, <1>20, NoUploadIsNone
      DEF Same, Registered, Ends, Write, Running, Idle, At, Open, NoSweep,
          SweepHolds, RowType, SlotType, SessionType, RunType, ReportType
    <2> QED BY <2>2, <2>3, DoingKeeps, DoingLawful DEF OneKept, Kept
  <1>21. ASSUME NEW u \in Uploads, WorkflowSucceeds(u) PROVE OneKept
    <2>2. WorkflowSucceedsDoes(u)
      BY <1>21, Names, StatusKinds
      DEF WorkflowSucceedsDoes, WorkflowSucceeds, Running, RunType, RunRecord,
          RowSame, SlotsSame
    <2>3. \A v \in Uploads \ {u} : Same(v)
      BY <1>21, NoUploadIsNone
      DEF Same, WorkflowSucceeds, Running, Idle, At, Open, NoSweep,
          SweepHolds, RowType, SlotType, SessionType, RunType, ReportType
    <2> QED BY <2>2, <2>3, DoingKeeps, DoingLawful DEF OneKept, Kept
  <1>22. ASSUME NEW u \in Uploads, WorkflowFails(u) PROVE OneKept
    <2>2. WorkflowFailsDoes(u)
      BY <1>22, Names, StatusKinds
      DEF WorkflowFailsDoes, WorkflowFails, Enter, Post, RunType, RunRecord,
          RowSame, SlotsSame
    <2>3. \A v \in Uploads \ {u} : Same(v)
      BY <1>22, NoUploadIsNone
      DEF Same, WorkflowFails, Enter, Post, Idle, At, Open, NoSweep,
          SweepHolds, RowType, SlotType, SessionType, RunType, ReportType
    <2> QED BY <2>2, <2>3, DoingKeeps, DoingLawful DEF OneKept, Kept
  <1>23. ASSUME NEW u \in Uploads, WorkflowCloses(u) PROVE OneKept
    <2>2. WorkflowClosesDoes(u)
      BY <1>23, Names, StatusKinds
      DEF WorkflowClosesDoes, WorkflowCloses, Running, RunType, RunRecord,
          RowSame, SlotsSame
    <2>3. \A v \in Uploads \ {u} : Same(v)
      BY <1>23, NoUploadIsNone
      DEF Same, WorkflowCloses, Running, Idle, At, Open, NoSweep, SweepHolds,
          RowType, SlotType, SessionType, RunType, ReportType
    <2> QED BY <2>2, <2>3, DoingKeeps, DoingLawful DEF OneKept, Kept
  <1>24. ASSUME NEW u \in Uploads, WorkflowCollected(u) PROVE OneKept
    <2>2. WorkflowCollectedDoes(u)
      BY <1>24, Names, StatusKinds
      DEF WorkflowCollectedDoes, WorkflowCollected, Served, RunType,
          RunRecord, RowSame, SlotsSame
    <2>3. \A v \in Uploads \ {u} : Same(v)
      BY <1>24, NoUploadIsNone
      DEF Same, WorkflowCollected, Idle, At, Open, NoSweep, SweepHolds,
          RowType, SlotType, SessionType, RunType, ReportType
    <2> QED BY <2>2, <2>3, DoingKeeps, DoingLawful DEF OneKept, Kept
  <1>25. ASSUME NEW u \in Uploads, NEW m \in Messages, Report(u, m) PROVE OneKept
    <2>2. ReportDoes(u)
      BY <1>25, RowSteps, Names, StatusKinds
      DEF ReportDoes, Report, Write, Claimed, Claims, Submitting, RowSame,
          SlotsSame
    <2>3. \A v \in Uploads \ {u} : Same(v)
      BY <1>25, NoUploadIsNone
      DEF Same, Report, Write, Idle, At, Open, NoSweep, SweepHolds, RowType,
          SlotType, SessionType, RunType, ReportType
    <2> QED BY <2>2, <2>3, DoingKeeps, DoingLawful DEF OneKept, Kept
  <1>26. ASSUME NEW u \in Uploads, NEW m \in Messages, ReportLost(u, m) PROVE OneKept
    <2>2. ReportLostDoes(u)
      BY <1>26, Names, StatusKinds
      DEF ReportLostDoes, ReportLost, RowSame, SlotsSame
    <2>3. \A v \in Uploads \ {u} : Same(v)
      BY <1>26, NoUploadIsNone
      DEF Same, ReportLost, Idle, At, Open, NoSweep, SweepHolds, RowType,
          SlotType, SessionType, RunType, ReportType
    <2> QED BY <2>2, <2>3, DoingKeeps, DoingLawful DEF OneKept, Kept
  <1>27. ASSUME NEW u \in Uploads, GrowOld(u) PROVE OneKept
    <2>2. GrowOldDoes(u)
      BY <1>27, RowSteps, Names, StatusKinds
      DEF GrowOldDoes, GrowOld, Write, Ages, Open, Served, RowType, Rows,
          RowSame, SlotsSame
    <2>3. \A v \in Uploads \ {u} : Same(v)
      BY <1>27, NoUploadIsNone
      DEF Same, GrowOld, Write, Idle, At, Open, NoSweep, SweepHolds, RowType,
          SlotType, SessionType, RunType, ReportType
    <2> QED BY <2>2, <2>3, DoingKeeps, DoingLawful DEF OneKept, Kept
  <1>28. ASSUME NEW u \in Uploads, SweepRead(u) PROVE OneKept
    <2>2. SweepReadDoes(u)
      BY <1>28, Names, StatusKinds
      DEF SweepReadDoes, SweepRead, NoSweep, Open, RowSame, SlotsSame
    <2>3. \A v \in Uploads \ {u} : Same(v)
      BY <1>28, NoUploadIsNone
      DEF Same, SweepRead, NoSweep, Idle, At, Open, SweepHolds, RowType,
          SlotType, SessionType, RunType, ReportType
    <2> QED BY <2>2, <2>3, DoingKeeps, DoingLawful DEF OneKept, Kept
  <1>29. ASSUME SweepDecide PROVE OneKept
    <2>1. PICK u \in Uploads : sweep.u = u
      BY <1>29 DEF SweepDecide, SweepHolds
    <2>2. SweepDecideDoes(u)
      BY <2>1, <1>29, Names, StatusKinds
      DEF SweepDecideDoes, SweepDecide, NoSweep, Verdict, RowSame, SlotsSame
    <2>3. \A v \in Uploads \ {u} : Same(v)
      BY <2>1, <1>29, NoUploadIsNone
      DEF Same, SweepDecide, NoSweep, Verdict, Idle, At, Open, SweepHolds,
          RowType, SlotType, SessionType, RunType, ReportType
    <2> QED BY <2>2, <2>3, DoingKeeps, DoingLawful DEF OneKept, Kept
  <1>30. ASSUME SweepFinalize PROVE OneKept
    <2>1. PICK u \in Uploads : sweep.u = u
      BY <1>30 DEF SweepFinalize, SweepHolds
    <2>2. SweepFinalizeDoes(u)
      BY <2>1, <1>30, RowSteps, Names, StatusKinds
      DEF SweepFinalizeDoes, SweepFinalize, NoSweep, Write, SweepHolds,
          Claimed, Claims, Submitting, RowType, RowSame, SlotsSame
    <2>3. \A v \in Uploads \ {u} : Same(v)
      BY <2>1, <1>30, NoUploadIsNone
      DEF Same, SweepFinalize, NoSweep, Write, Idle, At, Open, SweepHolds,
          RowType, SlotType, SessionType, RunType, ReportType
    <2> QED BY <2>2, <2>3, DoingKeeps, DoingLawful DEF OneKept, Kept
  <1>31. ASSUME SweepCut PROVE OneKept
    <2>1. PICK u \in Uploads : sweep.u = u
      BY <1>31 DEF SweepCut, SweepHolds
    <2>2. SweepCutDoes(u)
      BY <2>1, <1>31, Names, StatusKinds
      DEF SweepCutDoes, SweepCut, NoSweep, RowSame, SlotsSame
    <2>3. \A v \in Uploads \ {u} : Same(v)
      BY <2>1, <1>31, NoUploadIsNone
      DEF Same, SweepCut, NoSweep, Idle, At, Open, SweepHolds, RowType,
          SlotType, SessionType, RunType, ReportType
    <2> QED BY <2>2, <2>3, DoingKeeps, DoingLawful DEF OneKept, Kept
  <1> QED
    BY <1>1, <1>2, <1>3, <1>4, <1>5, <1>6, <1>7, <1>8, <1>9, <1>10, <1>11,
       <1>12, <1>13, <1>14, <1>15, <1>16, <1>17, <1>18, <1>19, <1>20, <1>21,
       <1>22, <1>23, <1>24, <1>25, <1>26, <1>27, <1>28, <1>29, <1>30, <1>31
    DEF Next, RequestStep, Request, Workflow, Sweep

-----------------------------------------------------------------------------
(* The invariant. *)

(* Whatever a step does, what the sweep holds stays fit to be written. *)
LEMMA SweepKept ==
  ASSUME SweepType, SweepHolds, [Next]_vars
  PROVE  SweepHolds'
  <1>1. CASE UNCHANGED sweep
    BY <1>1 DEF SweepHolds
  <1>2. ASSUME NEW u \in Uploads, SweepRead(u) PROVE SweepHolds'
    BY <1>2 DEF SweepRead, SweepHolds, NoSweep, Open
  <1>3. CASE SweepDecide
    BY <1>3 DEF SweepDecide, SweepHolds, Verdict, NoSweep, UNSUCCESSFUL, SweepType, SweepRecord
  <1>4. CASE SweepFinalize \/ SweepCut
    BY <1>4 DEF SweepFinalize, SweepCut, SweepHolds, NoSweep
  <1>5. CASE UNCHANGED vars
    BY <1>1, <1>5 DEF vars
  <1>6. ASSUME NEW h \in Handlers, RequestStep(h) PROVE SweepHolds'
    BY <1>1, <1>6
    DEF RequestStep, OpenSession, SessionRefused, Assemble, CompleteRefused, NoCluster,
        Submit, SubmitFailed, Submitted, AbortRow, Upsert, Registered, RequestDies
  <1>7. ASSUME NEW h \in Handlers, NEW u \in Uploads, Request(h, u) PROVE SweepHolds'
    BY <1>1, <1>7 DEF Request, Create, Claim, AbortSession, RegisterAuthorized
  <1>8. ASSUME NEW u \in Uploads, Touch(u) \/ Workflow(u) \/ GrowOld(u) PROVE SweepHolds'
    BY <1>1, <1>8
    DEF Touch, GrowOld, Workflow, FetchAuthorized, Fetched, Work, WorkflowSucceeds,
        WorkflowFails, WorkflowCloses, WorkflowCollected
  <1>9. ASSUME NEW u \in Uploads, NEW m \in Messages, Report(u, m) \/ ReportLost(u, m)
        PROVE SweepHolds'
    BY <1>1, <1>9 DEF Report, ReportLost
  <1> QED BY <1>2, <1>3, <1>4, <1>5, <1>6, <1>7, <1>8, <1>9 DEF Next, Sweep

LEMMA InitInv == Init => IInv
  <1> SUFFICES ASSUME Init PROVE IInv
    OBVIOUS
  <1>1. TypeOK /\ SlotsBusy
    BY InitType
  <1>2. SweepHolds
    BY DEF Init, SweepHolds, NoSweep
  <1>3. ASSUME NEW u \in Uploads PROVE UploadInv(u)
    <2>1. /\ row[u] = NoRow /\ session[u] = "none" /\ wf[u] = NoRun /\ reports[u] = {}
          /\ u \notin catalog /\ sweep.u # u /\ \A h \in Handlers : req[h].u # u
      BY NoUploadIsNone DEF Init, NoSweep, Idle
    <2>2. NoRow.status = "absent" /\ ~NoRow.token /\ ~NoRow.source
      BY DEF NoRow
    <2>3. NoRun.phase = "absent" /\ NoRun.stage = "none"
      BY DEF NoRun
    <2>4. "absent" \notin Stages
      BY DEF Stages
    <2> QED
      BY <2>1, <2>2, <2>3, <2>4
      DEF UploadInv, SecretsEnd, Open, Unborn, SessionAlone, ClaimHolds, Claims, SubmitSound,
          RemoteOnce, StageMeans, SucceededLate, RegisterLate, ProcessingIsHandedOver
  <1> QED BY <1>1, <1>2, <1>3 DEF IInv

(* A step of the system is one upload's, or nobody's. *)
LEMMA StepOfOne ==
  ASSUME IInv, Next
  PROVE  \E u \in Uploads : Kept(u)
  BY TypeParts, StepKept DEF IInv, OneKept

LEMMA StepInv == IInv /\ [Next]_vars => IInv'
  <1> SUFFICES ASSUME IInv, [Next]_vars PROVE IInv'
    OBVIOUS
  <1>1. TypeOK' /\ SlotsBusy'
    BY StepType DEF IInv
  <1>2. SweepHolds'
    BY SweepKept, TypeParts DEF IInv
  <1>3. ASSUME NEW v \in Uploads PROVE UploadInv(v)'
    <2>1. CASE Next
      <3>1. PICK u \in Uploads : Kept(u)
        BY <2>1, StepOfOne
      <3> QED BY <3>1, SameKeeps DEF Kept, IInv
    <2>2. CASE UNCHANGED vars
      <3>1. Same(v)
        BY <2>2 DEF vars, Same
      <3> QED BY <3>1, SameKeeps DEF IInv
    <2> QED BY <2>1, <2>2
  <1> QED BY <1>1, <1>2, <1>3 DEF IInv

(* Every reachable state satisfies the inductive invariant. *)
THEOREM Invariant == Spec => []IInv
  BY InitInv, StepInv, PTL DEF Spec

(* Every variable keeps its type: in particular a register pod is never counted
   past the retry limit, and no slot works on an upload that does not exist. *)
THEOREM TypeCorrect == Spec => []TypeOK
  <1>1. IInv => TypeOK
    BY DEF IInv
  <1> QED BY <1>1, Invariant, PTL

(* The callback token and the source URL end with the upload, whichever of the
   report, the reconciler, the abort or the failed submission ends it. *)
THEOREM SecretsEndSafe == Spec => []SecretsEndWithUpload
  <1>1. IInv => SecretsEndWithUpload
    BY DEF IInv, UploadInv, SecretsEndWithUpload
  <1> QED BY <1>1, Invariant, PTL

(* Succeeded is only ever said of an upload whose item is in the catalogue and
   whose object is in the bucket. *)
THEOREM SucceededSafe == Spec => []SucceededIsPublished
  <1>1. IInv => SucceededIsPublished
    BY DEF IInv, UploadInv, SucceededLate, SucceededIsPublished
  <1> QED BY <1>1, Invariant, PTL

(* A workflow Argo calls Succeeded has ended its row, so the reconciler may
   leave that phase to nobody. *)
THEOREM SuccessfulWorkflowSafe == Spec => []SuccessfulWorkflowEndedRow
  <1>1. IInv => SuccessfulWorkflowEndedRow
    BY DEF IInv, UploadInv, StageMeans, SuccessfulWorkflowEndedRow
  <1> QED BY <1>1, Invariant, PTL

(* A Processing row names a workflow that was created. *)
THEOREM ProcessingSafe == Spec => []ProcessingHasWorkflow
  <1>1. IInv => ProcessingHasWorkflow
    BY DEF IInv, UploadInv, ProcessingHasWorkflow
  <1> QED BY <1>1, Invariant, PTL

-----------------------------------------------------------------------------
(* Steps. *)

(* No step rewrites the status of an upload that has ended. *)
THEOREM EndSafe == Spec => EndIsFinal
  <1>1. ASSUME IInv, [Next]_vars, NEW v \in Uploads, Ended(v)
        PROVE  row'[v].status = row[v].status
    <2>1. CASE Next
      <3>1. PICK u \in Uploads : Kept(u)
        BY <1>1, <2>1, StepOfOne
      <3>2. CASE u = v
        <4>1. row[v].status \notin Stages /\ row[v].status # "absent"
          BY <1>1, StatusKinds, Names DEF Ended
        <4> QED BY <3>1, <3>2, <4>1 DEF Kept, Lawful, Promised
      <3>3. CASE u # v
        BY <3>1, <3>3 DEF Kept, Same
      <3> QED BY <3>2, <3>3
    <2>2. CASE UNCHANGED vars
      BY <2>2 DEF vars
    <2> QED BY <1>1, <2>1, <2>2
  <1>2. IInv /\ [Next]_vars
          => [\A u \in Uploads : Ended(u) => row'[u].status = row[u].status]_vars
    BY <1>1
  <1> QED BY <1>2, Invariant, PTL DEF Spec, EndIsFinal

(* A multipart upload's workflow starts, and starts again, only while the row
   is Initiated and the object is stored: two completions never run it twice. *)
THEOREM RunsSafe == Spec => RunsStartFromInitiated
  <1>1. ASSUME IInv, [Next]_vars, NEW v \in Uploads \ Remote,
               wf'[v].phase = "Running", wf[v].phase # "Running"
        PROVE  row[v].status = "Initiated" /\ v \in object
    <2>1. CASE Next
      <3>1. PICK u \in Uploads : Kept(u)
        BY <1>1, <2>1, StepOfOne
      <3>2. CASE u = v
        BY <1>1, <3>1, <3>2 DEF Kept, Lawful, RunFromInitiated
      <3>3. CASE u # v
        BY <1>1, <3>1, <3>3 DEF Kept, Same
      <3> QED BY <3>2, <3>3
    <2>2. CASE UNCHANGED vars
      BY <1>1, <2>2 DEF vars
    <2> QED BY <1>1, <2>1, <2>2
  <1>2. IInv /\ [Next]_vars
          => [\A u \in Uploads \ Remote :
                wf'[u].phase = "Running" /\ wf[u].phase # "Running"
                  => row[u].status = "Initiated" /\ u \in object]_vars
    BY <1>1
  <1> QED BY <1>2, Invariant, PTL DEF Spec, RunsStartFromInitiated

-----------------------------------------------------------------------------
(* Refinement. *)

(* The statuses, as UploadPromise sees them. *)
Seen == [u \in Uploads |-> row[u].status]

LEMMA SeenMoves ==
  ASSUME NEW u \in Uploads, \A v \in Uploads \ {u} : Same(v)
  PROVE  Seen' = [Seen EXCEPT ![u] = row'[u].status]
  BY DEF Seen, Same

(* UploadPromise and the lifecycle speak of the same statuses. *)
LEMMA SameStatuses ==
  /\ Promise!Stages = Stages
  /\ Promise!UNSUCCESSFUL = UNSUCCESSFUL
  /\ Promise!Rank = Rank
  BY DEF Promise!Stages, Stages, Promise!UNSUCCESSFUL, UNSUCCESSFUL, Promise!Rank, Rank,
         Promise!Status, Status, Promise!TERMINAL_STATUSES, TERMINAL_STATUSES

(* A step of one upload is a step of the promise, or none. *)
LEMMA StepPromised ==
  ASSUME NEW u \in Uploads, Kept(u)
  PROVE  [Promise!PromiseNext]_(Promise!promiseVars)
  <1>1. Seen' = [Seen EXCEPT ![u] = row'[u].status]
    BY SeenMoves DEF Kept
  <1> USE <1>1 DEF Seen
  <1>2. Seen[u] = row[u].status
    OBVIOUS
  <1>3. CASE /\ row[u].status = "absent" /\ row'[u].status = "Initiated"
             /\ catalog' = catalog
    BY <1>2, <1>3 DEF Promise!PromiseNext, Promise!Begin
  <1>4. CASE row'[u].status = row[u].status /\ catalog' = catalog
    BY <1>2, <1>4 DEF Promise!promiseVars
  <1>5. CASE /\ row'[u].status = row[u].status /\ row[u].status # "absent"
             /\ catalog' = catalog \cup {u}
    BY <1>2, <1>5 DEF Promise!PromiseNext, Promise!Publish
  <1>6. CASE /\ row[u].status \in Stages /\ row'[u].status \in Stages
             /\ Rank[row'[u].status] > Rank[row[u].status]
             /\ catalog' = catalog
    BY <1>2, <1>6, SameStatuses DEF Promise!PromiseNext, Promise!Progress, Promise!Open
  <1>7. CASE /\ row[u].status \in Stages /\ row'[u].status = "Succeeded"
             /\ u \in catalog /\ catalog' = catalog
    BY <1>2, <1>7, SameStatuses DEF Promise!PromiseNext, Promise!Succeed, Promise!Open
  <1>8. CASE /\ row[u].status \in Stages
             /\ row'[u].status \in UNSUCCESSFUL \cup {"Uploaded"} /\ catalog' = catalog
    BY <1>2, <1>8, SameStatuses DEF Promise!PromiseNext, Promise!End, Promise!Open
  <1> QED BY <1>3, <1>4, <1>5, <1>6, <1>7, <1>8 DEF Kept, Lawful, Promised

(* The lifecycle implements UploadPromise: every step of a request, a pod, a
   report or the sweep is a step the promise allows, or a stutter. *)
THEOREM Refinement == Spec => KeepsPromise
  <1>1. Init => Promise!PromiseInit
    BY DEF Init, NoRow, Promise!PromiseInit
  <1>2. IInv /\ [Next]_vars => [Promise!PromiseNext]_(Promise!promiseVars)
    <2> SUFFICES ASSUME IInv, [Next]_vars
                 PROVE  [Promise!PromiseNext]_(Promise!promiseVars)
      OBVIOUS
    <2>1. CASE Next
      BY <2>1, StepOfOne, StepPromised
    <2>2. CASE UNCHANGED vars
      BY <2>2 DEF vars, Promise!promiseVars
    <2> QED BY <2>1, <2>2
  <1> QED BY <1>1, <1>2, Invariant, PTL DEF Spec, KeepsPromise, Promise!PromiseSpec
-----------------------------------------------------------------------------
(* The reconciler spares a running workflow that its row names: however long
   ago the sweep read the row it is about to end. *)

(* t comes after s: what a status read once may have become. *)
Past(s, t) ==
  /\ s \in Stages
  /\ \/ t \in TERMINAL_STATUSES
     \/ t \in Stages /\ Rank[t] > Rank[s]

Submits(h, v) == req[h].u = v /\ req[h].pc \in Submitting

(* A row that names a workflow is past Initiated, and the workflow was created. *)
NamedRuns(v) ==
  row[v].named => row[v].status \notin {"absent", "Initiated"} /\ wf[v].phase # "absent"

OnlyClustered(v) == v \notin Clustered => wf[v].phase = "absent"

(* Nobody is submitting a remote upload that was given up: it is submitted by
   the request that created it, which does not last that long. *)
LeftRemote(v) ==
  v \in Remote /\ row[v].age = "abandoned" => \A h \in Handlers : ~Submits(h, v)

(* What the sweep read of the row is still so, or was; what it did not read, the
   name of a workflow, was not there or came with a later status. *)
CopyFollows(v) ==
  sweep.u = v =>
    /\ sweep.named => row[v].named
    /\ row[v].status = sweep.status \/ Past(sweep.status, row[v].status)
    /\ ~sweep.named /\ row[v].named /\ v \notin Remote => Past(sweep.status, row[v].status)
    /\ ~sweep.named /\ sweep.aged /\ v \in Remote =>
         ~row[v].named /\ \A h \in Handlers : ~Submits(h, v)

(* The sweep ends a row with no workflow to its name for its age only, and any
   other for what became of its workflow, which runs no second time. *)
DecidedFairly(v) ==
  sweep.u = v /\ sweep.pc = "decided" =>
    IF sweep.named /\ v \in Clustered THEN wf[v].phase # "Running" ELSE sweep.aged

SweepInv ==
  \A v \in Uploads : /\ NamedRuns(v) /\ OnlyClustered(v) /\ LeftRemote(v)
                     /\ CopyFollows(v) /\ DecidedFairly(v)

-----------------------------------------------------------------------------
(* Order of statuses. *)
LEMMA PastFacts ==
  /\ \A s \in Status : ~Past(s, s) /\ ~Past(s, "Initiated")
  /\ Past("Initiated", "Processing")
  /\ \A r, s, t \in Status : Past(r, s) /\ Past(s, t) => Past(r, t)
  <1>1. Rank["Initiated"] = 0 /\ Rank["Processing"] = 1
    BY DEF Rank, Status, Stages, TERMINAL_STATUSES
  <1>2. \A s \in Stages : s \in Status /\ s \notin TERMINAL_STATUSES /\ Rank[s] \in Nat
    BY RankOfStages, StatusKinds, Names
  <1> QED BY <1>1, <1>2, StatusKinds DEF Past

(* What a step does to one upload, one variable at a time. *)

LEMMA StatusWays ==
  ASSUME IInv, Next, NEW v \in Uploads
  PROVE  \/ row'[v].status = row[v].status
         \/ row[v].status = "absent"
         \/ row[v].status \in Stages /\ Past(row[v].status, row'[v].status)
  <1>1. PICK u \in Uploads : Kept(u)
    BY StepOfOne
  <1>2. CASE u = v
    BY <1>1, <1>2 DEF Kept, Lawful, Promised, Past, TERMINAL_STATUSES, UNSUCCESSFUL
  <1>3. CASE u # v
    BY <1>1, <1>3 DEF Kept, Same
  <1> QED BY <1>2, <1>3

Unasked(v) == \A h \in Handlers : req[h].u # v /\ req'[h] = req[h]

LEMMA RowWays ==
  ASSUME IInv, Next, NEW v \in Uploads
  PROVE  \/ /\ row'[v].named = row[v].named
            /\ row'[v].age = "abandoned" => row[v].age = "abandoned" \/ Unasked(v)
         \/ row[v].status = "absent" /\ ~row'[v].named /\ row'[v].age = "fresh"
         \/ /\ row'[v].age # "abandoned"
            /\ \E h \in Handlers : Submitted(h) /\ req[h].u = v
  <1> DEFINE Goal == \/ /\ row'[v].named = row[v].named
                        /\ row'[v].age = "abandoned" => row[v].age = "abandoned" \/ Unasked(v)
                     \/ row[v].status = "absent" /\ ~row'[v].named /\ row'[v].age = "fresh"
                     \/ /\ row'[v].age # "abandoned"
                        /\ \E h \in Handlers : Submitted(h) /\ req[h].u = v
  <1> SUFFICES Goal
    OBVIOUS
  <1>1. RowType /\ SlotType /\ SweepType
    BY TypeParts DEF IInv
  <1>2. CASE row'[v] = row[v]
    BY <1>2
  <1>3. ASSUME NEW s \in Status, NEW u, Write(u, Moved(row[u], s)) PROVE Goal
    BY <1>1, <1>3 DEF Write, Moved, RowType, Rows
  <1>4. ASSUME NEW s \in Status, NEW u, Write(u, Updated(row[u], s)) PROVE Goal
    BY <1>1, <1>4 DEF Write, Updated, Moved, RowType, Rows
  <1>5. ASSUME NEW h \in Handlers, NEW u \in Uploads, Create(h, u) PROVE Goal
    BY <1>1, <1>2, <1>5 DEF Create, Write, RowType, Rows
  <1>6. ASSUME NEW h \in Handlers, Submitted(h) PROVE Goal
    <2>1. CASE req[h].u = v
      <3>1. row'[v].age = "fresh"
        BY <1>1, <1>6, <2>1, UpdatedRow, Names DEF Submitted, Write, Named, RowType, Rows
      <3> QED BY <1>6, <2>1, <3>1
    <2>2. CASE req[h].u # v
      BY <1>1, <1>2, <1>6, <2>2 DEF Submitted, Write, RowType
    <2> QED BY <2>1, <2>2
  <1>7. ASSUME NEW u \in Uploads, Touch(u) PROVE Goal
    BY <1>1, <1>7 DEF Touch, Write, RowType, Rows
  <1>8. ASSUME NEW u \in Uploads, NEW m \in Messages, Report(u, m) PROVE Goal
    <2>1. CASE m = "checksum"
      BY <1>1, <1>8, <2>1 DEF Report, Write, Checksummed, RowType, Rows
    <2>2. CASE m # "checksum"
      BY <1>4, <1>8, <2>2, Names DEF Report
    <2> QED BY <2>1, <2>2
  <1>9. ASSUME NEW u \in Uploads, GrowOld(u) PROVE Goal
    <2>1. CASE u = v
      BY <1>1, <1>9, <2>1 DEF GrowOld, Write, Served, Unasked, RowType, Rows
    <2>2. CASE u # v
      BY <1>1, <1>2, <1>9, <2>2 DEF GrowOld, Write, RowType
    <2> QED BY <2>1, <2>2
  <1>10. CASE SweepFinalize
    <2>1. sweep.outcome \in Status
      BY <1>10, Names DEF SweepFinalize, IInv, SweepHolds, UNSUCCESSFUL
    <2>2. Write(sweep.u, row[sweep.u]) => row'[v] = row[v]
      BY <1>1 DEF Write, RowType
    <2> QED BY <1>2, <1>3, <1>10, <2>1, <2>2 DEF SweepFinalize
  <1>11. ASSUME NEW h \in Handlers, SubmitFailed(h) \/ AbortRow(h) PROVE Goal
    <2>1. Write(req[h].u, row[req[h].u]) => row'[v] = row[v]
      BY <1>1 DEF Write, RowType
    <2> QED BY <1>2, <1>3, <1>4, <1>11, <2>1, Names DEF SubmitFailed, AbortRow
  <1>12. ASSUME NEW h \in Handlers, SessionRefused(h) \/ NoCluster(h) \/ Registered(h) PROVE Goal
    BY <1>3, <1>4, <1>12, Names DEF SessionRefused, NoCluster, Registered
  <1>13. CASE UNCHANGED row
    BY <1>2, <1>13
  <1> HIDE DEF Goal
  <1>14. ASSUME NEW h \in Handlers, RequestStep(h) PROVE Goal
    BY <1>6, <1>11, <1>12, <1>13, <1>14 DEF RequestStep, OpenSession, Assemble, CompleteRefused,
      Submit, Upsert, RequestDies
  <1>15. ASSUME NEW h \in Handlers, NEW u \in Uploads, Request(h, u) PROVE Goal
    BY <1>5, <1>13, <1>15 DEF Request, Claim, AbortSession, RegisterAuthorized
  <1>16. ASSUME NEW u \in Uploads, Touch(u) \/ Workflow(u) \/ GrowOld(u) \/ SweepRead(u) PROVE Goal
    BY <1>7, <1>9, <1>13, <1>16 DEF Workflow, FetchAuthorized, Fetched, Work, WorkflowSucceeds,
      WorkflowFails, WorkflowCloses, WorkflowCollected, SweepRead
  <1>17. CASE Sweep
    BY <1>10, <1>13, <1>17 DEF Sweep, SweepDecide, SweepCut
  <1>18. ASSUME NEW u \in Uploads, NEW m \in Messages, ReportLost(u, m) PROVE Goal
    BY <1>13, <1>18 DEF ReportLost
  <1> QED BY <1>8, <1>14, <1>15, <1>16, <1>17, <1>18 DEF Next

(* Who submits: a request that was, one that has just created the upload, or
   one that has assembled a multipart object. *)
LEMMA SubmitWays ==
  ASSUME IInv, Next, NEW v \in Uploads, NEW h \in Handlers, Submits(h, v)'
  PROVE  \/ Submits(h, v)
         \/ row[v].status = "absent" /\ row'[v].age = "fresh"
         \/ v \notin Remote
  <1> DEFINE Goal == \/ Submits(h, v)
                     \/ row[v].status = "absent" /\ row'[v].age = "fresh"
                     \/ v \notin Remote
  <1> SUFFICES Goal
    OBVIOUS
  <1>1. RowType /\ SlotType
    BY TypeParts DEF IInv
  <1>2. CASE req'[h] = req[h]
    BY <1>2 DEF Submits
  <1>3. ASSUME NEW g \in Handlers, Ends(g) PROVE Goal
    BY <1>1, <1>2, <1>3, NoUploadIsNone DEF Ends, Idle, SlotType, Submits
  <1>4. ASSUME NEW g \in Handlers, NEW u \in Uploads, Create(g, u) PROVE Goal
    BY <1>1, <1>2, <1>4 DEF Create, Begins, Write, SlotType, RowType, Submits, Submitting
  <1>5. ASSUME NEW g \in Handlers, Assemble(g) PROVE Goal
    <2>1. CASE g = h
      <3>1. req[h].u = v /\ req[h].pc = "complete"
        BY <1>1, <1>5, <2>1 DEF Assemble, Goes, At, SlotType, Submits
      <3> QED BY <3>1 DEF IInv, UploadInv, ClaimHolds, Claims
    <2>2. CASE g # h
      BY <1>1, <1>2, <1>5, <2>2 DEF Assemble, Goes, SlotType
    <2> QED BY <2>1, <2>2
  <1>6. ASSUME NEW g \in Handlers, Submit(g) \/ Upsert(g) PROVE Goal
    BY <1>1, <1>2, <1>6 DEF Submit, Upsert, Goes, At, SlotType, Submits, Submitting
  <1>7. ASSUME NEW g \in Handlers, NEW u \in Uploads, NEW p \in Points \ Submitting, Begins(g, u, p)
        PROVE  Goal
    BY <1>1, <1>2, <1>7 DEF Begins, SlotType, Submits
  <1>8. CASE UNCHANGED req
    BY <1>2, <1>8
  <1> HIDE DEF Goal
  <1>9. ASSUME NEW g \in Handlers, RequestStep(g) PROVE Goal
    BY <1>3, <1>5, <1>6, <1>9 DEF RequestStep, OpenSession, SessionRefused, CompleteRefused,
      NoCluster, SubmitFailed, Submitted, AbortRow, Registered, RequestDies
  <1>10. ASSUME NEW g \in Handlers, NEW u \in Uploads, Request(g, u) PROVE Goal
    <2>1. {"complete", "abort", "authorized"} \subseteq Points \ Submitting
      BY DEF Points, Submitting
    <2> QED BY <1>4, <1>7, <1>10, <2>1 DEF Request, Claim, AbortSession, RegisterAuthorized
  <1>11. ASSUME NEW u \in Uploads, Touch(u) \/ Workflow(u) \/ GrowOld(u) \/ SweepRead(u) PROVE Goal
    BY <1>8, <1>11 DEF Touch, GrowOld, Workflow, FetchAuthorized, Fetched, Work, WorkflowSucceeds,
      WorkflowFails, WorkflowCloses, WorkflowCollected, SweepRead
  <1>12. CASE Sweep
    BY <1>8, <1>12 DEF Sweep, SweepDecide, SweepFinalize, SweepCut
  <1>13. ASSUME NEW u \in Uploads, NEW m \in Messages, Report(u, m) \/ ReportLost(u, m) PROVE Goal
    BY <1>8, <1>13 DEF Report, ReportLost
  <1> QED BY <1>9, <1>10, <1>11, <1>12, <1>13 DEF Next

(* A workflow starts when a request submits it, and never goes back. *)
LEMMA RunWays ==
  ASSUME IInv, Next, NEW v \in Uploads
  PROVE  \/ wf'[v].phase = wf[v].phase
         \/ /\ v \in Clustered /\ wf'[v].phase # "absent"
            /\ wf[v].phase \in {"absent", "gone"}
            /\ \E h \in Handlers : req[h].u = v /\ req[h].pc = "submit"
         \/ wf[v].phase # "absent" /\ wf'[v].phase \notin {"absent", "Running"}
  <1> DEFINE Goal == \/ wf'[v].phase = wf[v].phase
                     \/ /\ v \in Clustered /\ wf'[v].phase # "absent"
                        /\ wf[v].phase \in {"absent", "gone"}
                        /\ \E h \in Handlers : req[h].u = v /\ req[h].pc = "submit"
                     \/ wf[v].phase # "absent" /\ wf'[v].phase \notin {"absent", "Running"}
  <1> SUFFICES Goal
    OBVIOUS
  <1>1. RunType
    BY TypeParts DEF IInv
  <1>2. CASE UNCHANGED wf
    BY <1>2
  <1>3. ASSUME NEW h \in Handlers, Submit(h) PROVE Goal
    BY <1>1, <1>3 DEF Submit, At, NewRun, RunType, RunRecord
  <1>4. ASSUME NEW h \in Handlers, Registered(h) PROVE Goal
    BY <1>1, <1>4 DEF Registered, RunType, RunRecord
  <1>5. ASSUME NEW h \in Handlers, NEW u \in Uploads, RegisterAuthorized(h, u) PROVE Goal
    BY <1>1, <1>5 DEF RegisterAuthorized, RunType, RunRecord
  <1>6. ASSUME NEW u \in Uploads, NEW stage, NEW sent, Enter(u, stage, sent) PROVE Goal
    BY <1>1, <1>6 DEF Enter, RunType, RunRecord
  <1>7. ASSUME NEW u \in Uploads, WorkflowSucceeds(u) \/ WorkflowCloses(u) \/ WorkflowCollected(u)
        PROVE  Goal
    BY <1>1, <1>7 DEF WorkflowSucceeds, WorkflowCloses, WorkflowCollected, Running, RunType,
      RunRecord
  <1> HIDE DEF Goal
  <1>8. ASSUME NEW h \in Handlers, RequestStep(h) PROVE Goal
    BY <1>2, <1>3, <1>4, <1>8 DEF RequestStep, OpenSession, SessionRefused, Assemble,
      CompleteRefused, NoCluster, SubmitFailed, Submitted, AbortRow, Upsert, RequestDies
  <1>9. ASSUME NEW h \in Handlers, NEW u \in Uploads, Request(h, u) PROVE Goal
    BY <1>2, <1>5, <1>9 DEF Request, Create, Claim, AbortSession
  <1>10. ASSUME NEW u \in Uploads, Touch(u) \/ Workflow(u) \/ GrowOld(u) \/ SweepRead(u) PROVE Goal
    BY <1>2, <1>6, <1>7, <1>10 DEF Touch, GrowOld, SweepRead, Workflow, FetchAuthorized, Fetched,
      Work, WorkflowFails
  <1>11. CASE Sweep
    BY <1>2, <1>11 DEF Sweep, SweepDecide, SweepFinalize, SweepCut
  <1>12. ASSUME NEW u \in Uploads, NEW m \in Messages, Report(u, m) \/ ReportLost(u, m) PROVE Goal
    BY <1>2, <1>12 DEF Report, ReportLost
  <1> QED BY <1>8, <1>9, <1>10, <1>11, <1>12 DEF Next

LEMMA SweepWays ==
  ASSUME Next
  PROVE  \/ sweep' = sweep
         \/ sweep' = NoSweep /\ (SweepFinalize \/ row' = row)
         \/ \E u \in Uploads : SweepRead(u)
         \/ SweepDecide
  <1>1. ASSUME NEW h \in Handlers, RequestStep(h) PROVE sweep' = sweep
    BY <1>1 DEF RequestStep, OpenSession, SessionRefused, Assemble, CompleteRefused, NoCluster,
      Submit, SubmitFailed, Submitted, AbortRow, Upsert, Registered, RequestDies
  <1>2. ASSUME NEW h \in Handlers, NEW u \in Uploads, Request(h, u) PROVE sweep' = sweep
    BY <1>2 DEF Request, Create, Claim, AbortSession, RegisterAuthorized
  <1>3. ASSUME NEW u \in Uploads, Touch(u) \/ Workflow(u) \/ GrowOld(u) PROVE sweep' = sweep
    BY <1>3 DEF Touch, GrowOld, Workflow, FetchAuthorized, Fetched, Work, WorkflowSucceeds,
      WorkflowFails, WorkflowCloses, WorkflowCollected
  <1>4. ASSUME NEW u \in Uploads, NEW m \in Messages, Report(u, m) \/ ReportLost(u, m)
        PROVE  sweep' = sweep
    BY <1>4 DEF Report, ReportLost
  <1>5. SweepFinalize \/ SweepCut => sweep' = NoSweep /\ (SweepFinalize \/ row' = row)
    BY DEF SweepFinalize, SweepCut
  <1> QED BY <1>1, <1>2, <1>3, <1>4, <1>5 DEF Next, Sweep

-----------------------------------------------------------------------------
(* The invariant, one part at a time, on one upload. *)

(* The name comes with the status Processing, or after it, and the workflow. *)
LEMMA NamedKept ==
  ASSUME IInv, Next, NEW v \in Uploads, NamedRuns(v)
  PROVE  NamedRuns(v)'
  <1> SUFFICES ASSUME row'[v].named
               PROVE  row'[v].status \notin {"absent", "Initiated"} /\ wf'[v].phase # "absent"
    BY DEF NamedRuns
  <1>1. row[v] \in Rows /\ row[v].status \in Status \cup {"absent"}
    BY DEF IInv, TypeOK, Rows
  <1>2. CASE row[v].named
    <2>1. row[v].status \notin {"absent", "Initiated"} /\ wf[v].phase # "absent"
      BY <1>2 DEF NamedRuns
    <2>2. wf'[v].phase # "absent"
      BY <2>1, RunWays
    <2>3. row'[v].status = row[v].status \/ Past(row[v].status, row'[v].status)
      BY <2>1, StatusWays
    <2>4. row'[v].status \in Status \cup {"absent"}
      BY StepType DEF IInv, TypeOK, Rows
    <2>5. ~Past(row[v].status, "Initiated") /\ ~Past(row[v].status, "absent")
      BY <1>1, <2>1, PastFacts, StatusKinds, Names DEF Past
    <2> QED BY <2>1, <2>2, <2>3, <2>5
  <1>3. CASE \E h \in Handlers : Submitted(h) /\ req[h].u = v
    <2>1. PICK h \in Handlers : Submitted(h) /\ req[h].u = v
      BY <1>3
    <2>2. wf[v].phase # "absent"
      BY <2>1 DEF IInv, UploadInv, SubmitSound, Submitted, At
    <2>3. row[v].status # "absent"
      BY <2>1 DEF IInv, UploadInv, Unborn
    <2>4. row'[v].status = Updated(row[v], "Processing").status
      BY <2>1 DEF Submitted, Write, Named, IInv, TypeOK, Rows
    <2>5. CASE row[v].status = "Initiated"
      <3>1. row[v].token
        BY <2>5, StatusKinds DEF IInv, UploadInv, SecretsEnd, Open
      <3>2. Applies(row[v].status, "Processing")
        BY <2>5 DEF Applies, Rank, Status, Stages, TERMINAL_STATUSES
      <3>3. row'[v].status = "Processing"
        BY <1>1, <2>4, <3>1, <3>2, MovedRow, Names DEF Updated
      <3> QED BY <2>2, <3>3, RunWays
    <2>6. CASE row[v].status # "Initiated"
      <3>1. row'[v].status \in {row[v].status, "Processing"}
        BY <1>1, <2>4 DEF Updated, Moved, Rows
      <3> QED BY <2>2, <2>3, <2>6, <3>1, RunWays
    <2> QED BY <2>5, <2>6
  <1> QED BY <1>2, <1>3, RowWays

LEMMA ClusterKept ==
  ASSUME IInv, Next, NEW v \in Uploads, OnlyClustered(v)
  PROVE  OnlyClustered(v)'
  BY RunWays DEF OnlyClustered

LEMMA LeftKept ==
  ASSUME IInv, Next, NEW v \in Uploads, LeftRemote(v)
  PROVE  LeftRemote(v)'
  <1> SUFFICES ASSUME v \in Remote, row'[v].age = "abandoned", NEW h \in Handlers, Submits(h, v)'
               PROVE  FALSE
    BY DEF LeftRemote
  <1>1. Submits(h, v)
    BY SubmitWays
  <1>2. row[v].age # "abandoned"
    BY <1>1 DEF LeftRemote
  <1>3. Unasked(v)
    BY <1>2, RowWays
  <1> QED BY <1>1, <1>3 DEF Unasked, Submits

(* Nobody submits again what its row names. *)
LEMMA NotSubmittedAgain ==
  ASSUME IInv, NEW v \in Uploads, NamedRuns(v), row[v].named,
         NEW h \in Handlers, req[h].u = v
  PROVE  req[h].pc # "submit"
  <1> SUFFICES ASSUME req[h].pc = "submit" PROVE FALSE
    OBVIOUS
  <1>1. v \in Remote => wf[v].phase = "absent"
    BY DEF IInv, UploadInv, SubmitSound, NoRun
  <1>2. v \notin Remote => row[v].status = "Initiated"
    BY DEF IInv, UploadInv, ClaimHolds, Claims, Submitting
  <1> QED BY <1>1, <1>2 DEF NamedRuns

(* What the sweep read stays behind what the row becomes. *)
LEMMA CopyKept ==
  ASSUME IInv, Next, NEW v \in Uploads, NamedRuns(v), LeftRemote(v), CopyFollows(v)
  PROVE  CopyFollows(v)'
  <1> SUFFICES ASSUME sweep'.u = v PROVE CopyFollows(v)'
    BY DEF CopyFollows
  <1>1. CASE \E u \in Uploads : SweepRead(u)
    <2>1. PICK u \in Uploads : SweepRead(u)
      BY <1>1
    <2>2. /\ sweep'.named = row[v].named /\ sweep'.status = row[v].status
          /\ (sweep'.aged <=> row[v].age = "abandoned")
          /\ row' = row /\ req' = req
      BY <2>1 DEF SweepRead, NoSweep
    <2> QED BY <2>2 DEF CopyFollows, LeftRemote, Submits
  <1>2. CASE ~ \E u \in Uploads : SweepRead(u)
    <2>1. /\ sweep'.named = sweep.named /\ sweep'.status = sweep.status
          /\ sweep'.aged = sweep.aged /\ sweep.u = v
      <3>1. CASE sweep' = sweep
        BY <3>1
      <3>2. sweep' # NoSweep
        BY NoUploadIsNone DEF NoSweep
      <3>3. CASE SweepDecide
        BY <3>2, <3>3 DEF SweepDecide, IInv, TypeOK
      <3> QED BY <1>2, <3>1, <3>2, <3>3, SweepWays
    <2>2. row[v].status # "absent"
      BY <2>1 DEF IInv, UploadInv, Unborn
    <2>3. sweep.status \in Stages /\ sweep.status \in Status
      BY <2>1, NoUploadIsNone, Names DEF IInv, SweepHolds
    <2>4. row[v].status \in Status /\ row'[v].status \in Status \cup {"absent"}
      BY <2>2, StepType DEF IInv, TypeOK, Rows
    <2>5. row'[v].status = row[v].status \/ Past(row[v].status, row'[v].status)
      BY <2>2, StatusWays
    <2>6. row'[v].status \in Status
      BY <2>4, <2>5, Names DEF Past
    <2>7. Past(sweep.status, row[v].status) => Past(sweep.status, row'[v].status)
      BY <2>3, <2>4, <2>5, <2>6, PastFacts
    <2>8. row'[v].status = sweep.status \/ Past(sweep.status, row'[v].status)
      BY <2>1, <2>5, <2>7 DEF CopyFollows
    <2>9. sweep.named => row'[v].named
      <3>1. ASSUME NEW h \in Handlers, Submitted(h), req[h].u = v PROVE row'[v].named
        BY <3>1, TypeParts, RowSteps, Names DEF Submitted, IInv
      <3> QED BY <2>1, <2>2, <3>1, RowWays DEF CopyFollows
    <2>10. ~sweep.named /\ row'[v].named /\ v \notin Remote => Past(sweep.status, row'[v].status)
      <3> SUFFICES ASSUME ~sweep.named, row'[v].named, v \notin Remote
                   PROVE  Past(sweep.status, row'[v].status)
        OBVIOUS
      <3>1. CASE row[v].named
        BY <2>1, <2>7, <3>1 DEF CopyFollows
      <3>2. CASE \E h \in Handlers : Submitted(h) /\ req[h].u = v
        <4>1. PICK h \in Handlers : Submitted(h) /\ req[h].u = v
          BY <3>2
        <4>2. row[v].status = "Initiated"
          BY <4>1 DEF IInv, UploadInv, ClaimHolds, Claims, Submitting, Submitted, At
        <4>3. sweep.status = "Initiated"
          BY <2>1, <2>3, <4>2, PastFacts DEF CopyFollows
        <4>4. row'[v].status # "Initiated"
          <5>1. NamedRuns(v)'
            BY NamedKept
          <5> QED BY <5>1 DEF NamedRuns
        <4> QED BY <2>5, <4>2, <4>3, <4>4
      <3> QED BY <2>2, <3>1, <3>2, RowWays
    <2>11. ~sweep.named /\ sweep.aged /\ v \in Remote =>
             ~row'[v].named /\ \A h \in Handlers : ~Submits(h, v)'
      <3> SUFFICES ASSUME ~sweep.named, sweep.aged, v \in Remote
                   PROVE  ~row'[v].named /\ \A h \in Handlers : ~Submits(h, v)'
        OBVIOUS
      <3>1. ~row[v].named /\ \A h \in Handlers : ~Submits(h, v)
        BY <2>1 DEF CopyFollows
      <3>2. \A h \in Handlers : ~Submits(h, v)'
        BY <2>2, <3>1, SubmitWays
      <3>3. ~ \E h \in Handlers : Submitted(h) /\ req[h].u = v
        BY <3>1 DEF Submits, Submitting, Submitted, At
      <3> QED BY <2>2, <3>1, <3>2, <3>3, RowWays
    <2> QED BY <2>1, <2>8, <2>9, <2>10, <2>11 DEF CopyFollows
  <1> QED BY <1>1, <1>2

LEMMA DecidedKept ==
  ASSUME IInv, Next, NEW v \in Uploads, NamedRuns(v), CopyFollows(v), DecidedFairly(v)
  PROVE  DecidedFairly(v)'
  <1> SUFFICES ASSUME sweep'.u = v, sweep'.pc = "decided" PROVE DecidedFairly(v)'
    BY DEF DecidedFairly
  <1>1. CASE sweep' = sweep
    <2>1. CASE sweep.named /\ v \in Clustered
      <3>1. row[v].named /\ wf[v].phase # "Running"
        BY <1>1, <2>1 DEF CopyFollows, DecidedFairly
      <3>2. \A h \in Handlers : req[h].u = v => req[h].pc # "submit"
        BY <3>1, NotSubmittedAgain
      <3>3. wf'[v].phase # "Running"
        BY <3>1, <3>2, RunWays
      <3> QED BY <1>1, <2>1, <3>3 DEF DecidedFairly
    <2>2. CASE ~(sweep.named /\ v \in Clustered)
      BY <1>1, <2>2 DEF DecidedFairly
    <2> QED BY <2>1, <2>2
  <1>2. CASE SweepDecide
    <2>1. /\ sweep.u = v /\ sweep'.named = sweep.named /\ sweep'.aged = sweep.aged
          /\ Verdict(sweep.named /\ v \in Clustered, Phase(v), sweep.aged) # "absent"
          /\ wf' = wf
      BY <1>2 DEF SweepDecide, NoSweep, IInv, TypeOK
    <2>2. CASE sweep.named /\ v \in Clustered
      BY <2>1, <2>2 DEF Verdict, Phase, DecidedFairly
    <2>3. CASE ~(sweep.named /\ v \in Clustered)
      BY <2>1, <2>3 DEF Verdict, DecidedFairly
    <2> QED BY <2>2, <2>3
  <1>3. sweep' # NoSweep
    BY DEF NoSweep
  <1>4. ASSUME NEW u \in Uploads, SweepRead(u) PROVE FALSE
    BY <1>4 DEF SweepRead, NoSweep
  <1> QED BY <1>1, <1>2, <1>3, <1>4, SweepWays

-----------------------------------------------------------------------------
LEMMA SweepInvInit == Init => SweepInv
  BY NoUploadIsNone DEF Init, SweepInv, NamedRuns, OnlyClustered, LeftRemote, CopyFollows,
    DecidedFairly, NoRow, NoRun, NoSweep

LEMMA SweepInvNext == IInv /\ SweepInv /\ [Next]_vars => SweepInv'
  <1> SUFFICES ASSUME IInv, SweepInv, [Next]_vars PROVE SweepInv'
    OBVIOUS
  <1>1. CASE Next
    BY <1>1, NamedKept, ClusterKept, LeftKept, CopyKept, DecidedKept DEF SweepInv
  <1>2. CASE UNCHANGED vars
    BY <1>2 DEF vars, SweepInv, NamedRuns, OnlyClustered, LeftRemote, CopyFollows,
      DecidedFairly, Submits
  <1> QED BY <1>1, <1>2

LEMMA SweepAlways == Spec => []SweepInv
  BY SweepInvInit, SweepInvNext, Invariant, PTL DEF Spec

(* The sweep never ends a row that names a workflow still running: it asked
   after the workflow if the row named one when it was read; if not, and it was
   old enough to end, whoever names one since moves the status on as well, and
   the write is refused. *)
THEOREM SweepSpares == Spec => SweepSparesRunning
  <1>1. ASSUME IInv, SweepInv, Next, NEW u \in Uploads,
               sweep.pc = "decided", sweep' = NoSweep, row'[u].status # row[u].status,
               row[u].named, wf[u].phase = "Running"
        PROVE  FALSE
    <2>1. SweepFinalize
      BY <1>1, SweepWays DEF SweepRead, SweepDecide, NoSweep
    <2>2. sweep.u = u /\ row[u].status = sweep.status
      BY <1>1, <2>1 DEF SweepFinalize, Write, IInv, TypeOK
    <2>3. u \in Clustered
      BY <1>1 DEF SweepInv, OnlyClustered
    <2>4. ~sweep.named /\ sweep.aged
      BY <1>1, <2>2, <2>3 DEF SweepInv, DecidedFairly
    <2>5. Past(sweep.status, sweep.status)
      BY <1>1, <2>2, <2>4 DEF SweepInv, CopyFollows
    <2> QED BY <2>5, PastFacts, Names DEF Past
  <1>2. ASSUME IInv, SweepInv, [Next]_vars
        PROVE  [\A u \in Uploads :
                  sweep.pc = "decided" /\ sweep' = NoSweep /\ row'[u].status # row[u].status
                    => ~(row[u].named /\ wf[u].phase = "Running")]_vars
    BY <1>1, <1>2
  <1> QED BY <1>2, SweepAlways, Invariant, PTL DEF Spec, SweepSparesRunning
-----------------------------------------------------------------------------
(* The sweep over many rows, by several replicas. *)
Once(s)     == \A i, j \in 1..Len(s) : s[i] = s[j] => i = j
AllOpen(s)  == \A i \in 1..Len(s) : ended[s[i]] = "no"
IsRound(x)  == DOMAIN x = {"pc", "batch", "failures", "answer"}

(* Before the servers start no row is open and none has ended. *)
NotBegun ==
  /\ open = <<>> /\ \A r \in Table : ended[r] = "no"
  /\ \A p \in Replicas : round[p].pc = "off"

Begun == \A p \in Replicas : round[p].pc # "off"

RowsKnown ==
  /\ open \in Seq(Table) /\ DOMAIN ended = Table
  /\ Once(open) /\ AllOpen(open)

RoundsKnown ==
  /\ DOMAIN round = Replicas /\ \A p \in Replicas : IsRound(round[p])
  /\ NotBegun \/ Begun

SweepsInv == RowsKnown /\ RoundsKnown

LEMMA TableListed == SetToSeq(Table) \in Seq(Table) /\ Once(SetToSeq(Table))
  <1>1. PICK n : n = Cardinality(Table)
    OBVIOUS
  <1>2. n \in Nat /\ ExistsBijection(1..n, Table)
    BY <1>1, SomeoneSweeps, FS_CardinalityType
  <1>3. PICK f \in [1..n -> Table] : IsInjective(f)
    BY <1>2 DEF ExistsBijection, Bijection, Injection, IsInjective
  <1>4. PICK s : s = SetToSeq(Table)
    OBVIOUS
  <1>5. s \in [1..n -> Table] /\ IsInjective(s)
    BY <1>1, <1>3, <1>4 DEF SetToSeq
  <1>6. s \in Seq(Table) /\ Len(s) = n
    BY <1>2, <1>5
  <1> QED BY <1>4, <1>5, <1>6 DEF Once, IsInjective

LEMMA Removed ==
  ASSUME NEW s \in Seq(Table), Once(s), NEW r
  PROVE  LET t == RemoveFirst(s, r) IN
         /\ t \in Seq(Table) /\ Once(t)
         /\ \A k \in 1..Len(t) : t[k] # r /\ \E i \in 1..Len(s) : t[k] = s[i]
  <1>1. CASE \A i \in 1..Len(s) : s[i] # r
    <2>1. RemoveFirst(s, r) = s
      BY <1>1 DEF RemoveFirst
    <2> QED BY <1>1, <2>1
  <1>2. ASSUME NEW i \in 1..Len(s), s[i] = r
        PROVE  LET t == RemoveFirst(s, r) IN
               /\ t \in Seq(Table) /\ Once(t)
               /\ \A k \in 1..Len(t) : t[k] # r /\ \E j \in 1..Len(s) : t[k] = s[j]
    <2>1. {j \in 1..Len(s) : s[j] = r} = {i}
      BY <1>2 DEF Once
    <2>2. SelectInSeq(s, LAMBDA v : v = r) = i
      BY <2>1 DEF SelectInSeq, Min
    <2>3. RemoveFirst(s, r) = RemoveAt(s, i)
      BY <1>2, <2>2 DEF RemoveFirst
    <2>4. PICK t : t = RemoveAt(s, i)
      OBVIOUS
    <2>5. /\ t \in Seq(Table) /\ Len(t) = Len(s) - 1
          /\ \A k \in 1..Len(t) : t[k] = s[IF k < i THEN k ELSE k + 1]
      <3>1. PICK a, b : a = SubSeq(s, 1, i - 1) /\ b = SubSeq(s, i + 1, Len(s))
        OBVIOUS
      <3>2. PICK n, m : n = Len(s) /\ m = i /\ n \in Nat /\ m \in 1..n
        OBVIOUS
      <3>3. /\ a \in Seq(Table) /\ Len(a) = m - 1
            /\ \A k \in 1..(m - 1) : a[k] = s[k]
        BY <3>1, <3>2
      <3>4. /\ b \in Seq(Table) /\ Len(b) = n - m
            /\ \A k \in 1..(n - m) : b[k] = s[m + k]
        BY <3>1, <3>2
      <3>5. t = a \o b
        BY <2>4, <3>1 DEF RemoveAt
      <3>6. t \in Seq(Table) /\ Len(t) = n - 1
        BY <3>2, <3>3, <3>4, <3>5
      <3>7. \A k \in 1..(n - 1) : t[k] = IF k < m THEN a[k] ELSE b[k - (m - 1)]
        BY <3>2, <3>3, <3>4, <3>5
      <3>8. \A k \in 1..(n - 1) : t[k] = s[IF k < m THEN k ELSE k + 1]
        <4> SUFFICES ASSUME NEW k \in 1..(n - 1) PROVE t[k] = s[IF k < m THEN k ELSE k + 1]
          OBVIOUS
        <4>1. CASE k < m
          <5>1. k \in 1..(m - 1) /\ t[k] = a[k]
            BY <3>2, <3>7, <4>1
          <5> QED BY <3>3, <4>1, <5>1
        <4>2. CASE ~(k < m)
          <5>1. k - (m - 1) \in 1..(n - m) /\ m + (k - (m - 1)) = k + 1
            BY <3>2, <4>2
          <5> QED BY <3>4, <3>7, <4>2, <5>1
        <4> QED BY <4>1, <4>2
      <3> QED BY <3>2, <3>6, <3>8
    <2>6. \A k \in 1..Len(t) : (IF k < i THEN k ELSE k + 1) \in 1..Len(s) \ {i}
      BY <2>5
    <2>7. \A k \in 1..Len(t) : t[k] # r /\ \E j \in 1..Len(s) : t[k] = s[j]
      BY <1>2, <2>5, <2>6 DEF Once
    <2>8. Once(t)
      BY <2>5, <2>6 DEF Once
    <2> QED BY <2>3, <2>4, <2>5, <2>7, <2>8
  <1> QED BY <1>1, <1>2

(* The row that ends leaves the list, and no other does. *)
LEMMA EndRowKeeps ==
  ASSUME RowsKnown, NEW r, NEW how, EndRow(r, how)
  PROVE  RowsKnown'
  <1>1. PICK t : t = RemoveFirst(open, r)
    OBVIOUS
  <1>2. /\ t \in Seq(Table) /\ Once(t)
        /\ \A k \in 1..Len(t) : t[k] # r /\ \E i \in 1..Len(open) : t[k] = open[i]
    BY <1>1, Removed DEF RowsKnown
  <1>3. open' = t /\ ended' = [ended EXCEPT ![r] = how]
    BY <1>1 DEF EndRow, Leave
  <1>4. DOMAIN ended' = Table /\ \A q \in Table \ {r} : ended'[q] = ended[q]
    BY <1>3 DEF RowsKnown
  <1>5. AllOpen(open)'
    <2> SUFFICES ASSUME NEW k \in 1..Len(t) PROVE ended'[t[k]] = "no"
      BY <1>3 DEF AllOpen
    <2>1. t[k] \in Table \ {r} /\ \E i \in 1..Len(open) : t[k] = open[i]
      BY <1>2
    <2>2. ended[t[k]] = "no"
      BY <2>1 DEF RowsKnown, AllOpen
    <2> QED BY <1>4, <2>1, <2>2
  <1> QED BY <1>2, <1>3, <1>4, <1>5 DEF RowsKnown, Once

(* A replica that sweeps goes on, or is done with its sweep. *)
LEMMA ReplicaKeeps ==
  ASSUME SweepsInv, RowsKnown', NEW p \in Replicas, round[p].pc # "off",
         DOMAIN round' = Replicas, \A q \in Replicas \ {p} : round'[q] = round[q],
         IsRound(round'[p]), round'[p].pc # "off"
  PROVE  SweepsInv'
  <1>1. Begun
    BY DEF SweepsInv, RoundsKnown, NotBegun
  <1> QED BY <1>1 DEF SweepsInv, RoundsKnown, Begun

LEMMA RowsStay == RowsKnown /\ UNCHANGED rows => RowsKnown'
  BY DEF RowsKnown, rows, Once, AllOpen

LEMMA RoundsStay ==
  ASSUME SweepsInv, RowsKnown', UNCHANGED round, open # <<>> \/ UNCHANGED <<open, ended>>
  PROVE  SweepsInv'
  BY DEF SweepsInv, RoundsKnown, NotBegun, Begun

LEMMA SweepsStart == SweepInit => SweepsInv
  BY DEF SweepInit, SweepsInv, RowsKnown, RoundsKnown, NotBegun, Once, AllOpen, IsRound, Off

LEMMA ReplicaSteps ==
  ASSUME SweepsInv, NEW p \in Replicas, Reconcile(p) \/ SweepFails(p) \/ LoseLock(p)
  PROVE  SweepsInv'
  <1>1. DOMAIN round = Replicas /\ IsRound(round[p]) /\ RowsKnown
    BY DEF SweepsInv, RoundsKnown
  <1>2. IsRound(Resting) /\ Resting.pc = "idle"
    BY DEF IsRound, Resting, Off
  <1>3. CASE TryLock(p)
    <2>1. RowsKnown'
      BY <1>1, <1>3, RowsStay DEF TryLock
    <2> QED BY <1>1, <1>3, <2>1, ReplicaKeeps DEF TryLock, IsRound
  <1>4. CASE Stalled(p)
    <2>1. RowsKnown'
      BY <1>1, <1>4, RowsStay DEF Stalled
    <2>2. PICK b : round' = [round EXCEPT ![p].pc = "asking", ![p].batch = b]
      BY <1>4 DEF Stalled
    <2>3. round[p].pc = "locked"
      BY <1>4 DEF Stalled
    <2> QED BY <1>1, <2>1, <2>2, <2>3, ReplicaKeeps DEF IsRound
  <1>5. CASE AskArgo(p)
    <2>1. RowsKnown'
      BY <1>1, <1>5, RowsStay DEF AskArgo
    <2>2. round[p].pc = "asking"
      BY <1>5 DEF AskArgo, Asks
    <2>3. PICK b, a : \/ round' = [round EXCEPT ![p].batch = b, ![p].failures = 0]
                      \/ round' = [round EXCEPT ![p].pc = "answered", ![p].answer = a]
      BY <1>5 DEF AskArgo
    <2> QED BY <1>1, <2>1, <2>2, <2>3, ReplicaKeeps DEF IsRound
  <1>6. CASE LookupFails(p)
    <2>1. RowsKnown'
      BY <1>1, <1>6, RowsStay DEF LookupFails
    <2>2. round[p].pc = "asking"
      BY <1>6 DEF LookupFails, Asks
    <2>3. PICK b, f : round' = [round EXCEPT ![p].batch = b, ![p].failures = f]
      BY <1>6 DEF LookupFails
    <2> QED BY <1>1, <2>1, <2>2, <2>3, ReplicaKeeps DEF IsRound
  <1>7. CASE FinalizeStalled(p)
    <2>1. RowsKnown'
      BY <1>1, <1>7, RowsStay, EndRowKeeps DEF FinalizeStalled
    <2>2. round[p].pc = "answered"
      BY <1>7 DEF FinalizeStalled
    <2>3. PICK b : round' = [round EXCEPT ![p].pc = "asking", ![p].batch = b,
                                          ![p].failures = 0, ![p].answer = "none"]
      BY <1>7 DEF FinalizeStalled
    <2> QED BY <1>1, <2>1, <2>2, <2>3, ReplicaKeeps DEF IsRound
  <1>8. CASE Unlock(p) \/ SweepFails(p)
    <2>1. RowsKnown'
      BY <1>1, <1>8, RowsStay DEF Unlock, SweepFails
    <2>2. round[p].pc # "off" /\ round' = [round EXCEPT ![p] = Resting]
      BY <1>8 DEF Unlock, SweepFails
    <2> QED BY <1>1, <1>2, <2>1, <2>2, ReplicaKeeps
  <1>9. CASE LoseLock(p)
    <2>1. RowsKnown'
      BY <1>1, <1>9, RowsStay DEF LoseLock
    <2> QED BY <1>9, <2>1, RoundsStay DEF LoseLock, rows
  <1> QED BY <1>3, <1>4, <1>5, <1>6, <1>7, <1>8, <1>9 DEF Reconcile

LEMMA SweepsSteps ==
  ASSUME SweepsInv, [SweepNext]_sweepVars
  PROVE  SweepsInv'
  <1>1. RowsKnown /\ RoundsKnown
    BY DEF SweepsInv
  <1>2. CASE StartReconciler
    <2>1. \A p \in Replicas : round[p].pc = "off"
      BY <1>2 DEF StartReconciler, Off
    <2>2. \A r \in Table : ended[r] = "no"
      BY <1>1, <2>1, SomeoneSweeps DEF RoundsKnown, NotBegun, Begun
    <2>3. open' \in Seq(Table) /\ Once(open)' /\ ended' = ended
      BY <1>2, TableListed DEF StartReconciler, Once
    <2>4. RowsKnown'
      BY <1>1, <2>2, <2>3 DEF RowsKnown, AllOpen
    <2>5. RoundsKnown'
      BY <1>2 DEF StartReconciler, RoundsKnown, Begun, IsRound, Resting, Off
    <2> QED BY <2>4, <2>5 DEF SweepsInv
  <1>3. ASSUME NEW r \in Table, Heard(r) PROVE SweepsInv'
    <2>1. PICK t : t = RemoveFirst(open, r)
      OBVIOUS
    <2>2. /\ t \in Seq(Table) /\ Once(t)
          /\ \A k \in 1..Len(t) : t[k] # r /\ \E i \in 1..Len(open) : t[k] = open[i]
      BY <1>1, <2>1, Removed DEF RowsKnown
    <2>3. open' = Append(t, r) /\ ended' = ended /\ round' = round /\ r \in ToSet(open)
      BY <1>3, <2>1 DEF Heard
    <2>4. PICK at \in 1..Len(open) : open[at] = r
      BY <1>1, <2>3 DEF ToSet, RowsKnown
    <2>5. PICK n \in Nat : n = Len(t)
      BY <2>2
    <2>6. /\ open' \in Seq(Table) /\ Len(open') = n + 1
          /\ open'[n + 1] = r /\ \A k \in 1..n : open'[k] = t[k]
      BY <2>2, <2>3, <2>5
    <2>7. Once(open)'
      BY <2>2, <2>5, <2>6 DEF Once
    <2>8. AllOpen(open)'
      <3> SUFFICES ASSUME NEW k \in 1..(n + 1) PROVE ended[open'[k]] = "no"
        BY <2>3, <2>6 DEF AllOpen
      <3>1. \E i \in 1..Len(open) : open'[k] = open[i]
        <4>1. CASE k = n + 1
          BY <2>4, <2>6, <4>1
        <4>2. CASE k \in 1..n
          BY <2>2, <2>5, <2>6, <4>2
        <4> QED BY <4>1, <4>2
      <3> QED BY <1>1, <3>1 DEF RowsKnown, AllOpen
    <2>9. RowsKnown'
      BY <1>1, <2>3, <2>6, <2>7, <2>8 DEF RowsKnown
    <2>10. open # <<>>
      BY <2>4
    <2> QED BY <2>3, <2>9, <2>10, RoundsStay
  <1>4. ASSUME NEW r \in Table, Reported(r) PROVE SweepsInv'
    <2>1. RowsKnown' /\ round' = round /\ r \in ToSet(open)
      BY <1>1, <1>4, EndRowKeeps DEF Reported
    <2>2. open # <<>>
      BY <2>1 DEF ToSet
    <2> QED BY <2>1, <2>2, RoundsStay
  <1>5. CASE \/ \E r \in Table : WorkflowOver(r)
             \/ Outage \/ Recover \/ TimePasses \/ UNCHANGED sweepVars
    <2>1. UNCHANGED <<open, ended, round>>
      BY <1>5 DEF WorkflowOver, Outage, Recover, TimePasses, sweepVars, rows
    <2>2. RowsKnown'
      BY <1>1, <2>1 DEF RowsKnown, Once, AllOpen
    <2> QED BY <2>1, <2>2, RoundsStay
  <1> QED BY <1>2, <1>3, <1>4, <1>5, ReplicaSteps DEF SweepNext

(* reconcile.py and DbUpload.finalize_stalled: a row is ended once, by one sweep or by
   its own workflow, however many rows and replicas there are, and though two of them
   sweep at a time once one has lost its lock. *)
THEOREM RowsEndOnce == SweepSpec => EndedOnce
  <1>1. SweepsInv /\ [SweepNext]_sweepVars => SweepsInv'
    BY SweepsSteps
  <1>2. ASSUME SweepsInv, [SweepNext]_sweepVars, NEW r \in Table, ended[r] # "no"
        PROVE  ended'[r] = ended[r]
    <2>1. CASE \E p \in Replicas : FinalizeStalled(p)
      <3>1. PICK p \in Replicas : FinalizeStalled(p)
        BY <2>1
      <3>2. PICK w : w = Head(round[p].batch)
        OBVIOUS
      <3>3. CASE Still(w)
        <4>1. w.row # r
          BY <1>2, <3>3 DEF Still
        <4>2. ended' = [ended EXCEPT ![w.row] = round[p].answer]
          BY <3>1, <3>2, <3>3 DEF FinalizeStalled, EndRow
        <4> QED BY <1>2, <4>1, <4>2 DEF SweepsInv, RowsKnown
      <3>4. CASE ~Still(w)
        BY <3>1, <3>2, <3>4 DEF FinalizeStalled, rows
      <3> QED BY <3>3, <3>4
    <2>2. CASE \E q \in Table : Reported(q)
      <3>1. PICK q \in Table : Reported(q)
        BY <2>2
      <3>2. q \in ToSet(open) /\ ended' = [ended EXCEPT ![q] = "itself"]
        BY <3>1 DEF Reported, EndRow
      <3>3. q # r
        BY <1>2, <3>2 DEF SweepsInv, RowsKnown, AllOpen, ToSet
      <3> QED BY <1>2, <3>2, <3>3 DEF SweepsInv, RowsKnown
    <2>3. CASE ~((\E p \in Replicas : FinalizeStalled(p)) \/ \E q \in Table : Reported(q))
      <3>1. ended' = ended
        BY <1>2, <2>3 DEF SweepNext, Reconcile, StartReconciler, TryLock, Stalled, AskArgo,
             LookupFails, Unlock, SweepFails, LoseLock, Heard, WorkflowOver, Outage, Recover,
             TimePasses, sweepVars, rows
      <3> QED BY <3>1
    <2> QED BY <2>1, <2>2, <2>3
  <1>3. SweepsInv /\ [SweepNext]_sweepVars =>
          [\A r \in Table : ended[r] # "no" => ended'[r] = ended[r]]_sweepVars
    BY <1>2
  <1> QED BY <1>1, <1>3, SweepsStart, PTL DEF SweepSpec, EndedOnce
=============================================================================
