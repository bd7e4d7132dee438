------------------------------- MODULE Sweep -------------------------------
(***************************************************************************)
(* The reconciler's sweep over many uploads: which of them a sweep looks   *)
(* up, in what order, when it gives up, and two API replicas sweeping.     *)
(*                                                                         *)
(* UploadLifecycle decides one row; this module asks whether every row is  *)
(* ever decided.  Open rows stand in the order of their updated_at, so the *)
(* quiet ones, and among them the ones past the age limit, are the first.  *)
(***************************************************************************)
EXTENDS Naturals, SequencesExt

CONSTANTS
  Table,        \* the uploads
  HasWorkflow, \* those with a workflow_name
  Unreadable,  \* those Argo never answers about
  Talking,     \* bound: those that may be heard of
  Replicas,    \* API processes
  Batch,       \* the limit of DbUpload.stalled
  MaxFailures, \* _MAX_CONSECUTIVE_LOOKUP_FAILURES
  MaxReports,  \* bound: status reports of one workflow
  MaxFaults,   \* bound: outages, lost connections and crashes
  Nobody       \* no replica

ASSUME SomeoneSweeps     == IsFiniteSet(Table) /\ Replicas # {}
ASSUME WorkflowsOfRows   == HasWorkflow \subseteq Table
ASSUME UnreadableHaveWorkflow == Unreadable \subseteq HasWorkflow
ASSUME BoundsArePositive == Batch \in Nat \ {0} /\ MaxFailures \in Nat \ {0}

VARIABLES
  open,    \* rows that have not ended, longest quiet first
  quiet,   \* how many of them are past RECONCILE_QUIET_MINUTES
  old,     \* how many of them are past RECONCILE_MAX_AGE_HOURS
  status,  \* the stage each row has reached
  phase,   \* each row's workflow
  ended,   \* how each row ended
  round,   \* each replica's sweep
  advisory, \* who holds the advisory lock
  up,      \* the apiserver answers
  faults

rows == <<open, quiet, old, status, ended>>
env  == <<up, faults>>
sweepVars == <<rows, phase, round, advisory, env>>

Answers == {"failed", "gone", "abandoned"}
Off     == [pc |-> "off", batch |-> <<>>, failures |-> 0, answer |-> "none"]
Resting == [Off EXCEPT !.pc = "idle"]

SweepInit ==
  /\ open = <<>> /\ quiet = 0 /\ old = 0
  /\ status = [r \in Table |-> 0] /\ phase = [r \in Table |-> "Running"]
  /\ ended = [r \in Table |-> "no"]
  /\ round = [p \in Replicas |-> Off] /\ advisory = Nobody
  /\ up = TRUE /\ faults = 0

Leave(r) ==
  LET at == SelectInSeq(open, LAMBDA x : x = r) IN
  /\ open' = RemoveFirst(open, r)
  /\ quiet' = IF at \in 1..quiet THEN quiet - 1 ELSE quiet
  /\ old' = IF at \in 1..old THEN old - 1 ELSE old

EndRow(r, how) == Leave(r) /\ ended' = [ended EXCEPT ![r] = how] /\ UNCHANGED status
Fault == faults < MaxFaults /\ faults' = faults + 1
-----------------------------------------------------------------------------
(* The servers start over a table of uploads that are being processed. *)
StartReconciler ==
  /\ open = <<>> /\ open' = SetToSeq(Table) /\ \A p \in Replicas : round[p] = Off
  /\ round' = [p \in Replicas |-> Resting]
  /\ UNCHANGED <<quiet, old, status, ended, phase, advisory, env>>

(* pg_try_advisory_lock: whoever does not get it skips the sweep. *)
TryLock(p) ==
  /\ round[p].pc = "idle" /\ advisory = Nobody
  /\ advisory' = p /\ round' = [round EXCEPT ![p].pc = "locked"]
  /\ UNCHANGED <<rows, phase, env>>

(* DbUpload.stalled: a snapshot of the rows quiet longest. *)
Stalled(p) ==
  /\ round[p].pc = "locked"
  /\ round' = [round EXCEPT ![p].pc = "asking", ![p].batch =
       [i \in 1..(IF quiet < Batch THEN quiet ELSE Batch) |->
          [row |-> open[i], aged |-> i <= old, status |-> status[open[i]]]]]
  /\ UNCHANGED <<rows, phase, advisory, env>>

Outcome(w) ==
  LET p == IF w.row \in HasWorkflow THEN phase[w.row] ELSE "None" IN
  CASE p = "Failed"                                -> "failed"
    [] p = "Gone"                                  -> "gone"
    [] p \in {"None", "Succeeded"} /\ w.aged       -> "abandoned"
    [] OTHER                                       -> "none"

(* Mutant: a sweep gives up one failure early. *)
GivesUpEarly(p) == round[p].failures + 1 >= MaxFailures

GivesUp(p) == round[p].failures >= MaxFailures
Asks(p) == round[p].pc = "asking" /\ round[p].batch # <<>> /\ ~GivesUp(p)
Fails(r) == r \in Unreadable \/ (r \in HasWorkflow /\ ~up)

AskArgo(p) ==
  /\ Asks(p) /\ ~Fails(Head(round[p].batch).row)
  /\ LET w == Head(round[p].batch) IN
     round' = IF Outcome(w) = "none"
                THEN [round EXCEPT ![p].batch = Tail(@), ![p].failures = 0]
                ELSE [round EXCEPT ![p].pc = "answered", ![p].answer = Outcome(w)]
  /\ UNCHANGED <<rows, phase, advisory, env>>

LookupFails(p) ==
  /\ Asks(p) /\ Fails(Head(round[p].batch).row)
  /\ round' = [round EXCEPT ![p].batch = Tail(@), ![p].failures = @ + 1]
  /\ UNCHANGED <<rows, phase, advisory, env>>

(* Mutant: the row is ended whatever it has become since it was read. *)
StillAny(w) == TRUE

Still(w) == ended[w.row] = "no" /\ status[w.row] = w.status

(* finalize_stalled, on what the sweep read before it asked. *)
FinalizeStalled(p) ==
  LET w == Head(round[p].batch) IN
  /\ round[p].pc = "answered"
  /\ IF Still(w) THEN EndRow(w.row, round[p].answer) ELSE UNCHANGED rows
  /\ round' = [round EXCEPT ![p].pc = "asking", ![p].batch = Tail(@), ![p].failures = 0,
                            ![p].answer = "none"]
  /\ UNCHANGED <<phase, advisory, env>>

Unlock(p) ==
  /\ round[p].pc = "asking" /\ (round[p].batch = <<>> \/ GivesUp(p))
  /\ round' = [round EXCEPT ![p] = Resting]
  /\ advisory' = IF advisory = p THEN Nobody ELSE advisory
  /\ UNCHANGED <<rows, phase, env>>

(* The process dies, or a query of the round's raises. *)
SweepFails(p) ==
  /\ Fault /\ round[p].pc \notin {"off", "idle"}
  /\ round' = [round EXCEPT ![p] = Resting]
  /\ advisory' = IF advisory = p THEN Nobody ELSE advisory
  /\ UNCHANGED <<rows, phase, up>>

(* The connection that holds the lock drops; the sweep reads and writes
   through others, and goes on. *)
LoseLock(p) ==
  /\ Fault /\ advisory = p /\ advisory' = Nobody
  /\ UNCHANGED <<rows, phase, round, up>>

Outage  == open # <<>> /\ Fault /\ up /\ up' = FALSE /\ UNCHANGED <<rows, phase, round, advisory>>
Recover == ~up /\ up' = TRUE /\ UNCHANGED <<rows, phase, round, advisory, faults>>
-----------------------------------------------------------------------------
(* A row is touched, or a report moves its status on: it is heard of again. *)
Heard(r) ==
  /\ r \in ToSet(open) \cap Talking /\ status[r] < MaxReports /\ phase[r] = "Running"
  /\ status' = [status EXCEPT ![r] = @ + 1]
  /\ LET at == SelectInSeq(open, LAMBDA x : x = r) IN
     /\ open' = Append(RemoveFirst(open, r), r)
     /\ quiet' = IF at \in 1..quiet THEN quiet - 1 ELSE quiet
     /\ old' = IF at \in 1..old THEN old - 1 ELSE old
  /\ UNCHANGED <<phase, ended, round, advisory, env>>

Reported(r) ==
  /\ r \in ToSet(open) \cap Talking /\ EndRow(r, "itself")
  /\ UNCHANGED <<phase, round, advisory, env>>

(* The workflow ends, or is collected, and the row is not told. *)
WorkflowOver(r) ==
  /\ r \in ToSet(open) /\ r \in HasWorkflow \ Unreadable /\ \E p \in {"Failed", "Succeeded", "Gone"} :
       phase[r] = "Running" /\ phase' = [phase EXCEPT ![r] = p]
  /\ UNCHANGED <<rows, round, advisory, env>>

(* Quiet grows before old does. *)
TimePasses ==
  /\ \/ quiet < Len(open) /\ quiet' = quiet + 1 /\ UNCHANGED old
     \/ quiet = Len(open) /\ old < quiet /\ old' = old + 1 /\ UNCHANGED quiet
  /\ UNCHANGED <<open, status, phase, ended, round, advisory, env>>

Reconcile(p) == \/ TryLock(p) \/ Stalled(p) \/ AskArgo(p) \/ LookupFails(p)
                \/ FinalizeStalled(p) \/ Unlock(p)

SweepNext ==
  \/ StartReconciler
  \/ \E p \in Replicas : Reconcile(p) \/ SweepFails(p) \/ LoseLock(p)
  \/ \E r \in Table : Heard(r) \/ Reported(r) \/ WorkflowOver(r)
  \/ Outage \/ Recover \/ TimePasses

SweepSpec == SweepInit /\ [][SweepNext]_sweepVars

(* Each replica's loop goes on, workflows end, the apiserver comes back and
   time passes; nobody has to report anything. *)
SweepFairness ==
  /\ \A p \in Replicas : WF_sweepVars(Reconcile(p))
  /\ \A r \in Table : WF_sweepVars(WorkflowOver(r))
  /\ WF_sweepVars(Recover) /\ WF_sweepVars(TimePasses)

SweepFair == SweepSpec /\ SweepFairness
-----------------------------------------------------------------------------
(* reconcile.py: "Any non-terminal upload that has gone quiet gets its
   workflow looked up": in the end the only rows left open are those no lookup
   can read, though some are spared sweep after sweep, though fewer than
   MaxFailures rows fail every lookup and stand first in every batch, and though
   replicas die and Argo goes away. *)
OthersEnd == <>[](ToSet(open) \subseteq Unreadable)

(* A row is ended once, by one sweep or by its own workflow, and what its owner
   is told stands: two replicas may be sweeping, when one has lost its lock. *)
EndedOnce == [][\A r \in Table : ended[r] # "no" => ended'[r] = ended[r]]_sweepVars

(* Every row that goes quiet ends, and ends once. *)
EachEndsOnce == OthersEnd /\ EndedOnce
=============================================================================
