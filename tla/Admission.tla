----------------------------- MODULE Admission -----------------------------
(***************************************************************************)
(* Admitting an upload: create_upload_row, from the mirrored session to    *)
(* the committed row, with several calls in flight.                        *)
(*                                                                         *)
(* A call is one request to create an upload, and the row it may leave.    *)
(* The database runs at read committed: a statement sees what others have  *)
(* committed, an upsert of a user's row holds it to the end of the         *)
(* transaction, and an insert waits for a conflicting insert that is not   *)
(* committed yet.                                                          *)
(***************************************************************************)
EXTENDS Naturals, FiniteSets

CONSTANTS
  Calls,      \* the create requests
  Callers,    \* the users who send them
  Anonymous,  \* the account that owns every anonymous upload
  Keys,       \* external ids
  NoKey,      \* a request without one
  MaxActive,  \* settings.MAX_ACTIVE_UPLOADS_PER_USER
  NoCall      \* nobody

ASSUME CallsAreFinite   == IsFiniteSet(Calls)
ASSUME MaxActiveIsNat   == MaxActive \in Nat
ASSUME NoCallIsNone     == NoCall \notin Calls
ASSUME NoKeyIsNone      == NoKey \notin Keys
ASSUME AnonymousIsApart == Anonymous \notin Callers

VARIABLES
  call,  \* each request: the point it has reached, and what it asks
  row,   \* the row it has committed
  lock   \* who holds each user's row

vars == <<call, row, lock>>

Points == {"none", "asked", "mirrored", "counted", "looked", "inserted",
           "violated", "created", "refused", "failed"}

(* "kept" is Uploaded or Succeeded, "freed" is Failed, Error or Aborted. *)
Statuses == {"absent", "open", "kept", "freed"}

(* "stale" is a day without a word, "resumed" is heard of again after that. *)
Ages == {"fresh", "stale", "resumed"}

TypeOK ==
  /\ call \in [Calls -> [pc: Points, caller: Callers, owner: Callers \cup {Anonymous},
                         key: Keys \cup {NoKey}]]
  /\ row \in [Calls -> [status: Statuses, age: Ages]]
  /\ lock \in [Callers -> Calls \cup {NoCall}]

Init ==
  /\ call \in [Calls -> {[pc |-> "none", caller |-> p, owner |-> o, key |-> k] :
                           p \in Callers, o \in Callers \cup {Anonymous},
                           k \in Keys \cup {NoKey}}]
  /\ \A c \in Calls : call[c].owner \in {call[c].caller, Anonymous}
  /\ row = [c \in Calls |-> [status |-> "absent", age |-> "fresh"]]
  /\ lock = [p \in Callers |-> NoCall]

At(c, p)  == call[c].pc = p
To(c, p)  == call' = [call EXCEPT ![c].pc = p]
Release(c) == lock' = [lock EXCEPT ![call[c].caller] = IF @ = c THEN NoCall ELSE @]

(* The rows count_active counts. *)
Active(o) == {c \in Calls : /\ row[c].status = "open"
                            /\ row[c].age # "stale"
                            /\ call[c].owner = o}

(* The rows in uploads_external_id_active_idx, which find_by_external_id reads. *)
Holders(k) == {c \in Calls : row[c].status \in {"open", "kept"} /\ call[c].key = k}

-----------------------------------------------------------------------------
Ask(c) == At(c, "none") /\ To(c, "asked") /\ UNCHANGED <<row, lock>>

(* Mutant: the session is mirrored on a connection of its own. *)
MirrorAndForget(c) == At(c, "asked") /\ To(c, "mirrored") /\ UNCHANGED <<row, lock>>

(* mirror_user upserts the caller's row, and so holds it. *)
Mirror(c) ==
  /\ At(c, "asked")
  /\ lock[call[c].caller] = NoCall
  /\ lock' = [lock EXCEPT ![call[c].caller] = c]
  /\ To(c, "mirrored")
  /\ UNCHANGED row

Count(c) ==
  /\ At(c, "mirrored")
  /\ Cardinality(Active(call[c].owner)) < MaxActive
  /\ To(c, "counted")
  /\ UNCHANGED <<row, lock>>

(* Mutant: the refused request's transaction is left open. *)
OverQuotaKeepsLock(c) ==
  /\ At(c, "mirrored")
  /\ Cardinality(Active(call[c].owner)) >= MaxActive
  /\ To(c, "refused")
  /\ UNCHANGED <<row, lock>>

OverQuota(c) ==
  /\ At(c, "mirrored")
  /\ Cardinality(Active(call[c].owner)) >= MaxActive
  /\ To(c, "refused")
  /\ Release(c)
  /\ UNCHANGED row

(* The key is free, and the source URL, if any, resolves. *)
Look(c) ==
  /\ At(c, "counted")
  /\ Holders(call[c].key) = {} \/ call[c].key = NoKey
  /\ To(c, "looked")
  /\ UNCHANGED <<row, lock>>

KeyTaken(c) ==
  /\ At(c, "counted")
  /\ call[c].key # NoKey /\ Holders(call[c].key) # {}
  /\ To(c, "refused")
  /\ Release(c)
  /\ UNCHANGED row

(* Another transaction is inserting the same key: its outcome is awaited. *)
Inserting(c) ==
  \E d \in Calls \ {c} : At(d, "inserted") /\ call[d].key = call[c].key /\ call[c].key # NoKey

(* Mutant: the earlier look is trusted, with no unique index behind it. *)
InsertUnchecked(c) ==
  /\ At(c, "looked")
  /\ To(c, "inserted")
  /\ UNCHANGED <<row, lock>>

Insert(c) ==
  /\ At(c, "looked")
  /\ ~Inserting(c)
  /\ Holders(call[c].key) = {} \/ call[c].key = NoKey
  /\ To(c, "inserted")
  /\ UNCHANGED <<row, lock>>

(* Lost the race: roll back, then read again to say who won. *)
UniqueViolation(c) ==
  /\ At(c, "looked")
  /\ ~Inserting(c)
  /\ call[c].key # NoKey /\ Holders(call[c].key) # {}
  /\ To(c, "violated")
  /\ Release(c)
  /\ UNCHANGED row

Conflict(c) == At(c, "violated") /\ To(c, "refused") /\ UNCHANGED <<row, lock>>

Commit(c) ==
  /\ At(c, "inserted")
  /\ row' = [row EXCEPT ![c].status = "open"]
  /\ To(c, "created")
  /\ Release(c)

(* A bad title, a rejected URL, a dropped connection: nothing is written. *)
Fail(c) ==
  /\ call[c].pc \in {"asked", "mirrored", "counted", "looked", "inserted", "violated"}
  /\ To(c, "failed")
  /\ Release(c)
  /\ UNCHANGED row

-----------------------------------------------------------------------------
(* What becomes of a row afterwards. *)

End(c) ==
  /\ row[c].status = "open"
  /\ \E s \in {"kept", "freed"} : row' = [row EXCEPT ![c].status = s]
  /\ UNCHANGED <<call, lock>>

(* Not heard of for a day: it stops counting. *)
Stale(c) ==
  /\ row[c].status = "open" /\ row[c].age # "stale"
  /\ row' = [row EXCEPT ![c].age = "stale"]
  /\ UNCHANGED <<call, lock>>

(* touch_open, before the reconciler has come. *)
Resume(c) ==
  /\ row[c].status = "open" /\ row[c].age = "stale"
  /\ row' = [row EXCEPT ![c].age = "resumed"]
  /\ UNCHANGED <<call, lock>>

Serve(c) ==
  \/ Mirror(c) \/ Count(c) \/ OverQuota(c) \/ Look(c) \/ KeyTaken(c)
  \/ Insert(c) \/ UniqueViolation(c) \/ Conflict(c) \/ Commit(c)

Next == \E c \in Calls :
          Ask(c) \/ Serve(c) \/ Fail(c) \/ End(c) \/ Stale(c) \/ Resume(c)

Spec == Init /\ [][Next]_vars

(* A request that could go on does: the user's row is granted in turn. *)
Fairness == \A c \in Calls : SF_vars(Serve(c))
FairSpec == Spec /\ Fairness

-----------------------------------------------------------------------------
(* An external id names at most one upload that has not failed: a partner that
   retries, or asks twice at once, never publishes a dataset twice. *)
ExternalIdHeldOnce == \A k \in Keys : \A c, d \in Holders(k) : c = d

Unbroken(o) == {c \in Active(o) : row[c].age = "fresh"}

(* Nobody has more uploads in progress under their own name than the limit,
   however many requests they send at once: the mirrored session's row makes
   them queue.  Sessions resumed after a day come on top: they were not counted
   when others were let in. *)
OwnQuota == \A p \in Callers : Cardinality(Unbroken(p)) <= MaxActive

(* README: "Anonymous uploads share the MAX_ACTIVE_UPLOADS_PER_USER limit as a
   pool".  Their callers hold different rows, and do not queue. *)
PoolQuota == Cardinality(Unbroken(Anonymous)) <= MaxActive

(* Every request is answered, and in the end none is left waiting: no refusal,
   conflict or failure leaves a user's row locked behind it. *)
EveryCallAnswered ==
  <>[](\A c \in Calls : call[c].pc \in {"none", "created", "refused", "failed"})
=============================================================================
