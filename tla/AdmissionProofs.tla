--------------------------- MODULE AdmissionProofs --------------------------
(***************************************************************************)
(* What comes in.  For any number of requests, users and external ids, and *)
(* any limit: an external id names one upload, and nobody goes over the    *)
(* limit under their own name.  Of an upload by link: whatever is          *)
(* submitted, and wherever names and redirects lead, only what is allowed  *)
(* is fetched.  Of an image from any source: its Item says what the source *)
(* stated, and names its uploader as a session of theirs did, or no one.    *)
(***************************************************************************)
EXTENDS Admission, SourceLink, CatalogueItem, FiniteSetTheorems, TLAPS

Inside == {"mirrored", "counted", "looked", "inserted"}
LetIn  == {"counted", "looked", "inserted"}

(* Who names k, or is about to. *)
Claims(k) == {c \in Calls : /\ call[c].key = k
                            /\ row[c].status \in {"open", "kept"} \/ At(c, "inserted")}

(* What p's limit has let in: uploads in progress, and requests on their way. *)
Admitted(p) == Unbroken(p) \cup {c \in Calls : call[c].owner = p /\ call[c].pc \in LetIn}

OwnerIsCaller == \A c \in Calls : call[c].owner \in {call[c].caller, Anonymous}
RowIsCreated  == \A c \in Calls : row[c].status # "absent" => At(c, "created")
HoldsOwnRow   == \A c \in Calls : call[c].pc \in Inside => lock[call[c].caller] = c
ClaimedOnce   == \A k \in Keys : \A c, d \in Claims(k) : c = d
WithinLimit   == \A p \in Callers : Cardinality(Admitted(p)) <= MaxActive

AdmissionInv ==
  /\ TypeOK
  /\ OwnerIsCaller
  /\ RowIsCreated
  /\ HoldsOwnRow
  /\ ClaimedOnce
  /\ WithinLimit

Do(c) == Ask(c) \/ Serve(c) \/ Fail(c) \/ End(c) \/ Stale(c) \/ Resume(c)

-----------------------------------------------------------------------------
LEMMA InitAdmission == Init => AdmissionInv
  <1> SUFFICES ASSUME Init PROVE AdmissionInv
    OBVIOUS
  <1>1. TypeOK
    BY NoCallIsNone DEF Init, TypeOK, Points, Statuses, Ages
  <1>2. OwnerIsCaller /\ RowIsCreated /\ HoldsOwnRow
    BY DEF Init, OwnerIsCaller, RowIsCreated, HoldsOwnRow, Inside
  <1>3. ClaimedOnce
    BY DEF Init, ClaimedOnce, Claims, At
  <1>4. WithinLimit
    <2> SUFFICES ASSUME NEW p \in Callers PROVE Cardinality(Admitted(p)) <= MaxActive
      BY DEF WithinLimit
    <2>1. Admitted(p) = {}
      BY DEF Init, Admitted, Unbroken, Active, LetIn
    <2> QED
      BY <2>1, FS_EmptySet, MaxActiveIsNat
  <1> QED
    BY <1>1, <1>2, <1>3, <1>4 DEF AdmissionInv

(* A step moves one request, and only that: who asks, and for what, stays. *)
LEMMA OthersStay ==
  ASSUME TypeOK, NEW c \in Calls, Do(c), NEW d \in Calls
  PROVE  /\ call'[d].caller = call[d].caller
         /\ call'[d].owner = call[d].owner
         /\ call'[d].key = call[d].key
         /\ d # c => call'[d] = call[d] /\ row'[d] = row[d]
  <1>1. CASE \E q \in Points : To(c, q)
    BY <1>1 DEF Do, Serve, To, TypeOK, Ask, Mirror, Count, OverQuota, Look, KeyTaken, Insert,
      UniqueViolation, Conflict, Commit, Fail, End, Stale, Resume
  <1>2. CASE UNCHANGED call
    BY <1>2 DEF Do, Serve, To, TypeOK, Ask, Mirror, Count, OverQuota, Look, KeyTaken, Insert,
      UniqueViolation, Conflict, Commit, Fail, End, Stale, Resume
  <1> QED
    BY <1>1, <1>2 DEF Do, Serve, Points, Ask, Mirror, Count, OverQuota, Look, KeyTaken, Insert,
      UniqueViolation, Conflict, Commit, Fail, End, Stale, Resume

LEMMA StepTyped ==
  ASSUME TypeOK, NEW c \in Calls, Do(c)
  PROVE  TypeOK'
  <1>1. ASSUME NEW q \in Points, To(c, q)
        PROVE  call' \in [Calls -> [pc: Points, caller: Callers,
                                    owner: Callers \cup {Anonymous}, key: Keys \cup {NoKey}]]
    BY <1>1 DEF To, TypeOK
  <1>2. Release(c) => lock' \in [Callers -> Calls \cup {NoCall}]
    BY DEF Release, TypeOK
  <1>3. CASE Ask(c) \/ Mirror(c) \/ Count(c) \/ Look(c) \/ Insert(c) \/ Conflict(c)
    BY <1>1, <1>3 DEF TypeOK, Points, Ask, Mirror, Count, Look, Insert, Conflict
  <1>4. CASE OverQuota(c) \/ KeyTaken(c) \/ UniqueViolation(c) \/ Fail(c)
    BY <1>1, <1>2, <1>4 DEF TypeOK, Points, OverQuota, KeyTaken, UniqueViolation, Fail
  <1>5. CASE Commit(c)
    <2>1. row' \in [Calls -> [status: Statuses, age: Ages]]
      BY <1>5 DEF Commit, TypeOK, Statuses
    <2> QED
      BY <1>1, <1>2, <1>5, <2>1 DEF TypeOK, Points, Commit
  <1>6. CASE End(c) \/ Stale(c) \/ Resume(c)
    BY <1>6 DEF End, Stale, Resume, TypeOK, Statuses, Ages
  <1> QED
    BY <1>3, <1>4, <1>5, <1>6 DEF Do, Serve

LEMMA StepOwner ==
  ASSUME TypeOK, OwnerIsCaller, NEW c \in Calls, Do(c)
  PROVE  OwnerIsCaller'
  BY OthersStay DEF OwnerIsCaller

(* A row is there once its request is committed, and no request goes back. *)
LEMMA StepRow ==
  ASSUME TypeOK, RowIsCreated, NEW c \in Calls, Do(c)
  PROVE  RowIsCreated'
  <1> SUFFICES ASSUME NEW d \in Calls, row'[d].status # "absent" PROVE At(d, "created")'
    BY DEF RowIsCreated
  <1>1. CASE d # c
    BY <1>1, OthersStay DEF RowIsCreated, At
  <1>2. CASE d = c /\ Commit(c)
    BY <1>2 DEF Commit, To, At, TypeOK
  <1>3. CASE d = c /\ (End(c) \/ Stale(c) \/ Resume(c))
    BY <1>3 DEF End, Stale, Resume, RowIsCreated, At, TypeOK
  <1>4. CASE d = c /\ UNCHANGED row
    BY <1>4 DEF Do, Serve, Ask, Mirror, Count, OverQuota, Look, KeyTaken, Insert,
      UniqueViolation, Conflict, Commit, Fail, End, Stale, Resume, RowIsCreated, At, TypeOK
  <1> QED
    BY <1>1, <1>2, <1>3, <1>4 DEF Do, Serve, Ask, Mirror, Count, OverQuota, Look, KeyTaken,
      Insert, UniqueViolation, Conflict, Fail

(* From the mirrored session to its answer a request holds its caller's row:
   nobody takes it away, and whoever lets go of it is no longer inside. *)
LEMMA StepHolds ==
  ASSUME TypeOK, HoldsOwnRow, NEW c \in Calls, Do(c)
  PROVE  HoldsOwnRow'
  <1> SUFFICES ASSUME NEW d \in Calls, call'[d].pc \in Inside
               PROVE  lock'[call[d].caller] = d
    BY OthersStay DEF HoldsOwnRow
  <1>1. call[d].caller \in Callers /\ call[c].caller \in Callers
    BY DEF TypeOK
  <1>2. ASSUME d # c PROVE lock[call[d].caller] = d
    BY <1>2, OthersStay DEF HoldsOwnRow
  <1>3. CASE Mirror(c)
    <2>1. CASE d = c
      BY <1>1, <1>3, <2>1 DEF Mirror, TypeOK
    <2>2. CASE d # c
      <3>1. call[d].caller # call[c].caller
        BY <1>2, <1>3, <2>2, NoCallIsNone DEF Mirror
      <3> QED
        BY <1>1, <1>2, <1>3, <2>2, <3>1 DEF Mirror, TypeOK
    <2> QED
      BY <2>1, <2>2
  <1>4. CASE OverQuota(c) \/ KeyTaken(c) \/ UniqueViolation(c) \/ Commit(c) \/ Fail(c)
    <2>1. d # c
      BY <1>4 DEF OverQuota, KeyTaken, UniqueViolation, Commit, Fail, To, TypeOK, Inside
    <2>2. Release(c)
      BY <1>4 DEF OverQuota, KeyTaken, UniqueViolation, Commit, Fail
    <2> QED
      BY <1>1, <1>2, <2>1, <2>2 DEF Release, TypeOK
  <1>5. CASE Ask(c) \/ Conflict(c)
    <2>1. d # c
      BY <1>5 DEF Ask, Conflict, To, TypeOK, Inside
    <2> QED
      BY <1>2, <1>5, <2>1 DEF Ask, Conflict
  <1>6. CASE Count(c) \/ Look(c) \/ Insert(c)
    <2>1. call[c].pc \in Inside
      BY <1>6 DEF Count, Look, Insert, At, Inside
    <2> QED
      BY <1>2, <1>6, <2>1 DEF Count, Look, Insert, HoldsOwnRow
  <1>7. CASE End(c) \/ Stale(c) \/ Resume(c)
    BY <1>7 DEF End, Stale, Resume, HoldsOwnRow
  <1> QED
    BY <1>3, <1>4, <1>5, <1>6, <1>7 DEF Do, Serve

-----------------------------------------------------------------------------
(* Only an insert adds to who names an external id. *)
LEMMA ClaimsShrink ==
  ASSUME TypeOK, NEW c \in Calls, Do(c), ~Insert(c), NEW k \in Keys
  PROVE  Claims(k)' \subseteq Claims(k)
  <1> SUFFICES ASSUME NEW d \in Calls, call'[d].key = k,
                      row'[d].status \in {"open", "kept"} \/ At(d, "inserted")'
               PROVE  d \in Claims(k)
    BY DEF Claims
  <1>1. call[d].key = k
    BY OthersStay
  <1>2. CASE d # c
    BY <1>1, <1>2, OthersStay DEF Claims, At
  <1>3. CASE d = c
    <2>1. row[c].status \in {"open", "kept"} \/ At(c, "inserted")
      BY <1>3 DEF Do, Serve, To, TypeOK, Ask, Mirror, Count, OverQuota, Look,
        KeyTaken, Insert, UniqueViolation, Conflict, Commit, Fail, End, Stale, Resume, At
    <2> QED
      BY <1>1, <1>3, <2>1 DEF Claims
  <1> QED
    BY <1>2, <1>3

LEMMA StepClaims ==
  ASSUME TypeOK, ClaimedOnce, NEW c \in Calls, Do(c)
  PROVE  ClaimedOnce'
  <1>1. CASE ~Insert(c)
    BY <1>1, ClaimsShrink DEF ClaimedOnce
  <1>2. CASE Insert(c)
    <2> SUFFICES ASSUME NEW k \in Keys, NEW a \in Claims(k)', NEW b \in Claims(k)' PROVE a = b
      BY DEF ClaimedOnce
    <2>1. ASSUME NEW d \in Calls, d \in Claims(k)', d # c PROVE d \in Claims(k)
      BY <1>2, <2>1, OthersStay DEF Claims, At
    <2>2. ASSUME call[c].key = k PROVE Claims(k) \subseteq {c}
      BY <1>2, <2>2, NoKeyIsNone DEF Insert, Inserting, Holders, Claims, At
    <2>3. ASSUME call[c].key # k PROVE c \notin Claims(k)'
      BY <2>3, OthersStay DEF Claims
    <2>4. a \in Calls /\ b \in Calls
      BY DEF Claims
    <2> QED
      BY <2>1, <2>2, <2>3, <2>4 DEF ClaimedOnce
  <1> QED
    BY <1>1, <1>2

(* Only a count adds to what a limit has let in. *)
LEMMA AdmittedShrinks ==
  ASSUME TypeOK, NEW c \in Calls, Do(c), ~Count(c), NEW p \in Callers
  PROVE  Admitted(p)' \subseteq Admitted(p)
  <1> SUFFICES ASSUME NEW d \in Calls, call'[d].owner = p,
                      \/ call'[d].pc \in LetIn
                      \/ row'[d].status = "open" /\ row'[d].age = "fresh"
               PROVE  d \in Admitted(p)
    BY DEF Admitted, Unbroken, Active
  <1>1. call[d].owner = p
    BY OthersStay
  <1>2. CASE d # c
    BY <1>1, <1>2, OthersStay DEF Admitted, Unbroken, Active
  <1>3. CASE d = c
    <2>1. \/ call[c].pc \in LetIn
          \/ row[c].status = "open" /\ row[c].age = "fresh"
      BY <1>3 DEF Do, Serve, To, TypeOK, LetIn, Ask, Mirror, Count, OverQuota, Look,
        KeyTaken, Insert, UniqueViolation, Conflict, Commit, Fail, End, Stale, Resume, At
    <2> QED
      BY <1>1, <1>3, <2>1 DEF Admitted, Unbroken, Active
  <1> QED
    BY <1>2, <1>3

LEMMA AdmittedFinite ==
  ASSUME NEW p \in Callers
  PROVE  IsFiniteSet(Admitted(p)) /\ IsFiniteSet(Active(p))
  BY CallsAreFinite, FS_Subset DEF Admitted, Unbroken, Active

(* Whoever counts is alone with the rows counted: nobody else is on the way
   under the same name, for it holds that user's row. *)
LEMMA CountsAlone ==
  ASSUME AdmissionInv, NEW c \in Calls, Count(c), NEW p \in Callers, call[c].owner = p
  PROVE  Admitted(p)' \subseteq Active(p) \cup {c}
  <1> SUFFICES ASSUME NEW d \in Admitted(p)', d # c PROVE d \in Active(p)
    OBVIOUS
  <1>1. d \in Calls /\ call[d] = call'[d] /\ row[d] = row'[d]
    BY DEF AdmissionInv, Admitted, Unbroken, Active, Count, To, TypeOK
  <1>2. call[d].owner = p
    BY <1>1 DEF Admitted, Unbroken, Active
  <1>3. call[c].caller = p /\ call[d].caller = p
    BY <1>1, <1>2, AnonymousIsApart DEF AdmissionInv, OwnerIsCaller
  <1>4. call[d].pc \notin LetIn
    BY <1>1, <1>3 DEF AdmissionInv, HoldsOwnRow, Inside, LetIn, Count, At
  <1> QED
    BY <1>1, <1>2, <1>4 DEF Admitted, Unbroken, Active

LEMMA StepWithin ==
  ASSUME AdmissionInv, NEW c \in Calls, Do(c)
  PROVE  WithinLimit'
  <1> SUFFICES ASSUME NEW p \in Callers PROVE Cardinality(Admitted(p)') <= MaxActive
    BY DEF WithinLimit
  <1>1. Cardinality(Admitted(p)) \in Nat /\ Cardinality(Active(p)) \in Nat
    BY AdmittedFinite, FS_CardinalityType
  <1>2. Cardinality(Admitted(p)) <= MaxActive
    BY DEF AdmissionInv, WithinLimit
  <1>3. CASE Admitted(p)' \subseteq Admitted(p)
    <2>1. Cardinality(Admitted(p)') <= Cardinality(Admitted(p))
      BY <1>3, AdmittedFinite, FS_Subset
    <2>2. Cardinality(Admitted(p)') \in Nat
      BY <1>3, AdmittedFinite, FS_Subset, FS_CardinalityType
    <2> QED
      BY <1>1, <1>2, <2>1, <2>2, MaxActiveIsNat
  <1>4. CASE Count(c) /\ call[c].owner = p
    <2>1. Admitted(p)' \subseteq Active(p) \cup {c}
      BY <1>4, CountsAlone
    <2>2. IsFiniteSet(Active(p) \cup {c})
      BY AdmittedFinite, FS_AddElement
    <2>3. Cardinality(Active(p) \cup {c}) <= Cardinality(Active(p)) + 1
      <3>1. CASE c \in Active(p)
        <4>1. Cardinality(Active(p) \cup {c}) = Cardinality(Active(p))
          BY <3>1, AdmittedFinite, FS_AddElement
        <4> QED
          BY <1>1, <4>1
      <3>2. CASE c \notin Active(p)
        <4>1. Cardinality(Active(p) \cup {c}) = Cardinality(Active(p)) + 1
          BY <3>2, AdmittedFinite, FS_AddElement
        <4> QED
          BY <1>1, <4>1
      <3> QED
        BY <3>1, <3>2
    <2>4. Cardinality(Admitted(p)') <= Cardinality(Active(p) \cup {c})
      BY <2>1, <2>2, FS_Subset
    <2>5. Cardinality(Admitted(p)') \in Nat /\ Cardinality(Active(p) \cup {c}) \in Nat
      BY <2>1, <2>2, FS_Subset, FS_CardinalityType
    <2>6. Cardinality(Active(p)) < MaxActive
      BY <1>4 DEF Count
    <2> QED
      BY <1>1, <2>3, <2>4, <2>5, <2>6, MaxActiveIsNat
  <1>5. CASE Count(c) /\ call[c].owner # p
    <2>1. Admitted(p)' \subseteq Admitted(p)
      BY <1>5 DEF AdmissionInv, Admitted, Unbroken, Active, Count, To, TypeOK
    <2> QED
      BY <1>3, <2>1
  <1>6. CASE ~Count(c)
    BY <1>3, <1>6, AdmittedShrinks DEF AdmissionInv
  <1> QED
    BY <1>4, <1>5, <1>6

-----------------------------------------------------------------------------
LEMMA AdmissionInvNext == AdmissionInv /\ [Next]_vars => AdmissionInv'
  <1> SUFFICES ASSUME AdmissionInv, [Next]_vars PROVE AdmissionInv'
    OBVIOUS
  <1>1. ASSUME NEW c \in Calls, Do(c) PROVE AdmissionInv'
    <2>1. TypeOK'
      BY <1>1, StepTyped DEF AdmissionInv
    <2>2. OwnerIsCaller' /\ RowIsCreated'
      BY <1>1, StepOwner, StepRow DEF AdmissionInv
    <2>3. HoldsOwnRow' /\ ClaimedOnce'
      BY <1>1, StepHolds, StepClaims DEF AdmissionInv
    <2>4. WithinLimit'
      BY <1>1, StepWithin
    <2> QED
      BY <2>1, <2>2, <2>3, <2>4 DEF AdmissionInv
  <1>2. CASE UNCHANGED vars
    BY <1>2 DEF vars, AdmissionInv, TypeOK, OwnerIsCaller, RowIsCreated, HoldsOwnRow, ClaimedOnce,
      WithinLimit, Claims, Admitted, Unbroken, Active, At
  <1> QED
    BY <1>1, <1>2 DEF Next, Do

LEMMA AdmissionAlways == Spec => []AdmissionInv
  BY InitAdmission, AdmissionInvNext, PTL DEF Spec

(* However many requests ask for one external id at once, at most one upload
   that has not failed bears it: the look may be out of date by the time of the
   insert, but the insert waits for one under way and then looks again. *)
THEOREM KeyHeldOnce == Spec => []ExternalIdHeldOnce
  <1>1. AdmissionInv => ExternalIdHeldOnce
    BY DEF AdmissionInv, ClaimedOnce, Claims, Holders, ExternalIdHeldOnce
  <1> QED
    BY <1>1, AdmissionAlways, PTL

(* Nobody has more uploads under their own name than the limit: count and
   commit are apart, and the held row of the caller keeps others from between. *)
THEOREM QuotaKept == Spec => []OwnQuota
  <1>1. ASSUME AdmissionInv, NEW p \in Callers PROVE Cardinality(Unbroken(p)) <= MaxActive
    <2>1. Unbroken(p) \subseteq Admitted(p)
      BY DEF Admitted
    <2>2. /\ Cardinality(Unbroken(p)) <= Cardinality(Admitted(p))
          /\ Cardinality(Unbroken(p)) \in Nat /\ Cardinality(Admitted(p)) \in Nat
      BY <2>1, AdmittedFinite, FS_Subset, FS_CardinalityType
    <2> QED
      BY <1>1, <2>2, MaxActiveIsNat DEF AdmissionInv, WithinLimit
  <1>2. AdmissionInv => OwnQuota
    BY <1>1 DEF OwnQuota
  <1> QED
    BY <1>2, AdmissionAlways, PTL

-----------------------------------------------------------------------------
(* Uploads by link (SourceLink). *)

(* A stored link is one that could have been submitted, and is as normalised as it
   gets; what is asked for was permitted as names stood. *)
Stored == {u \in Links : /\ ~Indirect(u) /\ Normalise(u) = u /\ u.form # "nodeortho"}

LinkInv ==
  /\ source \in Stored \cup {NoLink}
  /\ dns \in [Hosts -> {"public", "private", "mixed", "nowhere"}]
  /\ fetch.pc \in {"idle", "asking", "answered", "retry", "failed", "done"}
  /\ fetch.pc = "idle" => fetch.hops = 0
  /\ fetch = [pc |-> fetch.pc, url |-> fetch.url, hops |-> fetch.hops, attempts |-> fetch.attempts]
  /\ fetch.pc \in {"asking", "answered"} => fetch.url \in Links
  /\ fetch.hops \in Nat /\ fetch.attempts \in Nat
  /\ fetch.pc = "answered" => fetch.hops <= MaxRedirects
  /\ asked.url # NoLink => Permitted(asked.url, asked.to) /\ ~asked.url.frag
  /\ object \in {"none", "tiff"}

LEMMA PlainIsPlain ==
  ASSUME NEW v \in Links, ~v.frag
  PROVE  Plain(v) = v
  BY DEF Links, Plain

(* What is normalised once is normalised. *)
LEMMA NormalisedIsStored ==
  ASSUME NEW u \in Submitted, ~Indirect(u)
  PROVE  Plain(Normalise(u)) \in Stored
  <1> DEFINE n == Plain(Normalise(u))
  <1> USE DEF Links, Hosts, Indirect, DriveFolder
  <1>1. u \in Links
    BY LinksAssumption
  <1>2. CASE u.host \in {"drive", "dropbox", "sharepoint"}
    <2>1. u.form \notin {"webortho", "webzip", "nodeortho", "nodezip"}
      BY <1>2, LinksAssumption
    <2>2. n \in Links /\ n.host = u.host /\ n.form = u.form /\ ~n.frag /\ n.direct
          /\ (u.host = "drive" => ~n.creds)
      BY <1>1, <1>2, <2>1 DEF Normalise, Plain, DriveDirect, DropboxDirect, SharepointDirect
    <2> HIDE DEF n
    <2>3. DropboxDirect(n) = n /\ SharepointDirect(n) = n /\ (u.host = "drive" => DriveDirect(n) = n)
      BY <2>2 DEF DriveDirect, DropboxDirect, SharepointDirect
    <2>4. Normalise(n) = n
      BY <1>2, <2>1, <2>2, <2>3 DEF Normalise
    <2>5. n \in Stored
      BY <1>2, <2>1, <2>2, <2>4 DEF Stored
    <2> QED  BY <2>5 DEF n
  <1>3. CASE u.host = "onedrive"
    <2>1. u.form \notin {"webortho", "webzip", "nodeortho", "nodezip"}
      BY <1>3, LinksAssumption
    <2>2. n = OnedriveDirect(u)
      <3>1. Normalise(u) = OnedriveDirect(u)
        BY <1>3, <2>1 DEF Normalise
      <3>2. Plain(OnedriveDirect(u)) = OnedriveDirect(u)
        <4>1. OnedriveDirect(u) \in Links /\ ~OnedriveDirect(u).frag
          BY SMTT(60) DEF OnedriveDirect
        <4> QED  BY <4>1, PlainIsPlain
      <3> QED  BY <3>1, <3>2
    <2>3. Normalise(n) = n
      BY <2>2 DEF Normalise, OnedriveDirect
    <2> QED  BY <2>2, <2>3 DEF Stored, OnedriveDirect
  <1>4. CASE u.host \in {"site", "onedriveapi"}
    <2>1. n \in Links /\ n.host = u.host /\ ~n.frag
          /\ n.form = IF u.form = "nodeortho" THEN "nodezip" ELSE u.form
      BY <1>1, <1>4 DEF Normalise, Plain, OdmAsset
    <2> HIDE DEF n
    <2>2. Normalise(n) = n
      <3>1. Plain(n) = n
        BY <2>1, PlainIsPlain
      <3>2. n.form = "nodezip" => OdmAsset(n) = n
        BY <2>1, <3>1 DEF OdmAsset
      <3> QED  BY <1>1, <1>4, <2>1, <3>1, <3>2 DEF Normalise
    <2>3. ~Indirect(n)
      BY <1>4, <2>1
    <2>4. n \in Stored
      BY <2>1, <2>2, <2>3 DEF Stored
    <2> QED  BY <2>4 DEF n
  <1> QED  BY <1>1, <1>2, <1>3, <1>4

LEMMA LinkInvInit == LinkInit => LinkInv
  BY DEF LinkInit, LinkInv, NoLink

LEMMA LinkInvNext ==
  ASSUME LinkInv, [LinkNext]_linkVars
  PROVE  LinkInv'
  <1> USE DEF LinkInv, Fetched
  <1>1. ASSUME NEW h \in Hosts, Repoint(h) PROVE LinkInv'
    BY <1>1 DEF Repoint
  <1>2. ASSUME NEW u \in Submitted, SubmitLink(u) PROVE LinkInv'
    BY <1>2, NormalisedIsStored DEF SubmitLink
  <1>3. CASE BeginFetch
    BY <1>3, LinksAssumption DEF BeginFetch, Stored
  <1>4. CASE Refused
    BY <1>4 DEF Refused
  <1>5. CASE AskSource
    <2>1. Plain(fetch.url) \in Links /\ ~Plain(fetch.url).frag
          /\ Plain(fetch.url).scheme = fetch.url.scheme /\ Plain(fetch.url).creds = fetch.url.creds
      BY <1>5 DEF AskSource, Plain, Links
    <2>2. Permitted(asked'.url, asked'.to) /\ ~asked'.url.frag
      BY <1>5, <2>1 DEF AskSource, PermittedAtHop, Permitted
    <2> QED  BY <1>5, <2>2 DEF AskSource
  <1>6. CASE Unanswered \/ BreaksOff
    BY <1>6 DEF Unanswered, BreaksOff
  <1>7. ASSUME NEW u \in Targets, Redirected(u) PROVE LinkInv'
    <2>1. u \in Links
      BY LinksAssumption
    <2>2. /\ fetch'.pc = "asking" /\ fetch'.url = u /\ fetch'.hops = fetch.hops + 1
          /\ fetch'.attempts = fetch.attempts
          /\ fetch' = [pc |-> fetch'.pc, url |-> fetch'.url, hops |-> fetch'.hops,
                       attempts |-> fetch'.attempts]
      BY <1>7 DEF Redirected
    <2>3. UNCHANGED <<dns, source, asked, object>>
      BY <1>7 DEF Redirected
    <2> QED  BY <2>1, <2>2, <2>3
  <1>8. ASSUME NEW b \in Bodies, Archive(b) PROVE LinkInv'
    BY <1>8 DEF Archive, Streams, Extracts, Expected, Contents
  <1>9. ASSUME NEW b \in Bodies, Rejected(b) PROVE LinkInv'
    BY <1>9 DEF Rejected
  <1>10. CASE UNCHANGED linkVars
    BY <1>10 DEF linkVars, Permitted
  <1> QED
    BY <1>1, <1>2, <1>3, <1>4, <1>5, <1>6, <1>7, <1>8, <1>9, <1>10 DEF LinkNext

(* source_links.py, url_guard.py and fetch.py: what is stored is direct, what is
   archived is a TIFF, and every request, of any attempt and after any number of
   redirects, goes where the rules allow as names stand then. *)
THEOREM LinkSound == LinkSpec => []LinkIsSound
  <1>1. ASSUME LinkInv PROVE LinkIsSound
    BY <1>1 DEF LinkInv, LinkIsSound, EveryHopChecked, LinkIsDirect, Stored, IsArchive, IsArchiveUrl
  <1> QED  BY <1>1, LinkInvInit, LinkInvNext, PTL DEF LinkSpec
-----------------------------------------------------------------------------
(* The catalogue: who signs in. *)
Subs == {"custom", "hotosm"}

(* There is one account for each who signed in, with what a session of theirs said. *)
AccountsKnown ==
  /\ \A a \in accounts : a.sub \in Subs
  /\ \A a, b \in accounts : a.sub = b.sub => a = b
  /\ \A s \in told : ~SharedId(s) /\ \E a \in accounts : a.sub = UserSub(s)
  /\ \A a \in accounts :
       /\ \E s \in told : UserSub(s) = a.sub /\ a.username = Username(s)
       /\ \A f \in {"name", "mail"} :
            \/ \E s \in told : UserSub(s) = a.sub /\ s[f] # None /\ a[f] = s[f]
            \/ \A s \in told : UserSub(s) = a.sub => s[f] = None

LEMMA ToldOf ==
  ASSUME NEW sub \in Subs
  PROVE  ToldBy(sub) = {s \in told : UserSub(s) = sub}
  <1>1. ASSUME NEW s PROVE ((s.way = "custom") = (sub = "custom")) <=> UserSub(s) = sub
    BY DEF UserSub, Subs
  <1> QED BY <1>1 DEF ToldBy

LEMMA OwnersKnown ==
  ASSUME AccountsKnown
  PROVE  /\ Cardinality({a \in accounts : a.sub # "custom"}) <= 1
         /\ \A a \in accounts, f \in {"name", "mail"} :
              LET said == {s[f] : s \in ToldBy(a.sub)} \ {None} IN said # {} => a[f] \in said
  <1>1. Cardinality({a \in accounts : a.sub # "custom"}) <= 1
    <2> DEFINE A == {a \in accounts : a.sub # "custom"}
    <2>1. \A a, b \in A : a = b
      BY DEF AccountsKnown, Subs
    <2>2. CASE A = {}
      <3>1. Cardinality(A) = 0
        BY <2>2, FS_EmptySet
      <3> QED BY <3>1
    <2>3. CASE A # {}
      <3>1. PICK a : A = {a}
        BY <2>1, <2>3
      <3>2. Cardinality({a}) = 1
        BY FS_Singleton
      <3> HIDE DEF A
      <3>3. Cardinality(A) = 1
        BY <3>1, <3>2
      <3> QED BY <3>3 DEF A
    <2> QED BY <2>2, <2>3
  <1>2. ASSUME NEW a \in accounts, NEW f \in {"name", "mail"}, NEW t \in ToldBy(a.sub), t[f] # None
        PROVE  \E s \in ToldBy(a.sub) : s[f] # None /\ a[f] = s[f]
    <2>1. ToldBy(a.sub) = {s \in told : UserSub(s) = a.sub}
      BY ToldOf DEF AccountsKnown
    <2>2. t \in told /\ UserSub(t) = a.sub
      BY <1>2, <2>1
    <2>3. PICK s \in told : UserSub(s) = a.sub /\ s[f] # None /\ a[f] = s[f]
      BY <1>2, <2>2 DEF AccountsKnown
    <2> QED BY <2>1, <2>3
  <1>3. ASSUME NEW a \in accounts, NEW f \in {"name", "mail"},
               {s[f] : s \in ToldBy(a.sub)} \ {None} # {}
        PROVE  a[f] \in {s[f] : s \in ToldBy(a.sub)} \ {None}
    <2>1. PICK t \in ToldBy(a.sub) : t[f] # None
      BY <1>3
    <2>2. PICK s \in ToldBy(a.sub) : s[f] # None /\ a[f] = s[f]
      BY <1>2, <2>1
    <2> QED BY <2>2
  <1> QED BY <1>1, <1>3

LEMMA AccountsStart == ItemInit => AccountsKnown
  BY DEF ItemInit, AccountsKnown

LEMMA MirrorKeeps ==
  ASSUME AccountsKnown, NEW s, MirrorUser(s)
  PROVE  /\ AccountsKnown'
         /\ told' = told \cup {s} /\ ~SharedId(s)
         /\ \A a \in accounts : \E b \in accounts' : b.sub = a.sub
         /\ \E b \in accounts' : b.sub = UserSub(s)
  <1> DEFINE sub == UserSub(s)
             known(f) == {a[f] : a \in AccountsOf(sub)}
             value(f) == IF s[f] = None /\ known(f) # {} THEN CHOOSE v \in known(f) : TRUE ELSE s[f]
             new == [sub |-> sub, username |-> Username(s), name |-> value("name"),
                     mail |-> value("mail")]
  <1>1. sub \in Subs
    BY DEF UserSub, Subs
  <1>2. accounts' = {a \in accounts : a.sub # sub} \cup {new}
    <2>1. /\ s.name = s["name"] /\ s.mail = s["mail"]
      OBVIOUS
    <2> QED BY <2>1 DEF MirrorUser, Upserted
  <1>3. told' = told \cup {s} /\ ~SharedId(s)
    BY DEF MirrorUser
  <1>4. new.sub = sub /\ new.username = Username(s)
        /\ \A f \in {"name", "mail"} : new[f] = value(f)
    OBVIOUS
  <1>5. ASSUME NEW f \in {"name", "mail"}
        PROVE  \/ \E t \in told' : UserSub(t) = sub /\ t[f] # None /\ value(f) = t[f]
               \/ \A t \in told' : UserSub(t) = sub => t[f] = None
    <2>1. CASE s[f] # None
      <3>1. value(f) = s[f]
        BY <2>1
      <3> QED BY <1>3, <2>1, <3>1
    <2>2. CASE s[f] = None /\ known(f) = {}
      <3>1. \A a \in accounts : a.sub # sub
        BY <2>2 DEF AccountsOf
      <3>2. \A t \in told : UserSub(t) # sub
        BY <3>1 DEF AccountsKnown
      <3> QED BY <1>3, <2>2, <3>2
    <2>3. CASE s[f] = None /\ known(f) # {}
      <3>1. value(f) \in known(f)
        BY <2>3
      <3>2. PICK a \in accounts : a.sub = sub /\ a[f] = value(f)
        BY <3>1 DEF AccountsOf
      <3>3. \/ \E t \in told : UserSub(t) = a.sub /\ t[f] # None /\ a[f] = t[f]
            \/ \A t \in told : UserSub(t) = a.sub => t[f] = None
        BY <3>2 DEF AccountsKnown
      <3> QED BY <1>3, <2>3, <3>2, <3>3
    <2> QED BY <2>1, <2>2, <2>3
  <1> HIDE DEF new
  <1>6. \A a \in accounts : \E b \in accounts' : b.sub = a.sub
    BY <1>2, <1>4
  <1>7. \E b \in accounts' : b.sub = sub
    BY <1>2, <1>4
  <1>8. AccountsKnown'
    <2>1. \A a \in accounts' : a.sub \in Subs
      BY <1>1, <1>2, <1>4 DEF AccountsKnown
    <2>2. \A a, b \in accounts' : a.sub = b.sub => a = b
      BY <1>2, <1>4 DEF AccountsKnown
    <2>3. \A t \in told' : ~SharedId(t) /\ \E a \in accounts' : a.sub = UserSub(t)
      BY <1>3, <1>6, <1>7 DEF AccountsKnown
    <2>4. ASSUME NEW a \in accounts'
          PROVE  /\ \E t \in told' : UserSub(t) = a.sub /\ a.username = Username(t)
                 /\ \A f \in {"name", "mail"} :
                      \/ \E t \in told' : UserSub(t) = a.sub /\ t[f] # None /\ a[f] = t[f]
                      \/ \A t \in told' : UserSub(t) = a.sub => t[f] = None
      <3>1. CASE a = new
        BY <1>3, <1>4, <1>5, <3>1
      <3>2. CASE a # new
        <4>1. a \in accounts /\ a.sub # sub
          BY <1>2, <3>2
        <4>2. /\ \E t \in told : UserSub(t) = a.sub /\ a.username = Username(t)
              /\ \A f \in {"name", "mail"} :
                   \/ \E t \in told : UserSub(t) = a.sub /\ t[f] # None /\ a[f] = t[f]
                   \/ \A t \in told : UserSub(t) = a.sub => t[f] = None
          BY <4>1 DEF AccountsKnown
        <4> QED BY <1>3, <4>1, <4>2
      <3> QED BY <3>1, <3>2
    <2> QED BY <2>1, <2>2, <2>3, <2>4 DEF AccountsKnown
  <1> QED BY <1>3, <1>6, <1>7, <1>8
-----------------------------------------------------------------------------
(* The catalogue: from what is stated to an Item. *)
MetaFields == {"start", "end", "contact", "platform", "sensor", "licence", "producer",
               "uploader", "owner", "uploaderName"}
ItemFields == {"window", "producer", "platform", "gsd", "contact", "licence", "sensor", "owner",
               "uploader", "uploaderName", "exts", "links", "size", "estimated"}

LEMMA TimeOf == ASSUME NEW d \in Dates PROVE AsUtc(d) \in Int
  BY DEF Dates, AsUtc, Naive

LEMMA SanitizedFields ==
  ASSUME NEW m, DOMAIN m = MetaFields, m.start \in Dates, m.end \in Dates
  PROVE  /\ Sanitized(m).contact = NameParts(m.contact)
         /\ Sanitized(m).uploader = m.uploader /\ Sanitized(m).uploaderName = m.uploaderName
         /\ Sanitized(m).start \in Dates /\ Sanitized(m).end \in Dates
         /\ AsUtc(Sanitized(m).start) <= AsUtc(Sanitized(m).end)
         /\ {Sanitized(m).start, Sanitized(m).end} = {m.start, m.end}
  <1> DEFINE o == InOrder(m)
  <1>1. /\ DOMAIN o = MetaFields /\ o.contact = m.contact /\ o.uploader = m.uploader
        /\ o.uploaderName = m.uploaderName
    BY DEF InOrder, MetaFields
  <1>2. /\ o.start \in Dates /\ o.end \in Dates /\ AsUtc(o.start) <= AsUtc(o.end)
        /\ {o.start, o.end} = {m.start, m.end}
    <2>1. AsUtc(m.start) \in Int /\ AsUtc(m.end) \in Int
      BY TimeOf
    <2>2. CASE AsUtc(m.start) > AsUtc(m.end)
      <3>1. o.start = m.end /\ o.end = m.start
        BY <2>2 DEF InOrder, MetaFields
      <3> QED BY <2>1, <2>2, <3>1
    <2>3. CASE ~(AsUtc(m.start) > AsUtc(m.end))
      <3>1. o.start = m.start /\ o.end = m.end
        BY <2>3 DEF InOrder, MetaFields
      <3> QED BY <2>1, <2>3, <3>1
    <2> QED BY <2>2, <2>3
  <1> HIDE DEF o
  <1> DEFINE licence == IF o.licence = "by spaced" THEN "by" ELSE o.licence
             platform == IF o.platform = "UAV" THEN "uav" ELSE o.platform
             sensor == IF o.sensor = "unknown" THEN None ELSE o.sensor
             contact == NameParts(o.contact)
             z == [o EXCEPT !.licence = licence, !.platform = platform, !.sensor = sensor,
                            !.contact = contact]
  <1>3. Sanitized(m) = z
    BY DEF Sanitized, o
  <1> HIDE DEF licence, platform, sensor, contact
  <1>4. /\ z.contact = contact /\ z.uploader = o.uploader /\ z.uploaderName = o.uploaderName
        /\ z.start = o.start /\ z.end = o.end
    BY <1>1 DEF MetaFields
  <1> HIDE DEF z
  <1>5. contact = NameParts(m.contact)
    BY <1>1 DEF contact
  <1> QED BY <1>1, <1>2, <1>3, <1>4, <1>5

(* A window of one time, or two in order. *)
Window(i, times) ==
  /\ \A n \in 1..Len(i.window) - 1 : i.window[n] < i.window[n + 1]
  /\ ToSet(i.window) = times

LEMMA CreatedFields ==
  ASSUME NEW m, DOMAIN m = MetaFields, m.start \in Dates, m.end \in Dates
  PROVE  LET i == Created(Sanitized(m)) IN
         /\ DOMAIN i = ItemFields /\ i.contact = NameParts(m.contact)
         /\ i.uploader = m.uploader /\ i.uploaderName = m.uploaderName /\ i.estimated = None
         /\ i.exts \in [Extensions -> Nat]
         /\ Window(i, {AsUtc(m.start), AsUtc(m.end)})
  <1> DEFINE s == Sanitized(m)
             i == Created(s)
  <1>1. /\ s.contact = NameParts(m.contact)
        /\ s.uploader = m.uploader /\ s.uploaderName = m.uploaderName
        /\ s.start \in Dates /\ s.end \in Dates /\ AsUtc(s.start) <= AsUtc(s.end)
        /\ {s.start, s.end} = {m.start, m.end}
    BY SanitizedFields
  <1> HIDE DEF s
  <1>2. /\ DOMAIN i = ItemFields /\ i.contact = s.contact /\ i.uploader = s.uploader
        /\ i.uploaderName = s.uploaderName /\ i.estimated = None
    BY DEF Created, ItemFields
  <1>3. i.exts \in [Extensions -> Nat]
    <2>1. Own \in [Extensions -> Nat]
      BY DEF Own
    <2>2. Declares(Own, "alternate") \in [Extensions -> Nat]
      BY <2>1 DEF Declares
    <2>3. SetOamExtension(Declares(Own, "alternate")) \in [Extensions -> Nat]
      BY <2>2 DEF SetOamExtension
    <2> QED BY <2>3 DEF Created
  <1>4. Window(i, {AsUtc(m.start), AsUtc(m.end)})
    <2>1. PICK a \in Int, b \in Int : a = AsUtc(s.start) /\ b = AsUtc(s.end) /\ a <= b
      BY <1>1, TimeOf
    <2>2. {AsUtc(m.start), AsUtc(m.end)} = {a, b}
      BY <1>1, <2>1
    <2>3. i.window = IF a = b THEN <<a>> ELSE <<a, b>>
      BY <2>1 DEF Created
    <2> HIDE DEF i
    <2>4. CASE a = b
      <3>1. i.window = <<a>>
        BY <2>3, <2>4
      <3>2. ToSet(<<a>>) = {a}
        BY DEF ToSet
      <3> QED BY <2>2, <2>4, <3>1, <3>2 DEF Window
    <2>5. CASE a # b
      <3>1. i.window = <<a, b>>
        BY <2>3, <2>5
      <3>2. ToSet(<<a, b>>) = {a, b}
        BY DEF ToSet
      <3>3. a < b
        BY <2>1, <2>5
      <3> QED BY <2>2, <3>1, <3>2, <3>3 DEF Window
    <2> QED BY <2>4, <2>5
  <1> QED BY <1>1, <1>2, <1>3, <1>4 DEF s

(* What is stated first of the values there are. *)
LEMMA FirstOfStated ==
  ASSUME NEW n \in Nat, NEW s, DOMAIN s = 1..n, NEW k \in 1..n, s[k] # None,
         \A j \in 1..(k - 1) : s[j] = None
  PROVE  FirstStated(s) = s[k]
  <1>1. \A q \in 1..n : s[q] # None /\ (\A j \in 1..(q - 1) : s[j] = None) => q = k
    <2> SUFFICES ASSUME NEW q \in 1..n, s[q] # None, \A j \in 1..(q - 1) : s[j] = None
                 PROVE  q = k
      OBVIOUS
    <2>1. ~(q < k)
      <3>1. q < k => q \in 1..(k - 1)
        OBVIOUS
      <3> QED BY <3>1
    <2>2. ~(k < q)
      <3>1. k < q => k \in 1..(q - 1)
        OBVIOUS
      <3> QED BY <3>1
    <2> QED BY <2>1, <2>2
  <1>2. (CHOOSE q \in DOMAIN s : s[q] # None /\ \A j \in 1..(q - 1) : s[j] = None) = k
    BY <1>1
  <1> QED BY <1>2 DEF FirstStated

(* Of four values, one is stated if any is; of two, likewise. *)
LEMMA OneOfFour ==
  ASSUME NEW a, NEW b, NEW c, NEW d, ~(a = None /\ b = None /\ c = None /\ d = None)
  PROVE  FirstStated(<<a, b, c, d>>) # None
  <1> DEFINE s == <<a, b, c, d>>
  <1>1. DOMAIN s = 1..4 /\ s[1] = a /\ s[2] = b /\ s[3] = c /\ s[4] = d
    OBVIOUS
  <1> HIDE DEF s
  <1>2. PICK k \in 1..4 : s[k] # None /\ \A j \in 1..(k - 1) : s[j] = None
    <2>1. CASE a # None
      BY <1>1, <2>1
    <2>2. CASE a = None /\ b # None
      BY <1>1, <2>2
    <2>3. CASE a = None /\ b = None /\ c # None
      BY <1>1, <2>3
    <2>4. CASE a = None /\ b = None /\ c = None /\ d # None
      BY <1>1, <2>4
    <2> QED BY <2>1, <2>2, <2>3, <2>4
  <1>3. FirstStated(s) = s[k]
    BY <1>1, <1>2, FirstOfStated
  <1> QED BY <1>2, <1>3 DEF s

LEMMA OneOfTwo ==
  ASSUME NEW a, NEW b, ~(a = None /\ b = None)
  PROVE  FirstStated(<<a, b>>) # None
  <1> DEFINE s == <<a, b>>
  <1>1. DOMAIN s = 1..2 /\ s[1] = a /\ s[2] = b
    OBVIOUS
  <1> HIDE DEF s
  <1>2. PICK k \in 1..2 : s[k] # None /\ \A j \in 1..(k - 1) : s[j] = None
    <2>1. CASE a # None
      BY <1>1, <2>1
    <2>2. CASE a = None /\ b # None
      BY <1>1, <2>2
    <2> QED BY <2>1, <2>2
  <1>3. FirstStated(s) = s[k]
    BY <1>1, <1>2, FirstOfStated
  <1> QED BY <1>2, <1>3 DEF s

(* The provider's licence is the last resort. *)
LEMMA LicenceFound ==
  ASSUME NEW a, NEW b
  PROVE  /\ a # None => FirstStated(<<a, b, "nc">>) = a
         /\ a = None /\ b # None => FirstStated(<<a, b, "nc">>) = b
         /\ FirstStated(<<a, b, "nc">>) # None
  <1> DEFINE s == <<a, b, "nc">>
  <1>1. DOMAIN s = 1..3 /\ s[1] = a /\ s[2] = b /\ s[3] = "nc"
    OBVIOUS
  <1> HIDE DEF s
  <1>2. ASSUME a # None PROVE FirstStated(s) = a
    <2>1. PICK k \in 1..3 : k = 1 /\ s[k] # None /\ \A j \in 1..(k - 1) : s[j] = None
      BY <1>1, <1>2
    <2>2. FirstStated(s) = s[k]
      BY <1>1, <2>1, FirstOfStated
    <2> QED BY <1>1, <2>1, <2>2
  <1>3. ASSUME a = None, b # None PROVE FirstStated(s) = b
    <2>1. PICK k \in 1..3 : k = 2 /\ s[k] # None /\ \A j \in 1..(k - 1) : s[j] = None
      BY <1>1, <1>3
    <2>2. FirstStated(s) = s[k]
      BY <1>1, <2>1, FirstOfStated
    <2> QED BY <1>1, <2>1, <2>2
  <1>4. ASSUME a = None, b = None PROVE FirstStated(s) = "nc"
    <2>1. PICK k \in 1..3 : k = 3 /\ s[k] # None /\ \A j \in 1..(k - 1) : s[j] = None
      BY <1>1, <1>4 DEF None
    <2>2. FirstStated(s) = s[k]
      BY <1>1, <2>1, FirstOfStated
    <2> QED BY <1>1, <2>1, <2>2
  <1>5. "nc" # None
    BY DEF None
  <1> QED BY <1>2, <1>3, <1>4, <1>5 DEF s

Declared(x) == (\A e \in Extensions : x[e] <= 1) /\ x["oam"] = 1 /\ x["oam-old"] = 0

LEMMA DeclaredStill ==
  ASSUME NEW x \in [Extensions -> Nat], Declared(x), NEW e \in Extensions \ {"oam", "oam-old"}
  PROVE  Declares(x, e) \in [Extensions -> Nat] /\ Declared(Declares(x, e))
  <1>1. CASE x[e] > 0
    BY <1>1 DEF Declares
  <1>2. CASE ~(x[e] > 0)
    <2> DEFINE y == [x EXCEPT ![e] = 1]
    <2>1. Declares(x, e) = y
      BY <1>2 DEF Declares
    <2>2. y \in [Extensions -> Nat] /\ y[e] = 1 /\ \A g \in Extensions \ {e} : y[g] = x[g]
      OBVIOUS
    <2> HIDE DEF y
    <2>3. "oam" \in Extensions \ {e} /\ "oam-old" \in Extensions \ {e}
      BY DEF Extensions
    <2>4. Declared(y)
      BY <2>2, <2>3 DEF Declared
    <2> QED BY <2>1, <2>2, <2>4
  <1> QED BY <1>1, <1>2
-----------------------------------------------------------------------------
(* The catalogue: what an Item says, built or published. *)
SaysWhen(i) ==
  stated.road # "provider" =>
    /\ \A n \in 1..Len(i.window) - 1 : i.window[n] < i.window[n + 1]
    /\ IF Usable(stated.start)
         THEN /\ i.estimated = None
              /\ ToSet(i.window) = {AsUtc(stated.start)}
                   \cup (IF Usable(stated.end) THEN {AsUtc(stated.end)} ELSE {})
         ELSE i.estimated # None

SaysNobody(i) ==
  /\ \A p \in i.contact : "mail" \notin p
  /\ stated.road = "form" /\ stated.anonymous =>
       i.uploaderName = None /\ \A p \in i.contact : "name" \notin p

SaysProvider(i) ==
  /\ Valid(i)
  /\ stated.road = "provider" =>
       /\ i.licence \in CC
       /\ stated.licence # None => i.licence = stated.licence
       /\ stated.licence = None /\ stated.rootLicence # None => i.licence = stated.rootLicence
       /\ {stated.sensor, stated.instrument, stated.platform, stated.constellation} # {None}
            => i.sensor # None
       /\ stated.catalog = "vantor" /\ stated.vehicle # None => i.sensor # None

SaysOwner(i) ==
  stated.road = "form" /\ ~stated.anonymous =>
    /\ \E a \in accounts : a.sub = i.uploader
    /\ i.uploader \in Subs
    /\ \E s \in told : UserSub(s) = i.uploader /\ i.uploaderName = Username(s)

Says(i) == SaysWhen(i) /\ SaysNobody(i) /\ SaysProvider(i) /\ SaysOwner(i)

StatedKnown ==
  /\ clock \in Nat
  /\ stated = Nothing \/ stated \in Legacies \cup Offers \cup Forms \cup Imports
  /\ stated = Nothing => meta = Nothing /\ built = NoItem /\ item = NoItem

MetaKnown ==
  \/ meta = Nothing
  \/ stated \in Forms /\ Acceptable(stated) /\ \E s \in told : meta = Cleaned(stated, s)
  \/ stated \in Imports /\ meta = stated

BuiltKnown == built = NoItem \/ (DOMAIN built = ItemFields /\ Says(built))
ItemKnown  == item = NoItem \/ Says(item)

ItemInv == AccountsKnown /\ StatedKnown /\ MetaKnown /\ BuiltKnown /\ ItemKnown

LEMMA ItemHolds == ItemInv => ItemAsStated
  <1> SUFFICES ASSUME ItemInv PROVE ItemAsStated
    OBVIOUS
  <1>1. item # NoItem => Says(item)
    BY DEF ItemInv, ItemKnown
  <1>2. WindowAsStated
    BY <1>1 DEF WindowAsStated, Published, Says, SaysWhen
  <1>3. ProviderHeard
    BY <1>1 DEF ProviderHeard, Published, Says, SaysProvider
  <1>4. NobodyNamed
    BY <1>1 DEF NobodyNamed, Published, Says, SaysNobody
  <1>5. AccountsKnown
    BY DEF ItemInv
  <1>6. ASSUME Published(item), stated.road = "form", ~stated.anonymous
        PROVE  /\ item.uploader \in {a.sub : a \in accounts}
               /\ item.uploaderName \in {Username(s) : s \in ToldBy(item.uploader)}
    <2>1. /\ \E a \in accounts : a.sub = item.uploader
          /\ item.uploader \in Subs
          /\ \E s \in told : UserSub(s) = item.uploader /\ item.uploaderName = Username(s)
      BY <1>1, <1>6 DEF Published, Says, SaysOwner
    <2>2. ToldBy(item.uploader) = {s \in told : UserSub(s) = item.uploader}
      BY <2>1, ToldOf
    <2> QED BY <2>1, <2>2
  <1>7. OwnerKnown
    BY <1>5, <1>6, OwnersKnown DEF OwnerKnown
  <1> QED BY <1>2, <1>3, <1>4, <1>7 DEF ItemAsStated

LEMMA ItemStarts == ItemInit => ItemInv
  BY AccountsStart DEF ItemInit, ItemInv, StatedKnown, MetaKnown, BuiltKnown, ItemKnown

LEMMA RoadOf ==
  ASSUME ItemInv
  PROVE  /\ stated.road = "legacy" => stated \in Legacies
         /\ stated.road = "provider" => stated \in Offers
         /\ stated.road = "form" => stated \in Forms
         /\ stated.road = "import" => stated \in Imports
         /\ stated \in Forms => stated.road = "form"
         /\ stated \in Imports => stated.road = "import"
  <1>1. stated = Nothing \/ stated \in Legacies \cup Offers \cup Forms \cup Imports
    BY DEF ItemInv, StatedKnown
  <1>2. stated = Nothing => stated.road = "none"
    BY DEF Nothing, None
  <1>3. stated \in Legacies => stated.road = "legacy"
    BY EntriesState
  <1>4. stated \in Offers => stated.road = "provider"
    BY ProvidersState
  <1>5. stated \in Forms => stated.road = "form"
    BY FormsState
  <1>6. stated \in Imports => stated.road = "import"
    BY ImportsState
  <1> QED BY <1>1, <1>2, <1>3, <1>4, <1>5, <1>6

LEMMA DescribeKeeps ==
  ASSUME ItemInv, Describe
  PROVE  ItemInv'
  <1>1. meta = Nothing /\ built = NoItem /\ item = NoItem /\ clock \in Nat
    BY DEF ItemInv, StatedKnown, Describe
  <1>2. UNCHANGED <<meta, built, item, accounts, told, clock>>
        /\ stated' \in Legacies \cup Offers \cup Forms \cup Imports
    BY DEF Describe, userVars
  <1>3. AccountsKnown'
    BY <1>2 DEF ItemInv, AccountsKnown
  <1>4. StatedKnown' /\ MetaKnown' /\ BuiltKnown' /\ ItemKnown'
    BY <1>1, <1>2 DEF StatedKnown, MetaKnown, BuiltKnown, ItemKnown
  <1> QED BY <1>3, <1>4 DEF ItemInv

(* While nobody describes anything, what is said stays so as accounts are added to. *)
LEMMA SaysStill ==
  ASSUME ItemInv, stated' = stated, told \subseteq told',
         \A a \in accounts : \E b \in accounts' : b.sub = a.sub, NEW i, Says(i)
  PROVE  Says(i)'
  <1>1. SaysWhen(i)' /\ SaysNobody(i)' /\ SaysProvider(i)'
    BY DEF Says, SaysWhen, SaysNobody, SaysProvider
  <1>2. SaysOwner(i)'
    BY DEF Says, SaysOwner
  <1> QED BY <1>1, <1>2 DEF Says

LEMMA SignInKeeps ==
  ASSUME ItemInv, NEW s, MirrorUser(s), UNCHANGED <<stated, built, item, clock>>,
         stated # Nothing,
         \/ meta' = meta
         \/ stated \in Forms /\ Acceptable(stated) /\ meta' = Cleaned(stated, s)
  PROVE  ItemInv'
  <1>1. /\ AccountsKnown' /\ told' = told \cup {s}
        /\ \A a \in accounts : \E b \in accounts' : b.sub = a.sub
    BY MirrorKeeps DEF ItemInv
  <1>2. \A i : Says(i) => Says(i)'
    BY <1>1, SaysStill
  <1>3. StatedKnown'
    BY DEF ItemInv, StatedKnown
  <1>4. MetaKnown'
    <2>1. CASE meta' = meta
      BY <1>1, <2>1 DEF ItemInv, MetaKnown, Acceptable, Cleaned
    <2>2. CASE stated \in Forms /\ Acceptable(stated) /\ meta' = Cleaned(stated, s)
      BY <1>1, <2>2 DEF MetaKnown, Acceptable, Cleaned
    <2> QED BY <2>1, <2>2
  <1>5. BuiltKnown'
    BY <1>2 DEF ItemInv, BuiltKnown
  <1>6. ItemKnown'
    BY <1>2 DEF ItemInv, ItemKnown
  <1> QED BY <1>1, <1>3, <1>4, <1>5, <1>6 DEF ItemInv

LEMMA PlainKeeps ==
  ASSUME ItemInv, UNCHANGED <<stated, accounts, told>>, stated # Nothing, clock' \in Nat,
         meta' = meta \/ (stated \in Imports /\ meta' = stated),
         NEW b, NEW i, built' = b, item' = i,
         b = built \/ (DOMAIN b = ItemFields /\ Says(b)), i = item \/ Says(i)
  PROVE  ItemInv'
  <1>1. AccountsKnown'
    BY DEF ItemInv, AccountsKnown
  <1>2. \A j : Says(j) => Says(j)'
    BY SaysStill
  <1>3. StatedKnown'
    BY DEF ItemInv, StatedKnown
  <1>4. MetaKnown'
    <2>1. CASE meta' = meta
      BY <2>1 DEF ItemInv, MetaKnown, Acceptable, Cleaned
    <2>2. CASE stated \in Imports /\ meta' = stated
      BY <2>2 DEF MetaKnown
    <2> QED BY <2>1, <2>2
  <1>5. BuiltKnown'
    BY <1>2 DEF ItemInv, BuiltKnown
  <1>6. ItemKnown'
    BY <1>2 DEF ItemInv, ItemKnown
  <1> QED BY <1>1, <1>3, <1>4, <1>5, <1>6 DEF ItemInv

LEMMA SyncLegacyKeeps ==
  ASSUME ItemInv, SyncLegacy
  PROVE  ItemInv'
  <1>1. /\ stated.road = "legacy" /\ Usable(stated.start) /\ Usable(stated.end)
        /\ UNCHANGED <<stated, meta, built, accounts, told, clock>>
        /\ Valid(Created(Sanitized(LegacyMetadata(stated))))
        /\ item' = Created(Sanitized(LegacyMetadata(stated)))
    BY DEF SyncLegacy, userVars
  <1>2. stated \in Legacies
    BY <1>1, RoadOf
  <1>3. stated.start \in Dates /\ stated.end \in Dates
    BY <1>2, EntriesState
  <1>4. PICK m : m = LegacyMetadata(stated)
    OBVIOUS
  <1>5. DOMAIN m = MetaFields /\ m.start = stated.start /\ m.end = stated.end
    BY <1>4 DEF LegacyMetadata, MetaFields
  <1>6. PICK i : i = Created(Sanitized(m))
    OBVIOUS
  <1>7. /\ i.contact = NameParts(m.contact) /\ i.estimated = None
        /\ Window(i, {AsUtc(m.start), AsUtc(m.end)})
    BY <1>3, <1>5, <1>6, CreatedFields
  <1>8. SaysWhen(i)
    BY <1>1, <1>5, <1>7 DEF SaysWhen, Window
  <1>9. SaysNobody(i)
    BY <1>1, <1>7 DEF SaysNobody, NameParts
  <1>10. SaysProvider(i) /\ SaysOwner(i)
    BY <1>1, <1>4, <1>6 DEF SaysProvider, SaysOwner
  <1>11. Says(i)
    BY <1>8, <1>9, <1>10 DEF Says
  <1>12. stated # Nothing
    BY <1>1 DEF Nothing, None
  <1>13. PICK b : b = built
    OBVIOUS
  <1>14. clock' \in Nat
    BY <1>1 DEF ItemInv, StatedKnown
  <1> QED BY <1>1, <1>4, <1>6, <1>11, <1>12, <1>13, <1>14, PlainKeeps

LEMMA PreparedFields ==
  ASSUME NEW o \in Offers
  PROVE  /\ Prepared(o).licence = o.licence /\ Prepared(o).rootLicence = o.rootLicence
         /\ Prepared(o).sensor = o.sensor /\ Prepared(o).instrument = o.instrument
         /\ Prepared(o).constellation = o.constellation
         /\ o.platform # None => Prepared(o).platform # None
         /\ o.catalog = "vantor" /\ o.vehicle # None => Prepared(o).platform # None
  <1>1. {"licence", "rootLicence", "sensor", "instrument", "constellation", "platform", "gsd"}
          \subseteq DOMAIN o
    BY ProvidersState
  <1>2. CASE o.catalog = "vantor"
    <2> DEFINE p == [o EXCEPT !.gsd = FirstStated(<<o.gsd, o.panGsd>>),
                              !.platform = FirstStated(<<o.platform, o.vehicle>>)]
    <2>1. Prepared(o) = p
      BY <1>2 DEF Prepared
    <2>2. /\ p.licence = o.licence /\ p.rootLicence = o.rootLicence /\ p.sensor = o.sensor
          /\ p.instrument = o.instrument /\ p.constellation = o.constellation
          /\ p.platform = FirstStated(<<o.platform, o.vehicle>>)
      BY <1>1
    <2> HIDE DEF p
    <2> QED BY <2>1, <2>2, OneOfTwo
  <1>3. CASE o.catalog # "vantor"
    BY <1>3 DEF Prepared
  <1> QED BY <1>2, <1>3

LEMMA SyncProviderKeeps ==
  ASSUME ItemInv, SyncProvider
  PROVE  ItemInv'
  <1>1. stated.road = "provider" /\ UNCHANGED <<stated, meta, built, accounts, told, clock>>
    BY DEF SyncProvider, userVars
  <1>2. PICK answer \in {"stated", None} :
          Valid(Rewritten(stated, answer)) /\ item' = Rewritten(stated, answer)
    BY DEF SyncProvider
  <1>3. stated \in Offers
    BY <1>1, RoadOf
  <1>4. PICK p : p = Prepared(stated)
    OBVIOUS
  <1>5. /\ p.licence = stated.licence /\ p.rootLicence = stated.rootLicence
        /\ p.sensor = stated.sensor /\ p.instrument = stated.instrument
        /\ p.constellation = stated.constellation
        /\ stated.platform # None => p.platform # None
        /\ stated.catalog = "vantor" /\ stated.vehicle # None => p.platform # None
    BY <1>3, <1>4, PreparedFields
  <1>6. PICK i : i = Rewritten(stated, answer)
    OBVIOUS
  <1>7. i.contact = {} /\ i.licence = LicenceOf(p) /\ i.sensor = SensorOf(p)
    BY <1>4, <1>6 DEF Rewritten
  <1>8. /\ stated.licence # None => i.licence = stated.licence
        /\ stated.licence = None /\ stated.rootLicence # None => i.licence = stated.rootLicence
        /\ i.licence # None
    BY <1>5, <1>7, LicenceFound DEF LicenceOf
  <1>9. i.licence \in CC
    BY <1>2, <1>6, <1>8 DEF Valid
  <1>10. ASSUME p.sensor # None \/ p.instrument # None \/ p.platform # None \/ p.constellation # None
         PROVE  i.sensor # None
    BY <1>7, <1>10, OneOfFour DEF SensorOf
  <1>11. SaysProvider(i)
    BY <1>2, <1>5, <1>6, <1>8, <1>9, <1>10 DEF SaysProvider
  <1>12. SaysWhen(i) /\ SaysNobody(i) /\ SaysOwner(i)
    BY <1>1, <1>7 DEF SaysWhen, SaysNobody, SaysOwner
  <1>13. Says(i)
    BY <1>11, <1>12 DEF Says
  <1>14. stated # Nothing
    BY <1>1 DEF Nothing, None
  <1>15. PICK b : b = built
    OBVIOUS
  <1>16. clock' \in Nat
    BY <1>1 DEF ItemInv, StatedKnown
  <1> QED BY <1>1, <1>2, <1>6, <1>13, <1>14, <1>15, <1>16, PlainKeeps

LEMMA SignInOrAcceptKeeps ==
  ASSUME ItemInv, SignIn \/ Accept
  PROVE  ItemInv'
  <1>1. CASE SignIn
    <2>1. PICK s \in Sessions : MirrorUser(s)
      BY <1>1 DEF SignIn
    <2>2. UNCHANGED <<stated, meta, built, item, clock>> /\ stated # Nothing
      BY <1>1 DEF SignIn, Nothing, None
    <2> QED BY <2>1, <2>2, SignInKeeps
  <1>2. CASE Accept
    <2>1. PICK s \in Sessions : MirrorUser(s) /\ meta' = Cleaned(stated, s)
      BY <1>2 DEF Accept
    <2>2. /\ UNCHANGED <<stated, built, item, clock>> /\ stated # Nothing
          /\ stated.road = "form" /\ Acceptable(stated)
      BY <1>2 DEF Accept, Nothing, None
    <2>3. stated \in Forms
      BY <2>2, RoadOf
    <2> QED BY <2>1, <2>2, <2>3, SignInKeeps
  <1> QED BY <1>1, <1>2

LEMMA HandOverKeeps ==
  ASSUME ItemInv, HandOver
  PROVE  ItemInv'
  <1>1. /\ stated.road = "import" /\ meta' = stated
        /\ UNCHANGED <<stated, built, item, accounts, told, clock>>
    BY DEF HandOver, userVars
  <1>2. stated \in Imports /\ stated # Nothing /\ clock' \in Nat
    BY <1>1, RoadOf DEF Nothing, None, ItemInv, StatedKnown
  <1>3. PICK b, i : b = built /\ i = item
    OBVIOUS
  <1> QED BY <1>1, <1>2, <1>3, PlainKeeps

(* What the metadata step reads is what the form said, with its times in one zone. *)
LEMMA MetaRead ==
  ASSUME ItemInv, meta # Nothing
  PROVE  /\ stated \in Forms \cup Imports /\ stated.tags \in Dates
         /\ meta.start \in Dates /\ meta.end \in Dates
         /\ Usable(meta.start) <=> Usable(stated.start)
         /\ Usable(meta.start) => AsUtc(meta.start) = AsUtc(stated.start)
         /\ Usable(meta.end) <=> Usable(stated.end)
         /\ Usable(meta.end) => AsUtc(meta.end) = AsUtc(stated.end)
         /\ stated.road = "form" /\ stated.anonymous =>
              meta.contact = {} /\ meta.uploader = "custom|anonymous"
         /\ stated.road = "form" /\ ~stated.anonymous =>
              \E s \in told : meta.uploader = UserSub(s)
  <1>1. ASSUME NEW d \in Dates
        PROVE  Zoned(d) \in Dates /\ AsUtc(Zoned(d)) = AsUtc(d) /\ Usable(Zoned(d))
    <2>1. PICK t \in Int : t = AsUtc(d)
      BY TimeOf
    <2> QED BY <2>1 DEF Zoned, AsUtc, Naive, Usable, Dates
  <1>2. CASE stated \in Forms /\ Acceptable(stated) /\ \E s \in told : meta = Cleaned(stated, s)
    <2>1. PICK s \in told : meta = Cleaned(stated, s)
      BY <1>2
    <2>2. /\ stated.start \in Dates /\ stated.end \in Dates /\ stated.tags \in Dates
          /\ stated.anonymous \in BOOLEAN
      BY <1>2, FormsState
    <2>3. /\ Usable(stated.start)
          /\ stated.end.is # None => Usable(stated.end)
      BY <1>2 DEF Acceptable
    <2>4. /\ meta.start = Zoned(stated.start)
          /\ meta.end = IF stated.end.is = None THEN NoDate ELSE Zoned(stated.end)
          /\ meta.uploader = IF stated.anonymous THEN "custom|anonymous" ELSE UserSub(s)
          /\ stated.anonymous => meta.contact = {}
      BY <2>1 DEF Cleaned
    <2>5. NoDate \in Dates /\ ~Usable(NoDate)
      BY DEF NoDate, Dates, Usable, None
    <2>6. stated.end.is = None => ~Usable(stated.end)
      BY DEF Usable, None
    <2>7. /\ meta.start \in Dates /\ Usable(meta.start) /\ AsUtc(meta.start) = AsUtc(stated.start)
      BY <1>1, <2>2, <2>4
    <2>8. /\ meta.end \in Dates
          /\ Usable(meta.end) <=> Usable(stated.end)
          /\ Usable(meta.end) => AsUtc(meta.end) = AsUtc(stated.end)
      BY <1>1, <2>2, <2>3, <2>4, <2>5, <2>6
    <2>9. \/ stated.anonymous /\ meta.contact = {} /\ meta.uploader = "custom|anonymous"
          \/ ~stated.anonymous /\ meta.uploader = UserSub(s)
      BY <2>2, <2>4
    <2> QED BY <1>2, <2>2, <2>3, <2>7, <2>8, <2>9
  <1>3. CASE stated \in Imports /\ meta = stated
    <2>1. /\ stated.start \in Dates /\ stated.end \in Dates /\ stated.tags \in Dates
          /\ stated.road = "import"
      BY <1>3, ImportsState
    <2> QED BY <1>3, <2>1
  <1> QED BY <1>2, <1>3 DEF ItemInv, MetaKnown

(* The account an Item names is the one whose session was checked. *)
LEMMA NameOfAccount ==
  ASSUME AccountsKnown
  PROVE  /\ \A m : m.uploader \notin Subs => UploaderName(m) = None
         /\ \A m, s : s \in told /\ m.uploader = UserSub(s) =>
              /\ \E a \in accounts : a.sub = m.uploader
              /\ m.uploader \in Subs
              /\ \E t \in told : UserSub(t) = m.uploader /\ UploaderName(m) = Username(t)
  <1>1. ASSUME NEW m, m.uploader \notin Subs PROVE UploaderName(m) = None
    BY <1>1 DEF AccountsKnown, AccountsOf, UploaderName
  <1>2. ASSUME NEW m, NEW s, s \in told, m.uploader = UserSub(s)
        PROVE  /\ \E a \in accounts : a.sub = m.uploader
               /\ m.uploader \in Subs
               /\ \E t \in told : UserSub(t) = m.uploader /\ UploaderName(m) = Username(t)
    <2>1. PICK a \in accounts : a.sub = m.uploader
      BY <1>2 DEF AccountsKnown
    <2>2. AccountsOf(m.uploader) # {}
      BY <2>1 DEF AccountsOf
    <2>3. PICK c : c = CHOOSE x \in AccountsOf(m.uploader) : TRUE
      OBVIOUS
    <2>4. c \in accounts /\ c.sub = m.uploader /\ UploaderName(m) = c.username
      BY <2>2, <2>3 DEF AccountsOf, UploaderName
    <2>5. PICK t \in told : UserSub(t) = c.sub /\ c.username = Username(t)
      BY <2>4 DEF AccountsKnown
    <2>6. m.uploader \in Subs
      BY <1>2 DEF UserSub, Subs
    <2> QED BY <2>1, <2>4, <2>5, <2>6
  <1> QED BY <1>1, <1>2

LEMMA BuildItemKeeps ==
  ASSUME ItemInv, BuildItem
  PROVE  ItemInv'
  <1>1. /\ meta # Nothing /\ UNCHANGED <<stated, meta, item, accounts, told, clock>>
    BY DEF BuildItem, userVars
  <1>2. PICK m : m = PipelineMetadata(meta, stated.tags, stated.camera)
    OBVIOUS
  <1>3. PICK i : i = Created(Sanitized(m))
    OBVIOUS
  <1>4. PICK x, est, links :
          /\ x = Declares(Declares(i.exts, "render"), "eo")
          /\ est = AcquisitionSource(meta, stated.tags)
          /\ links = IF meta.backlink = "http" THEN {"via"} ELSE {}
    OBVIOUS
  <1>5. PICK b : b = [i EXCEPT !.estimated = est, !.exts = x, !.links = links]
    OBVIOUS
  <1>6. Valid(i) /\ built' = b
    BY <1>2, <1>3, <1>4, <1>5 DEF BuildItem
  <1>7. /\ stated \in Forms \cup Imports /\ stated.tags \in Dates
        /\ meta.start \in Dates /\ meta.end \in Dates
        /\ Usable(meta.start) <=> Usable(stated.start)
        /\ Usable(meta.start) => AsUtc(meta.start) = AsUtc(stated.start)
        /\ Usable(meta.end) <=> Usable(stated.end)
        /\ Usable(meta.end) => AsUtc(meta.end) = AsUtc(stated.end)
        /\ stated.road = "form" /\ stated.anonymous =>
             meta.contact = {} /\ meta.uploader = "custom|anonymous"
        /\ stated.road = "form" /\ ~stated.anonymous =>
             \E s \in told : meta.uploader = UserSub(s)
    BY <1>1, MetaRead
  <1>8. /\ DOMAIN m = MetaFields /\ m.start = Acquired(meta, stated.tags)
        /\ m.end = (IF Usable(meta.end) THEN meta.end ELSE m.start)
        /\ m.contact = (IF meta.contact # {} THEN meta.contact ELSE {{"producer"}})
        /\ m.uploader = meta.uploader /\ m.uploaderName = UploaderName(meta)
    BY <1>2 DEF PipelineMetadata, MetaFields
  <1>9. m.start \in Dates
    <2>1. clock \in Nat
      BY DEF ItemInv, StatedKnown
    <2>2. UtcAt(clock) \in Dates
      BY <2>1 DEF UtcAt, Dates
    <2>3. Zoned(stated.tags) \in Dates
      <3>1. PICK t \in Int : t = AsUtc(stated.tags)
        BY <1>7, TimeOf
      <3> QED BY <3>1 DEF Zoned, Dates
    <2> QED BY <1>7, <1>8, <2>2, <2>3 DEF Acquired
  <1>10. m.end \in Dates
    BY <1>7, <1>8, <1>9
  <1>11. /\ DOMAIN i = ItemFields /\ i.contact = NameParts(m.contact)
         /\ i.uploader = m.uploader /\ i.uploaderName = m.uploaderName /\ i.estimated = None
         /\ i.exts \in [Extensions -> Nat]
         /\ Window(i, {AsUtc(m.start), AsUtc(m.end)})
    BY <1>3, <1>8, <1>9, <1>10, CreatedFields
  <1>12. /\ DOMAIN b = ItemFields /\ b.window = i.window /\ b.contact = i.contact
         /\ b.uploader = i.uploader /\ b.uploaderName = i.uploaderName /\ b.gsd = i.gsd
         /\ b.platform = i.platform /\ b.licence = i.licence /\ b.estimated = est /\ b.exts = x
    BY <1>5, <1>11 DEF ItemFields
  <1>13. Valid(b)
    <2>1. Declared(i.exts)
      BY <1>6 DEF Valid, Declared
    <2>2. {"render", "eo"} \subseteq Extensions \ {"oam", "oam-old"}
      BY DEF Extensions
    <2>3. PICK y : y = Declares(i.exts, "render")
      OBVIOUS
    <2>4. y \in [Extensions -> Nat] /\ Declared(y)
      BY <1>11, <2>1, <2>2, <2>3, DeclaredStill
    <2>5. Declared(x)
      BY <1>4, <2>2, <2>3, <2>4, DeclaredStill
    <2> QED BY <1>6, <1>12, <2>5 DEF Valid, Declared
  <1>14. stated.road \in {"form", "import"}
    BY <1>7, FormsState, ImportsState
  <1>15. SaysWhen(b)
    <2>1. \A n \in 1..Len(b.window) - 1 : b.window[n] < b.window[n + 1]
      BY <1>11, <1>12 DEF Window
    <2>2. CASE Usable(stated.start)
      <3>1. est = None
        BY <1>4, <1>7, <2>2 DEF AcquisitionSource
      <3>2. AsUtc(m.start) = AsUtc(stated.start)
        BY <1>7, <1>8, <2>2 DEF Acquired
      <3>3. AsUtc(m.end) = IF Usable(stated.end) THEN AsUtc(stated.end) ELSE AsUtc(stated.start)
        BY <1>7, <1>8, <3>2
      <3>4. ToSet(b.window) = {AsUtc(stated.start)}
              \cup (IF Usable(stated.end) THEN {AsUtc(stated.end)} ELSE {})
        BY <1>11, <1>12, <3>2, <3>3 DEF Window
      <3> QED BY <1>12, <2>1, <2>2, <3>1, <3>4 DEF SaysWhen
    <2>3. CASE ~Usable(stated.start)
      <3>1. est # None
        BY <1>4, <1>7, <2>3 DEF AcquisitionSource, None
      <3> QED BY <1>12, <2>1, <2>3, <3>1 DEF SaysWhen
    <2> QED BY <2>2, <2>3
  <1>16. AccountsKnown
    BY DEF ItemInv
  <1>17. SaysNobody(b)
    <2>1. \A p \in b.contact : "mail" \notin p
      BY <1>11, <1>12 DEF NameParts
    <2>2. ASSUME stated.road = "form", stated.anonymous
          PROVE  b.uploaderName = None /\ \A p \in b.contact : "name" \notin p
      <3>1. meta.contact = {} /\ meta.uploader \notin Subs
        BY <1>7, <2>2 DEF Subs
      <3>2. UploaderName(meta) = None
        BY <1>16, <3>1, NameOfAccount
      <3>3. m.contact = {{"producer"}}
        BY <1>8, <3>1
      <3> QED BY <1>8, <1>11, <1>12, <3>2, <3>3 DEF NameParts
    <2> QED BY <2>1, <2>2 DEF SaysNobody
  <1>18. SaysOwner(b)
    <2>1. ASSUME stated.road = "form", ~stated.anonymous
          PROVE  /\ \E a \in accounts : a.sub = b.uploader
                 /\ b.uploader \in Subs
                 /\ \E s \in told : UserSub(s) = b.uploader /\ b.uploaderName = Username(s)
      <3>1. PICK s \in told : meta.uploader = UserSub(s)
        BY <1>7, <2>1
      <3>2. b.uploader = meta.uploader /\ b.uploaderName = UploaderName(meta)
        BY <1>8, <1>11, <1>12
      <3> QED BY <1>16, <3>1, <3>2, NameOfAccount
    <2> QED BY <2>1 DEF SaysOwner
  <1>19. SaysProvider(b)
    BY <1>13, <1>14 DEF SaysProvider
  <1>20. Says(b)
    BY <1>15, <1>17, <1>18, <1>19 DEF Says
  <1>21. stated # Nothing
    BY <1>14 DEF Nothing, None
  <1>22. clock' \in Nat
    BY <1>1 DEF ItemInv, StatedKnown
  <1>23. PICK j : j = item
    OBVIOUS
  <1> QED BY <1>1, <1>6, <1>12, <1>20, <1>21, <1>22, <1>23, PlainKeeps

LEMMA RegisterKeeps ==
  ASSUME ItemInv, Register
  PROVE  ItemInv'
  <1>1. /\ built # NoItem /\ UNCHANGED <<stated, meta, built, accounts, told, clock>>
        /\ item' = Member(built)
    BY DEF Register, userVars
  <1>2. DOMAIN built = ItemFields /\ Says(built)
    BY <1>1 DEF ItemInv, BuiltKnown
  <1>3. PICK links : links = built.links \cup {"collection", "parent"}
    OBVIOUS
  <1>4. PICK i : i = [built EXCEPT !.links = links]
    OBVIOUS
  <1>5. item' = i
    BY <1>1, <1>3, <1>4 DEF Member
  <1>6. \A f \in ItemFields \ {"links"} : i[f] = built[f]
    BY <1>2, <1>4
  <1>7. /\ i.window = built.window /\ i.contact = built.contact /\ i.estimated = built.estimated
        /\ i.uploader = built.uploader /\ i.uploaderName = built.uploaderName
        /\ i.exts = built.exts /\ i.gsd = built.gsd /\ i.platform = built.platform
        /\ i.licence = built.licence /\ i.sensor = built.sensor
    BY <1>6 DEF ItemFields
  <1>8. SaysWhen(i) /\ SaysNobody(i)
    BY <1>2, <1>7 DEF Says, SaysWhen, SaysNobody
  <1>9. SaysProvider(i) /\ SaysOwner(i)
    BY <1>2, <1>7 DEF Says, SaysProvider, SaysOwner, Valid
  <1>10. Says(i)
    BY <1>8, <1>9 DEF Says
  <1>11. stated # Nothing /\ clock' \in Nat
    BY <1>1 DEF ItemInv, StatedKnown
  <1>12. PICK b : b = built
    OBVIOUS
  <1> QED BY <1>1, <1>5, <1>10, <1>11, <1>12, PlainKeeps

LEMMA ItemSteps ==
  ASSUME ItemInv, [ItemNext]_itemVars
  PROVE  ItemInv'
  <1>1. CASE TimePassesBy
    <2>1. /\ stated.road \in {"form", "import"} /\ clock' = clock + 1
          /\ UNCHANGED <<stated, meta, built, item, accounts, told>>
      BY <1>1 DEF TimePassesBy, userVars
    <2>2. stated # Nothing /\ clock' \in Nat
      BY <2>1 DEF Nothing, None, ItemInv, StatedKnown
    <2>3. PICK b, i : b = built /\ i = item
      OBVIOUS
    <2> QED BY <2>1, <2>2, <2>3, PlainKeeps
  <1>2. CASE UNCHANGED itemVars
    <2>1. UNCHANGED <<stated, meta, built, item, accounts, told, clock>>
      BY <1>2 DEF itemVars, userVars
    <2>2. AccountsKnown'
      BY <2>1 DEF ItemInv, AccountsKnown
    <2>3. StatedKnown' /\ MetaKnown'
      BY <2>1 DEF ItemInv, StatedKnown, MetaKnown, Acceptable, Cleaned
    <2>4. \A i : Says(i) => Says(i)'
      BY <2>1, SaysStill
    <2>5. BuiltKnown' /\ ItemKnown'
      BY <2>1, <2>4 DEF ItemInv, BuiltKnown, ItemKnown
    <2> QED BY <2>2, <2>3, <2>5 DEF ItemInv
  <1> QED BY <1>1, <1>2, DescribeKeeps, SyncLegacyKeeps, SyncProviderKeeps, SignInOrAcceptKeeps,
             HandOverKeeps, BuildItemKeeps, RegisterKeeps DEF ItemNext

(* An Item says what its source stated: when it was taken, in order and in one time
   zone, or that this is an estimate; under which licence and from what, of all the
   places a provider may say so; by whom, as a session of theirs had it, and nobody
   of an upload that is anonymous.  So it is for any sources, sessions and clock,
   however often the Item is built again and whoever signs in between. *)
THEOREM ItemStated == ItemSpec => []ItemAsStated
  <1>1. ItemInv /\ [ItemNext]_itemVars => ItemInv'
    BY ItemSteps
  <1> QED BY <1>1, ItemStarts, ItemHolds, PTL DEF ItemSpec
=============================================================================
