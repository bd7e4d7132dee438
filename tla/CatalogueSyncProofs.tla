------------------------- MODULE CatalogueSyncProofs ------------------------
(***************************************************************************)
(* For any sources, catalogue and number of runs: a run that ends answers  *)
(* for every entry it was to bring, and no load takes an archive from an   *)
(* item that was there when its run began.  And for any elevation tiles    *)
(* and page size, a harvest is exact.                                      *)
(***************************************************************************)
EXTENDS CatalogueSync, Elevation, FiniteSetTheorems, SequenceTheorems, TLAPS

RunRecord ==
  [pc : {"idle", "finding", "found", "checked", "made", "done", "failed"},
   mode : {"new", "rebuild", "dump"}, strict : BOOLEAN, at : Nat \ {0},
   found : SUBSET Entries, existing : SUBSET Items, built : SUBSET Entries,
   errors : SUBSET Entries, listed : SUBSET Legacy, there : SUBSET Items]
RunsTyped == sync \in [Runs -> RunRecord]

InOrder(s) ==
  /\ s \in Seq(Legacy)
  /\ \A m, n \in 1..Len(s) : /\ s[m] = s[n] => m = n
                             /\ m < n /\ s[m] \in Early => s[n] \in Early

(* The catalogue: an entry is under its own id, and archives are of legacy ones. *)
RecordMeans ==
  \A i \in Items : /\ There(i) => TargetId[record[i].from] = i
                   /\ record[i].tiles => There(i) /\ record[i].from \in Legacy

SourceKnown == source \in {"oam"} \cup Rules

(* A run finds what is of its source. *)
OfSource(k) ==
  /\ source = "oam" => sync[k].mode # "rebuild" /\ sync[k].found \subseteq Legacy
  /\ source \in Rules => sync[k].found \subseteq Provided

Ahead(k, e) == \E n \in 1..Len(listing) : listing[n] = e /\ n > (sync[k].at - 1) * PageSize

(* What a run is to bring it has found, or it is on a page to come. *)
NoneLeftBehind(k) ==
  source = "oam" => \A e \in sync[k].listed : Kept(e) =>
    /\ sync[k].pc = "finding" => e \in sync[k].found \/ Ahead(k, e)
    /\ sync[k].pc \in {"found", "checked", "made", "done"} => e \in sync[k].found

(* What was there when the run asked is there still. *)
ExistingThere(k) ==
  sync[k].pc \in {"checked", "made", "done"} =>
    /\ \A i \in sync[k].existing : There(i)
    /\ sync[k].mode # "new" => sync[k].existing = {}

(* What was found is known to be there, built once, or reported. *)
BuiltSoundly(k) ==
  sync[k].pc \in {"made", "done"} =>
    /\ \A e \in sync[k].built : TargetId[e] \notin sync[k].existing
    /\ \A e \in sync[k].found :
         \/ TargetId[e] \in sync[k].existing
         \/ e \in sync[k].errors
         \/ e \in sync[k].built /\ \A f \in sync[k].built : TargetId[f] = TargetId[e] => f = e
    /\ \A e \in sync[k].found \ Unbuildable :
         \/ TargetId[e] \in sync[k].existing
         \/ \E f \in sync[k].built : TargetId[f] = TargetId[e]
    /\ sync[k].built \subseteq sync[k].found

Loaded(k) ==
  sync[k].pc = "done" /\ sync[k].mode # "dump" =>
    \A f \in sync[k].built : There(TargetId[f])

CatalogueInv ==
  /\ SyncTypeOK
  /\ SourceKnown
  /\ InOrder(listing)
  /\ RecordMeans
  /\ \A k \in Runs : OfSource(k) /\ ExistingThere(k) /\ BuiltSoundly(k) /\ Loaded(k)

PagesInv == \A k \in Runs : NoneLeftBehind(k)

(* Fewer entries cannot be read than a page holds. *)
FewUnreadable ==
  IsFiniteSet(Unparsed \cap Legacy) /\ Cardinality(Unparsed \cap Legacy) < PageSize

-----------------------------------------------------------------------------
LEMMA TypeSplit ==
  SyncTypeOK <=> /\ listing \in Seq(Legacy) /\ changes \in Nat
                 /\ record \in [Items -> [from : Entries \cup {NoEntry}, tiles : BOOLEAN]]
                 /\ RunsTyped
  BY DEF SyncTypeOK, RunsTyped, RunRecord

LEMMA NoRunTyped ==
  /\ NoRun \in RunRecord /\ NoRun.pc = "idle" /\ NoRun.at = 1
  /\ NoRun.found = {} /\ NoRun.listed = {} /\ NoRun.there = {}
  /\ Failed \in RunRecord /\ Failed.pc = "failed" /\ Failed.mode = "new" /\ Failed.at = 1
  /\ Failed.found = {} /\ Failed.there = {}
  <1>1. NoRun \in RunRecord
    BY DEF NoRun, RunRecord
  <1>2. NoRun.pc = "idle" /\ NoRun.mode = "new" /\ NoRun.at = 1 /\ NoRun.found = {}
        /\ NoRun.listed = {} /\ NoRun.there = {}
    BY DEF NoRun
  <1> QED BY <1>1, <1>2 DEF Failed, RunRecord

(* A step of one run leaves the others alone. *)
OfRun(k) ==
  \/ BeginSync(k) \/ ReadPage(k) \/ ReadEvent(k) \/ EventsRead(k) \/ FindExisting(k)
  \/ Build(k) \/ Dump(k) \/ Upsert(k) \/ LoadFails(k) \/ SourceFails(k)

LEMMA RunMoves ==
  ASSUME RunsTyped, SyncNext, NEW k \in Runs
  PROVE  \/ sync'[k] = sync[k]
         \/ sync'[k] = [sync[k] EXCEPT !.listed = {}]
         \/ OfRun(k)
  <1>1. ASSUME NEW j \in Runs, j # k, OfRun(j) PROVE sync'[k] = sync[k]
    BY <1>1 DEF OfRun, BeginSync, ReadPage, ReadEvent, EventsRead, FindExisting, Build, Dump,
      Upsert, LoadFails, SourceFails, RunsTyped
  <1>2. ASSUME NEW n, Withdraw(n) PROVE sync'[k] = [sync[k] EXCEPT !.listed = {}]
    BY <1>2 DEF Withdraw
  <1>3. ASSUME NEW e, Publish(e) \/ PatchTiles(e) PROVE sync'[k] = sync[k]
    BY <1>3 DEF Publish, PatchTiles
  <1> QED BY <1>1, <1>2, <1>3 DEF SyncNext, OfRun

LEMMA RecordMoves ==
  ASSUME SyncNext
  PROVE  \/ record' = record
         \/ \E i \in Items : PatchTiles(i)
         \/ \E j \in Runs : Upsert(j) \/ LoadFails(j)
  <1>1. ASSUME NEW j \in Runs, OfRun(j) PROVE record' = record \/ Upsert(j) \/ LoadFails(j)
    BY <1>1 DEF OfRun, BeginSync, ReadPage, ReadEvent, EventsRead, FindExisting, Build, Dump,
      SourceFails
  <1>2. ASSUME NEW n, Withdraw(n) \/ Publish(n) PROVE record' = record
    BY <1>2 DEF Withdraw, Publish
  <1> QED BY <1>1, <1>2, SMTT(60) DEF SyncNext, OfRun

LEMMA SourceStays ==
  ASSUME SyncNext
  PROVE  source' = source
  <1>1. ASSUME NEW j \in Runs, OfRun(j) PROVE source' = source
    BY <1>1 DEF OfRun, BeginSync, ReadPage, ReadEvent, EventsRead, FindExisting, Build, Dump,
      Upsert, LoadFails, SourceFails
  <1>2. ASSUME NEW n, Withdraw(n) \/ Publish(n) \/ PatchTiles(n) PROVE source' = source
    BY <1>2 DEF Withdraw, Publish, PatchTiles
  <1> QED BY <1>1, <1>2, SMTT(60) DEF SyncNext, OfRun

(* What an upsert leaves of an item. *)
LEMMA UpsertedItem ==
  ASSUME NEW b \in SUBSET Entries, record' = Upserted(b), NEW i \in Items
  PROVE  \/ record'[i] = record[i] /\ ~ \E e \in b : TargetId[e] = i
         \/ \E e \in b : TargetId[e] = i /\ record'[i] = [from |-> e, tiles |-> FALSE]
  <1>1. CASE \E e \in b : TargetId[e] = i
    <2> DEFINE c == CHOOSE e \in b : TargetId[e] = i
    <2>1. c \in b /\ TargetId[c] = i
      BY <1>1
    <2>2. record'[i] = [from |-> c, tiles |-> FALSE]
      BY <1>1 DEF Upserted
    <2> QED BY <2>1, <2>2
  <1>2. CASE ~ \E e \in b : TargetId[e] = i
    BY <1>2 DEF Upserted
  <1> QED BY <1>1, <1>2

(* A run loads entries it built. *)
LEMMA LoadsBuilt ==
  ASSUME RunsTyped, NEW j \in Runs, Upsert(j) \/ LoadFails(j)
  PROVE  /\ sync[j].pc = "made" /\ sync[j].mode # "dump"
         /\ \E b \in SUBSET sync[j].built : /\ b \in SUBSET Entries /\ record' = Upserted(b)
                                            /\ Upsert(j) => b = sync[j].built
         /\ LoadFails(j) => sync'[j] = Failed
         /\ Upsert(j) => sync'[j] = [sync[j] EXCEPT !.pc = "done"]
  <1>1. sync[j].built \in SUBSET Entries
    BY DEF RunsTyped, RunRecord
  <1>2. CASE Upsert(j)
    BY <1>1, <1>2 DEF Upsert, LoadFails, RunsTyped, Failed, NoRun
  <1>3. CASE LoadFails(j) /\ ~Upsert(j)
    BY <1>1, <1>3 DEF LoadFails, RunsTyped
  <1> QED BY <1>2, <1>3

-----------------------------------------------------------------------------
(* Types. *)

LEMMA FoundKnown ==
  ASSUME SourceKnown, source \in Rules, NEW v \in [old : BOOLEAN, of : SUBSET Provided]
  PROVE  FoundIn(v) \in SUBSET Provided
  <1>1. OfEvent(v) \subseteq Provided /\ OfPublished(v) \subseteq Provided
        /\ OfWalk(v) \subseteq Provided
    BY DEF OfEvent, OfPublished, OfWalk
  <1>2. FoundIn(v) \in {OfEvent(v), OfPublished(v), OfWalk(v)}
    BY DEF FoundIn, Rules
  <1> QED BY <1>1, <1>2

LEMMA RunStepTyped ==
  ASSUME SyncTypeOK, SourceKnown, NEW k \in Runs, OfRun(k)
  PROVE  sync'[k] \in RunRecord
  <1>1. sync[k] \in RunRecord /\ sync \in [Runs -> RunRecord]
    BY TypeSplit DEF RunsTyped
  <1>2. Listed \subseteq Legacy
    BY DEF Listed, SyncTypeOK
  <1>3. CASE BeginSync(k)
    <2>1. PICK m \in {"new", "rebuild", "dump"}, x \in BOOLEAN :
            sync' = [sync EXCEPT ![k] = [NoRun EXCEPT !.pc = "finding", !.mode = m,
                       !.strict = x, !.listed = IF source = "oam" THEN Listed ELSE {},
                       !.there = {i \in Items : There(i)}]]
      BY <1>3 DEF BeginSync
    <2> QED BY <1>1, <1>2, <2>1, NoRunTyped DEF RunRecord
  <1>4. CASE ReadPage(k)
    <2>1. {e \in Page(k) : Kept(e)} \subseteq Entries
      BY <1>2 DEF Page, Listed, Entries
    <2> DEFINE kept == {e \in Page(k) : Kept(e)}
    <2>2. PICK pc \in {"found", "finding"} : sync' = [sync EXCEPT ![k] =
            [sync[k] EXCEPT !.found = sync[k].found \cup kept, !.at = sync[k].at + 1,
                            !.pc = pc]]
      BY <1>4 DEF ReadPage
    <2>3. kept \in SUBSET Entries
      BY <2>1
    <2> HIDE DEF kept
    <2>4. sync'[k] = [sync[k] EXCEPT !.found = sync[k].found \cup kept,
                                     !.at = sync[k].at + 1, !.pc = pc]
      BY <1>1, <2>2
    <2>5. sync[k].at + 1 \in Nat \ {0} /\ sync[k].found \cup kept \in SUBSET Entries
      BY <1>1, <2>3 DEF RunRecord
    <2> HIDE DEF kept
    <2> QED BY <1>1, <2>4, <2>5 DEF RunRecord
  <1>5. CASE ReadEvent(k)
    <2>1. Events[sync[k].at] \in [old : BOOLEAN, of : SUBSET Provided]
      <3>1. sync[k].at \in 1..Len(Events)
        BY <1>1, <1>5, EventsKnown, LenProperties DEF ReadEvent, RunRecord
      <3> QED BY <3>1, EventsKnown, ElementOfSeq
    <2>2. PICK kept \in {{}, FoundIn(Events[sync[k].at])} :
            sync' = [sync EXCEPT ![k] =
              [sync[k] EXCEPT !.found = sync[k].found \cup kept, !.at = sync[k].at + 1]]
      BY <1>5 DEF ReadEvent
    <2>3. kept \subseteq Entries
      BY <1>5, <2>1, <2>2, FoundKnown DEF ReadEvent, Entries
    <2>4. sync'[k] = [sync[k] EXCEPT !.found = sync[k].found \cup kept, !.at = sync[k].at + 1]
      BY <1>1, <2>2
    <2>5. sync[k].at + 1 \in Nat \ {0} /\ sync[k].found \cup kept \in SUBSET Entries
      BY <1>1, <2>3 DEF RunRecord
    <2> QED BY <1>1, <2>4, <2>5 DEF RunRecord
  <1>6. CASE EventsRead(k) \/ Dump(k) \/ Upsert(k)
    BY <1>1, <1>6, SMTT(60) DEF EventsRead, Dump, Upsert, RunRecord
  <1>7. CASE FindExisting(k)
    BY <1>1, <1>7 DEF FindExisting, RunRecord
  <1>8. CASE Build(k)
    <2>1. PICK b \in SUBSET Wanting(k) :
            sync' = [sync EXCEPT ![k] = IF sync[k].strict /\ b # Wanting(k) THEN Failed
                      ELSE [@ EXCEPT !.pc = "made", !.built = b, !.errors = Errors(k, b)]]
      BY <1>8 DEF Build
    <2>2. b \in SUBSET Entries /\ Errors(k, b) \in SUBSET Entries
      BY <1>1, <2>1 DEF Wanting, Errors, RunRecord
    <2>3. CASE sync[k].strict /\ b # Wanting(k)
      BY <1>1, <2>1, <2>3, NoRunTyped
    <2>4. CASE ~(sync[k].strict /\ b # Wanting(k))
      BY <1>1, <2>1, <2>2, <2>4 DEF RunRecord
    <2> QED BY <2>3, <2>4
  <1>9. CASE LoadFails(k) \/ SourceFails(k)
    BY <1>1, <1>9, NoRunTyped DEF LoadFails, SourceFails
  <1> QED BY <1>3, <1>4, <1>5, <1>6, <1>7, <1>8, <1>9 DEF OfRun

-----------------------------------------------------------------------------
(* The listing. *)

LEMMA ListingMoves ==
  ASSUME SyncNext
  PROVE  \/ listing' = listing
         \/ \E e \in Legacy : Publish(e)
         \/ \E n \in 1..Len(listing) : Withdraw(n)
  <1>1. ASSUME NEW j \in Runs, OfRun(j) PROVE listing' = listing
    BY <1>1 DEF OfRun, BeginSync, ReadPage, ReadEvent, EventsRead, FindExisting, Build, Dump,
      Upsert, LoadFails, SourceFails
  <1>2. ASSUME NEW i, PatchTiles(i) PROVE listing' = listing
    BY <1>2 DEF PatchTiles
  <1> QED BY <1>1, <1>2 DEF SyncNext, OfRun

(* An entry that comes in front moves the others up by one. *)
LEMMA InFront ==
  ASSUME NEW s \in Seq(Legacy), NEW e \in Legacy
  PROVE  /\ <<e>> \o s \in Seq(Legacy) /\ Len(<<e>> \o s) = Len(s) + 1
         /\ (<<e>> \o s)[1] = e
         /\ \A n \in 1..Len(s) : (<<e>> \o s)[n + 1] = s[n]
         /\ \A n \in 2..Len(s) + 1 : n - 1 \in 1..Len(s) /\ (<<e>> \o s)[n] = s[n - 1]
  <1>1. <<e>> \in Seq(Legacy) /\ Len(<<e>>) = 1 /\ <<e>>[1] = e
    OBVIOUS
  <1>2. Len(s) \in Nat
    BY LenProperties
  <1>3. /\ <<e>> \o s \in Seq(Legacy) /\ Len(<<e>> \o s) = Len(s) + 1
        /\ \A i \in 1..1 + Len(s) : (<<e>> \o s)[i] = IF i <= 1 THEN <<e>>[i] ELSE s[i - 1]
    BY <1>1, <1>2, ConcatProperties
  <1> QED BY <1>1, <1>2, <1>3

(* What is left without one of its entries, and where it was. *)
LEMMA Without ==
  ASSUME NEW s \in Seq(Legacy), NEW n \in 1..Len(s)
  PROVE  LET t == SubSeq(s, 1, n - 1) \o SubSeq(s, n + 1, Len(s)) IN
         /\ t \in Seq(Legacy) /\ Len(t) = Len(s) - 1
         /\ \A m \in 1..Len(t) : t[m] = IF m < n THEN s[m] ELSE s[m + 1]
  <1>1. Len(s) \in Nat /\ \A m \in 1..Len(s) : s[m] \in Legacy
    BY LenProperties, ElementOfSeq
  <1> DEFINE a == SubSeq(s, 1, n - 1)
             b == SubSeq(s, n + 1, Len(s))
  <1>2. /\ a \in Seq(Legacy) /\ Len(a) = n - 1
        /\ \A i \in 1..n - 1 : a[i] = s[i]
    <2>1. \A i \in 1..n - 1 : s[i] \in Legacy
      BY <1>1
    <2>2. /\ a \in Seq(Legacy)
          /\ Len(a) = IF 1 <= n - 1 THEN (n - 1) - 1 + 1 ELSE 0
          /\ \A i \in 1..(n - 1) - 1 + 1 : a[i] = s[1 + i - 1]
      BY <1>1, <2>1, SubSeqProperties
    <2> QED BY <1>1, <2>2
  <1>3. /\ b \in Seq(Legacy) /\ Len(b) = Len(s) - n
        /\ \A i \in 1..Len(s) - n : b[i] = s[n + i]
    <2>1. \A i \in n + 1..Len(s) : s[i] \in Legacy
      BY <1>1
    <2>2. /\ b \in Seq(Legacy)
          /\ Len(b) = IF n + 1 <= Len(s) THEN Len(s) - (n + 1) + 1 ELSE 0
          /\ \A i \in 1..Len(s) - (n + 1) + 1 : b[i] = s[n + 1 + i - 1]
      BY <1>1, <2>1, SubSeqProperties
    <2> QED BY <1>1, <2>2
  <1> HIDE DEF a, b
  <1>5. /\ a \o b \in Seq(Legacy) /\ Len(a \o b) = Len(a) + Len(b)
        /\ \A i \in 1..Len(a) + Len(b) : (a \o b)[i] = IF i <= Len(a) THEN a[i] ELSE b[i - Len(a)]
    BY <1>2, <1>3, ConcatProperties
  <1> DEFINE u == a \o b
  <1>6. u \in Seq(Legacy) /\ Len(u) = Len(a) + Len(b)
    BY <1>5
  <1>7. \A i \in 1..Len(a) + Len(b) : u[i] = IF i <= Len(a) THEN a[i] ELSE b[i - Len(a)]
    BY <1>5
  <1>4. Len(a) + Len(b) = Len(s) - 1 /\ Len(a) = n - 1
    BY <1>1, <1>2, <1>3
  <1> HIDE DEF u
  <1>8. Len(u) = Len(s) - 1
    BY <1>4, <1>6
  <1>9. ASSUME NEW m \in 1..Len(u), m < n PROVE u[m] = s[m]
    <2>1. m \in 1..n - 1 /\ m \in 1..Len(u) /\ m <= n - 1
      BY <1>1, <1>8, <1>9
    <2>2. u[m] = a[m]
      BY <1>4, <1>7, <1>8, <2>1
    <2> QED BY <1>2, <2>1, <2>2
  <1>10. ASSUME NEW m \in 1..Len(u), ~(m < n) PROVE u[m] = s[m + 1]
    <2>1. m - (n - 1) \in 1..Len(s) - n /\ n + (m - (n - 1)) = m + 1
      BY <1>1, <1>8, <1>10
    <2>2. u[m] = b[m - (n - 1)]
      BY <1>1, <1>4, <1>7, <1>8, <1>10
    <2> QED BY <1>3, <2>1, <2>2
  <1>11. \A m \in 1..Len(u) : u[m] = IF m < n THEN s[m] ELSE s[m + 1]
    BY <1>9, <1>10
  <1> QED BY <1>6, <1>8, <1>11 DEF u, a, b

LEMMA OrderStep ==
  ASSUME InOrder(listing), SyncNext
  PROVE  InOrder(listing')
  <1>1. listing \in Seq(Legacy) /\ Len(listing) \in Nat
    BY LenProperties DEF InOrder
  <1>2. ASSUME NEW e \in Legacy, Publish(e) PROVE InOrder(listing')
    <2>1. \A n \in 1..Len(listing) : listing[n] # e
      BY <1>2 DEF Publish, Listed
    <2>2. CASE e \in Early
      <3>1. listing' = Append(listing, e)
        BY <1>2, <2>2 DEF Publish
      <3>2. /\ listing' \in Seq(Legacy) /\ Len(listing') = Len(listing) + 1
            /\ \A i \in 1..Len(listing) : listing'[i] = listing[i]
            /\ listing'[Len(listing) + 1] = e
        BY <1>1, <3>1, AppendProperties
      <3>3. ASSUME NEW m \in 1..Len(listing'), NEW n \in 1..Len(listing')
            PROVE  /\ listing'[m] = listing'[n] => m = n
                   /\ m < n /\ listing'[m] \in Early => listing'[n] \in Early
        BY <1>1, <2>1, <2>2, <3>2 DEF InOrder
      <3> QED BY <3>2, <3>3 DEF InOrder
    <2>3. CASE e \notin Early
      <3>1. listing' = <<e>> \o listing
        BY <1>2, <2>3 DEF Publish
      <3>2. /\ listing' \in Seq(Legacy) /\ Len(listing') = Len(listing) + 1
            /\ listing'[1] = e
            /\ \A n \in 2..Len(listing) + 1 :
                 n - 1 \in 1..Len(listing) /\ listing'[n] = listing[n - 1]
        BY <1>1, <3>1, InFront
      <3>3. ASSUME NEW m \in 2..Len(listing'), NEW n \in 2..Len(listing')
            PROVE  /\ listing'[m] = listing'[n] => m = n
                   /\ m < n /\ listing'[m] \in Early => listing'[n] \in Early
        <4>1. m - 1 \in 1..Len(listing) /\ n - 1 \in 1..Len(listing)
              /\ listing'[m] = listing[m - 1] /\ listing'[n] = listing[n - 1]
          BY <3>2
        <4>2. m - 1 = n - 1 => m = n
          OBVIOUS
        <4>3. m < n => m - 1 < n - 1
          OBVIOUS
        <4> QED BY <4>1, <4>2, <4>3 DEF InOrder
      <3>4. \A n \in 2..Len(listing') : listing'[n] # e
        BY <1>1, <2>1, <3>2
      <3>5. ASSUME NEW m \in 1..Len(listing'), NEW n \in 1..Len(listing')
            PROVE  /\ listing'[m] = listing'[n] => m = n
                   /\ m < n /\ listing'[m] \in Early => listing'[n] \in Early
        <4>1. m = 1 \/ m \in 2..Len(listing')
          BY <1>1, <3>2
        <4>2. n = 1 \/ n \in 2..Len(listing')
          BY <1>1, <3>2
        <4>3. m < n => n # 1
          OBVIOUS
        <4> QED BY <2>3, <3>2, <3>3, <3>4, <4>1, <4>2, <4>3
      <3> QED BY <3>2, <3>5 DEF InOrder
    <2> QED BY <2>2, <2>3
  <1>3. ASSUME NEW d \in 1..Len(listing), Withdraw(d) PROVE InOrder(listing')
    <2>1. listing' = SubSeq(listing, 1, d - 1) \o SubSeq(listing, d + 1, Len(listing))
      BY <1>3 DEF Withdraw
    <2>2. /\ listing' \in Seq(Legacy) /\ Len(listing') = Len(listing) - 1
          /\ \A m \in 1..Len(listing') :
               listing'[m] = IF m < d THEN listing[m] ELSE listing[m + 1]
      BY <1>1, <2>1, Without
    <2> DEFINE was(m) == IF m < d THEN m ELSE m + 1
    <2>3. \A m \in 1..Len(listing') :
            was(m) \in 1..Len(listing) /\ listing'[m] = listing[was(m)]
      BY <1>1, <2>2
    <2>4. \A m, n \in 1..Len(listing') : /\ was(m) = was(n) => m = n
                                         /\ m < n => was(m) < was(n)
      BY <1>1, <2>2
    <2> HIDE DEF was
    <2>5. ASSUME NEW m \in 1..Len(listing'), NEW n \in 1..Len(listing')
          PROVE  /\ listing'[m] = listing'[n] => m = n
                 /\ m < n /\ listing'[m] \in Early => listing'[n] \in Early
      BY <2>3, <2>4 DEF InOrder
    <2> QED BY <2>2, <2>5 DEF InOrder
  <1> QED BY <1>2, <1>3, ListingMoves DEF InOrder

-----------------------------------------------------------------------------
(* What a step makes of a run. *)

(* Everything but the promise of a run is as it was. *)
Same(k) ==
  /\ sync'[k].pc = sync[k].pc /\ sync'[k].at = sync[k].at
  /\ sync'[k].mode = sync[k].mode /\ sync'[k].found = sync[k].found
  /\ sync'[k].existing = sync[k].existing /\ sync'[k].built = sync[k].built
  /\ sync'[k].errors = sync[k].errors /\ sync'[k].listed \in {sync[k].listed, {}}
  /\ sync'[k].there = sync[k].there

GaveUp(k) ==
  /\ sync'[k].pc = "failed" /\ sync'[k].mode = "new"
  /\ sync'[k].found = {} /\ sync'[k].there = {}

Began(k) ==
  /\ BeginSync(k)
  /\ sync'[k].pc = "finding" /\ sync'[k].at = 1 /\ sync'[k].found = {}
  /\ sync'[k].there = {i \in Items : There(i)}
  /\ source = "oam" => sync'[k].mode # "rebuild" /\ sync'[k].listed = Listed

KeepsCourse(k) ==
  /\ sync'[k].mode = sync[k].mode /\ sync'[k].listed = sync[k].listed
  /\ sync'[k].there = sync[k].there

PageRead(k) ==
  LET kept == {e \in Page(k) : Kept(e)} IN
  /\ source = "oam" /\ sync[k].pc = "finding" /\ sync'[k].pc \in {"finding", "found"}
  /\ sync'[k].found = sync[k].found \cup kept /\ sync'[k].at = sync[k].at + 1
  /\ sync'[k].pc = "found" => kept = {}

EventRead(k) ==
  /\ source \in Rules /\ sync[k].pc = "finding" /\ sync'[k].pc \in {"finding", "found"}
  /\ \E kept \in SUBSET Provided : sync'[k].found = sync[k].found \cup kept

Checked(k) ==
  /\ sync[k].pc = "found" /\ sync'[k].pc = "checked" /\ sync'[k].found = sync[k].found
  /\ sync'[k].existing =
       IF sync[k].mode # "new" THEN {}
       ELSE {TargetId[e] : e \in sync[k].found} \cap {i \in Items : There(i)}

Made(k) ==
  /\ sync[k].pc = "checked" /\ sync'[k].pc = "made" /\ sync'[k].found = sync[k].found
  /\ sync'[k].existing = sync[k].existing
  /\ sync'[k].built \subseteq Wanting(k) /\ sync'[k].errors = Errors(k, sync'[k].built)
  /\ Chosen(sync'[k].built, Wanting(k)) = sync'[k].built
  /\ Covers(sync'[k].built, Wanting(k))

Finished(k) ==
  /\ sync[k].pc = "made" /\ sync'[k].pc = "done" /\ sync'[k].found = sync[k].found
  /\ sync'[k].existing = sync[k].existing /\ sync'[k].built = sync[k].built
  /\ sync'[k].errors = sync[k].errors
  /\ sync[k].mode # "dump" => Upsert(k)

Moved(k) ==
  \/ PageRead(k) \/ EventRead(k) \/ Checked(k) \/ Made(k) \/ Finished(k)

LEMMA RunFields ==
  ASSUME SyncTypeOK, SourceKnown, SyncNext, NEW k \in Runs
  PROVE  \/ Same(k) \/ GaveUp(k) \/ Began(k)
         \/ KeepsCourse(k) /\ Moved(k)
  <1>1. sync[k] \in RunRecord /\ sync \in [Runs -> RunRecord] /\ RunsTyped
    BY TypeSplit DEF RunsTyped
  <1>2. CASE sync'[k] = sync[k]
    BY <1>2 DEF Same
  <1>3. CASE sync'[k] = [sync[k] EXCEPT !.listed = {}]
    BY <1>1, <1>3 DEF Same, RunRecord
  <1>4. CASE BeginSync(k)
    <2>1. PICK m \in {"new", "rebuild", "dump"}, x \in BOOLEAN :
            /\ source = "oam" => m # "rebuild"
            /\ sync' = [sync EXCEPT ![k] = [NoRun EXCEPT !.pc = "finding", !.mode = m,
                          !.strict = x, !.listed = IF source = "oam" THEN Listed ELSE {},
                          !.there = {i \in Items : There(i)}]]
      BY <1>4 DEF BeginSync
    <2> QED BY <1>1, <1>4, <2>1, NoRunTyped DEF RunRecord, Began
  <1>5. CASE ReadPage(k)
    <2> DEFINE kept == {e \in Page(k) : Kept(e)}
    <2>1. sync'[k] = [sync[k] EXCEPT !.found = sync[k].found \cup kept,
             !.at = sync[k].at + 1, !.pc = IF PageEnds(k, kept) THEN "found" ELSE "finding"]
          /\ source = "oam" /\ sync[k].pc = "finding"
      BY <1>1, <1>5 DEF ReadPage
    <2> HIDE DEF kept
    <2>2. /\ sync'[k].pc = IF PageEnds(k, kept) THEN "found" ELSE "finding"
          /\ sync'[k].found = sync[k].found \cup kept /\ sync'[k].at = sync[k].at + 1
          /\ KeepsCourse(k)
      BY <1>1, <2>1 DEF RunRecord, KeepsCourse
    <2> QED BY <2>1, <2>2 DEF PageRead, PageEnds, kept, Moved
  <1>6. CASE ReadEvent(k)
    <2>1. Events[sync[k].at] \in [old : BOOLEAN, of : SUBSET Provided]
      <3>1. sync[k].at \in 1..Len(Events)
        BY <1>1, <1>6, EventsKnown, LenProperties DEF ReadEvent, RunRecord
      <3> QED BY <3>1, EventsKnown, ElementOfSeq
    <2>2. PICK kept \in {{}, FoundIn(Events[sync[k].at])} :
            sync' = [sync EXCEPT ![k] =
              [sync[k] EXCEPT !.found = sync[k].found \cup kept, !.at = sync[k].at + 1]]
      BY <1>6 DEF ReadEvent
    <2>3. source \in Rules /\ sync[k].pc = "finding"
      BY <1>6 DEF ReadEvent
    <2>4. kept \in SUBSET Provided
      BY <2>1, <2>2, <2>3, FoundKnown
    <2>5. sync'[k] = [sync[k] EXCEPT !.found = sync[k].found \cup kept, !.at = sync[k].at + 1]
      BY <1>1, <2>2
    <2>6. /\ sync'[k].pc = "finding" /\ KeepsCourse(k)
          /\ sync'[k].found = sync[k].found \cup kept
      BY <1>1, <2>3, <2>5 DEF RunRecord, KeepsCourse
    <2> QED BY <2>3, <2>4, <2>6 DEF EventRead, Moved
  <1>7. CASE EventsRead(k)
    <2>1. sync'[k].found = sync[k].found \cup {} /\ {} \in SUBSET Provided
      BY <1>1, <1>7 DEF EventsRead, RunRecord
    <2> QED BY <1>1, <1>7, <2>1 DEF EventsRead, EventRead, RunRecord, KeepsCourse, Moved
  <1>8. CASE FindExisting(k)
    BY <1>1, <1>8 DEF FindExisting, Unfiltered, Checked, RunRecord, KeepsCourse, Moved
  <1>9. CASE Build(k)
    <2>1. PICK b \in SUBSET Wanting(k) :
            /\ Chosen(b, Wanting(k)) = b /\ Covers(b, Wanting(k))
            /\ sync' = [sync EXCEPT ![k] = IF sync[k].strict /\ b # Wanting(k) THEN Failed
                          ELSE [@ EXCEPT !.pc = "made", !.built = b, !.errors = Errors(k, b)]]
      BY <1>9 DEF Build
    <2>2. CASE sync[k].strict /\ b # Wanting(k)
      BY <1>1, <2>1, <2>2, NoRunTyped DEF GaveUp
    <2>3. CASE ~(sync[k].strict /\ b # Wanting(k))
      <3>1. sync'[k] = [sync[k] EXCEPT !.pc = "made", !.built = b, !.errors = Errors(k, b)]
        BY <1>1, <2>1, <2>3
      <3>2. /\ sync'[k].pc = "made" /\ sync'[k].found = sync[k].found
            /\ sync'[k].existing = sync[k].existing /\ KeepsCourse(k)
            /\ sync'[k].built = b /\ sync'[k].errors = Errors(k, b)
        BY <1>1, <3>1 DEF RunRecord, KeepsCourse
      <3>3. sync[k].pc = "checked"
        BY <1>9 DEF Build
      <3>4. Made(k)
        BY <2>1, <3>2, <3>3 DEF Made
      <3> QED BY <3>2, <3>4 DEF Moved
    <2> QED BY <2>2, <2>3
  <1>10. CASE Dump(k)
    BY <1>1, <1>10 DEF Dump, RunRecord, Finished, KeepsCourse, Moved
  <1>11. CASE Upsert(k)
    <2>1. sync'[k] = [sync[k] EXCEPT !.pc = "done"] /\ sync[k].pc = "made"
      BY <1>1, <1>11 DEF Upsert
    <2> QED BY <1>1, <1>11, <2>1 DEF RunRecord, Finished, KeepsCourse, Moved
  <1>12. CASE LoadFails(k) \/ SourceFails(k)
    BY <1>1, <1>12, NoRunTyped DEF LoadFails, SourceFails, GaveUp
  <1> QED BY <1>1, <1>2, <1>3, <1>4, <1>5, <1>6, <1>7, <1>8, <1>9, <1>10, <1>11, <1>12,
             RunMoves DEF OfRun

(* What is in the catalogue stays in it. *)
LEMMA ThereStays ==
  ASSUME SyncTypeOK, SyncNext, NEW i \in Items, There(i)
  PROVE  There(i)'
  <1>1. RunsTyped /\ record \in [Items -> [from : Entries \cup {NoEntry}, tiles : BOOLEAN]]
    BY TypeSplit
  <1>2. CASE record' = record
    BY <1>2 DEF There
  <1>3. ASSUME NEW h \in Items, PatchTiles(h) PROVE There(i)'
    BY <1>1, <1>3 DEF PatchTiles, There
  <1>4. ASSUME NEW j \in Runs, Upsert(j) \/ LoadFails(j) PROVE There(i)'
    <2>1. PICK b \in SUBSET Entries : record' = Upserted(b)
      BY <1>1, <1>4, LoadsBuilt
    <2>2. \A e \in b : e # NoEntry
      BY SourcesApart DEF Entries
    <2>3. \/ record'[i] = record[i]
          \/ \E e \in b : record'[i] = [from |-> e, tiles |-> FALSE]
      BY <2>1, UpsertedItem
    <2>4. ASSUME NEW e \in b, record'[i] = [from |-> e, tiles |-> FALSE] PROVE There(i)'
      BY <2>2, <2>4 DEF There
    <2> QED BY <2>3, <2>4 DEF There
  <1> QED BY <1>2, <1>3, <1>4, RecordMoves

-----------------------------------------------------------------------------
(* The steps keep the invariant, part by part. *)

LEMMA TypeStep ==
  ASSUME SyncTypeOK, SourceKnown, InOrder(listing), SyncNext
  PROVE  SyncTypeOK'
  <1>1. RunsTyped /\ record \in [Items -> [from : Entries \cup {NoEntry}, tiles : BOOLEAN]]
        /\ changes \in Nat
    BY TypeSplit
  <1>2. listing' \in Seq(Legacy)
    BY OrderStep DEF InOrder
  <1>3. changes' \in Nat
    <2>1. ASSUME NEW j \in Runs, OfRun(j) PROVE changes' = changes
      BY <2>1 DEF OfRun, BeginSync, ReadPage, ReadEvent, EventsRead, FindExisting, Build, Dump,
        Upsert, LoadFails, SourceFails
    <2>2. ASSUME NEW n, Withdraw(n) \/ Publish(n) \/ PatchTiles(n)
          PROVE  changes' \in {changes, changes + 1}
      BY <2>2 DEF Withdraw, Publish, PatchTiles
    <2> QED BY <1>1, <2>1, <2>2, SMTT(60) DEF SyncNext, OfRun
  <1>4. record' \in [Items -> [from : Entries \cup {NoEntry}, tiles : BOOLEAN]]
    <2> DEFINE Item == [from : Entries \cup {NoEntry}, tiles : BOOLEAN]
    <2>1. record \in [Items -> Item]
      BY <1>1
    <2>2. ASSUME NEW h \in Items, PatchTiles(h) PROVE record' \in [Items -> Item]
      <3>1. record' = [record EXCEPT ![h] = [record[h] EXCEPT !.tiles = TRUE]]
        BY <2>2 DEF PatchTiles
      <3>2. [record[h] EXCEPT !.tiles = TRUE] \in Item
        BY <2>1
      <3> HIDE DEF Item
      <3> QED BY <2>1, <3>1, <3>2
    <2>3. ASSUME NEW j \in Runs, Upsert(j) \/ LoadFails(j) PROVE record' \in [Items -> Item]
      <3>1. PICK b \in SUBSET Entries : record' = Upserted(b)
        BY <1>1, <2>3, LoadsBuilt
      <3>2. ASSUME NEW e \in b PROVE [from |-> e, tiles |-> FALSE] \in Item
        OBVIOUS
      <3> HIDE DEF Item
      <3>3. ASSUME NEW i \in Items PROVE record'[i] \in Item
        <4>1. \/ record'[i] = record[i]
              \/ \E e \in b : record'[i] = [from |-> e, tiles |-> FALSE]
          BY <3>1, UpsertedItem
        <4> QED BY <2>1, <3>2, <4>1
      <3>4. \E f : record' = [i \in Items |-> f[i]]
        <4> DEFINE f == [i \in Items |-> IF \E e \in b : TargetId[e] = i
                           THEN [from |-> CHOOSE e \in b : TargetId[e] = i, tiles |-> FALSE]
                           ELSE record[i]]
        <4>1. record' = f
          BY <3>1 DEF Upserted
        <4>2. f = [i \in Items |-> f[i]]
          OBVIOUS
        <4> QED BY <4>1, <4>2
      <3> QED BY <3>3, <3>4
    <2> HIDE DEF Item
    <2>4. record' = record => record' \in [Items -> Item]
      BY <2>1
    <2>5. record' \in [Items -> Item]
      BY <2>2, <2>3, <2>4, RecordMoves
    <2> QED BY <2>5 DEF Item
  <1>5. RunsTyped'
    <2>1. ASSUME NEW k \in Runs PROVE sync'[k] \in RunRecord
      <3>1. sync[k] \in RunRecord
        BY <1>1 DEF RunsTyped
      <3>2. [sync[k] EXCEPT !.listed = {}] \in RunRecord
        BY <3>1, SMTT(60) DEF RunRecord
      <3> QED BY <1>1, <3>1, <3>2, RunMoves, RunStepTyped
    <2>2. \E f : sync' = [j \in Runs |-> f[j]]
      <3>1. ASSUME NEW j \in Runs, OfRun(j) PROVE \E r : sync' = [sync EXCEPT ![j] = r]
        BY <3>1 DEF OfRun, BeginSync, ReadPage, ReadEvent, EventsRead, FindExisting, Build, Dump,
          Upsert, LoadFails, SourceFails
      <3>2. ASSUME NEW j \in Runs, OfRun(j) PROVE sync' = [k \in Runs |-> sync'[k]]
        <4>1. PICK r : sync' = [sync EXCEPT ![j] = r]
          BY <3>1, <3>2
        <4> QED BY <1>1, <4>1 DEF RunsTyped
      <3>3. ASSUME NEW n, Withdraw(n) PROVE sync' = [k \in Runs |-> sync'[k]]
        BY <3>3 DEF Withdraw
      <3>4. ASSUME NEW n, Publish(n) \/ PatchTiles(n) PROVE sync' = [k \in Runs |-> sync'[k]]
        BY <1>1, <3>4 DEF Publish, PatchTiles, RunsTyped
      <3> QED BY <3>2, <3>3, <3>4 DEF SyncNext, OfRun
    <2>3. sync' = [k \in Runs |-> sync'[k]]
      BY <2>2
    <2> QED BY <2>1, <2>3 DEF RunsTyped
  <1> QED BY <1>2, <1>3, <1>4, <1>5, TypeSplit DEF SyncTypeOK, RunsTyped, RunRecord

LEMMA MeaningStep ==
  ASSUME SyncTypeOK, RecordMeans, SyncNext
  PROVE  RecordMeans'
  <1>1. RunsTyped /\ record \in [Items -> [from : Entries \cup {NoEntry}, tiles : BOOLEAN]]
    BY TypeSplit
  <1>2. CASE record' = record
    BY <1>2 DEF RecordMeans, There
  <1>3. ASSUME NEW h \in Items, PatchTiles(h) PROVE RecordMeans'
    <2>1. \A i \in Items : record'[i].from = record[i].from
      BY <1>1, <1>3 DEF PatchTiles
    <2>2. \A i \in Items : record'[i].tiles => record[i].tiles \/ i = h
      BY <1>1, <1>3 DEF PatchTiles
    <2>3. There(h) /\ record[h].from \in Legacy
      BY <1>3 DEF PatchTiles
    <2> QED BY <2>1, <2>2, <2>3 DEF RecordMeans, There
  <1>4. ASSUME NEW j \in Runs, Upsert(j) \/ LoadFails(j) PROVE RecordMeans'
    <2>1. PICK b \in SUBSET Entries : record' = Upserted(b)
      BY <1>1, <1>4, LoadsBuilt
    <2>2. ASSUME NEW i \in Items
          PROVE  /\ record'[i].from # NoEntry => TargetId[record'[i].from] = i
                 /\ record'[i].tiles => record'[i].from # NoEntry /\ record'[i].from \in Legacy
      <3>1. \/ record'[i] = record[i]
            \/ \E e \in b : TargetId[e] = i /\ record'[i] = [from |-> e, tiles |-> FALSE]
        BY <2>1, UpsertedItem
      <3>2. ASSUME NEW e \in b, TargetId[e] = i, record'[i] = [from |-> e, tiles |-> FALSE]
            PROVE  <2>2!2
        BY <3>2
      <3>3. CASE record'[i] = record[i]
        BY <3>3 DEF RecordMeans, There
      <3> QED BY <3>1, <3>2, <3>3
    <2> QED BY <2>2 DEF RecordMeans, There
  <1> QED BY <1>2, <1>3, <1>4, RecordMoves

LEMMA SourceStep ==
  ASSUME SyncTypeOK, SourceKnown, SyncNext, NEW k \in Runs, OfSource(k)
  PROVE  OfSource(k)'
  <1>1. source' = source /\ source \in {"oam"} \cup Rules /\ "oam" \notin Rules
    BY SourceStays DEF SourceKnown, Rules
  <1>2. CASE Same(k)
    BY <1>1, <1>2 DEF Same, OfSource
  <1>3. CASE GaveUp(k)
    BY <1>1, <1>3 DEF GaveUp, OfSource
  <1>4. CASE Began(k)
    BY <1>1, <1>4 DEF Began, OfSource
  <1>5. CASE KeepsCourse(k) /\ PageRead(k)
    <2>1. {e \in Page(k) : Kept(e)} \subseteq Legacy
      BY ElementOfSeq DEF Page, SyncTypeOK
    <2>2. sync'[k].found \subseteq sync[k].found \cup Legacy /\ source = "oam"
      BY <1>5, <2>1 DEF PageRead
    <2> QED BY <1>1, <1>5, <2>2 DEF KeepsCourse, OfSource
  <1>6. CASE KeepsCourse(k) /\ EventRead(k)
    <2>1. sync'[k].found \subseteq sync[k].found \cup Provided /\ source \in Rules
      BY <1>6 DEF EventRead
    <2> QED BY <1>1, <1>6, <2>1 DEF KeepsCourse, OfSource
  <1>7. CASE KeepsCourse(k) /\ (Checked(k) \/ Made(k) \/ Finished(k))
    <2>1. sync'[k].found = sync[k].found /\ sync'[k].mode = sync[k].mode
      BY <1>7 DEF Checked, Made, Finished, KeepsCourse
    <2> QED BY <1>1, <2>1 DEF OfSource
  <1> QED BY <1>2, <1>3, <1>4, <1>5, <1>6, <1>7, RunFields DEF Moved

LEMMA ExistingStep ==
  ASSUME SyncTypeOK, SourceKnown, SyncNext, NEW k \in Runs, ExistingThere(k)
  PROVE  ExistingThere(k)'
  <1>1. sync[k].existing \subseteq Items
    BY TypeSplit DEF RunsTyped, RunRecord
  <1>2. \A i \in Items : There(i) => There(i)'
    BY ThereStays
  <1>3. CASE sync'[k].pc \notin {"checked", "made", "done"}
    BY <1>3 DEF ExistingThere
  <1>4. CASE KeepsCourse(k) /\ Checked(k)
    <2>1. sync'[k].existing \subseteq {i \in Items : There(i)}
      BY <1>4 DEF Checked
    <2>2. sync'[k].mode # "new" => sync'[k].existing = {}
      BY <1>4 DEF Checked, KeepsCourse
    <2> QED BY <1>2, <2>1, <2>2 DEF ExistingThere
  <1>5. CASE /\ sync'[k].existing = sync[k].existing /\ sync'[k].mode = sync[k].mode
             /\ sync[k].pc \in {"checked", "made", "done"}
    BY <1>1, <1>2, <1>5 DEF ExistingThere
  <1>6. Same(k) => <1>3!1 \/ <1>5!1
    BY DEF Same
  <1>7. KeepsCourse(k) /\ (Made(k) \/ Finished(k)) => <1>5!1
    BY DEF Made, Finished, KeepsCourse
  <1>8. GaveUp(k) \/ Began(k) \/ PageRead(k) \/ EventRead(k) => <1>3!1
    BY DEF GaveUp, Began, PageRead, EventRead
  <1> QED BY <1>3, <1>4, <1>5, <1>6, <1>7, <1>8, RunFields DEF Moved

LEMMA BuiltStep ==
  ASSUME SyncTypeOK, SourceKnown, SyncNext, NEW k \in Runs, BuiltSoundly(k)
  PROVE  BuiltSoundly(k)'
  <1>1. CASE sync'[k].pc \notin {"made", "done"}
    BY <1>1 DEF BuiltSoundly
  <1>2. CASE /\ sync'[k].found = sync[k].found /\ sync'[k].existing = sync[k].existing
             /\ sync'[k].built = sync[k].built /\ sync'[k].errors = sync[k].errors
             /\ sync[k].pc \in {"made", "done"}
    BY <1>2 DEF BuiltSoundly
  <1>3. CASE Made(k)
    <2> DEFINE b == sync'[k].built
    <2>1. /\ sync'[k].found = sync[k].found /\ sync'[k].existing = sync[k].existing
          /\ b \subseteq Wanting(k) /\ sync'[k].errors = Wanting(k) \ b
          /\ Chosen(b, Wanting(k)) = b /\ Covers(b, Wanting(k))
      BY <1>3 DEF Made, Errors
    <2>2. \A e \in b : e \in sync[k].found /\ TargetId[e] \notin sync[k].existing
      BY <2>1 DEF Wanting
    <2>3. \A e \in b : \A f \in b : TargetId[f] = TargetId[e] => f = e
      BY <2>1 DEF Chosen
    <2>4. \A e \in sync[k].found : TargetId[e] \in sync[k].existing \/ e \in Wanting(k)
      BY DEF Wanting
    <2>5. \A e \in Wanting(k) \ Unbuildable : \E f \in b : TargetId[f] = TargetId[e]
      BY <2>1 DEF Covers
    <2> HIDE DEF b
    <2>6. \A e \in b : TargetId[e] \notin sync'[k].existing
      BY <2>1, <2>2
    <2>7. \A e \in sync'[k].found :
            \/ TargetId[e] \in sync'[k].existing
            \/ e \in sync'[k].errors
            \/ e \in b /\ \A f \in b : TargetId[f] = TargetId[e] => f = e
      BY <2>1, <2>3, <2>4
    <2>8. \A e \in sync'[k].found \ Unbuildable :
            \/ TargetId[e] \in sync'[k].existing
            \/ \E f \in b : TargetId[f] = TargetId[e]
      BY <2>1, <2>4, <2>5
    <2>9. b \subseteq sync'[k].found
      BY <2>1, <2>2
    <2> QED BY <2>6, <2>7, <2>8, <2>9 DEF BuiltSoundly, b
  <1>4. Same(k) => <1>1!1 \/ <1>2!1
    BY DEF Same
  <1>5. Finished(k) => <1>2!1
    BY DEF Finished
  <1>6. GaveUp(k) \/ Began(k) \/ PageRead(k) \/ EventRead(k) \/ Checked(k) => <1>1!1
    BY DEF GaveUp, Began, PageRead, EventRead, Checked
  <1> QED BY <1>1, <1>2, <1>3, <1>4, <1>5, <1>6, RunFields DEF Moved

LEMMA LoadedStep ==
  ASSUME SyncTypeOK, SourceKnown, SyncNext, NEW k \in Runs, Loaded(k)
  PROVE  Loaded(k)'
  <1>1. sync[k].built \subseteq Entries /\ RunsTyped
    BY TypeSplit DEF RunsTyped, RunRecord
  <1>2. \A i \in Items : There(i) => There(i)'
    BY ThereStays
  <1>3. \A e \in Entries : TargetId[e] \in Items
    BY CollectionsApart DEF Entries
  <1>4. CASE sync'[k].pc # "done"
    BY <1>4 DEF Loaded
  <1>5. CASE Same(k)
    BY <1>1, <1>2, <1>3, <1>5 DEF Same, Loaded
  <1>6. CASE KeepsCourse(k) /\ Finished(k)
    <2>1. CASE sync[k].mode = "dump"
      BY <1>6, <2>1 DEF KeepsCourse, Loaded
    <2>2. CASE sync[k].mode # "dump"
      <3>1. record' = Upserted(sync[k].built) /\ sync'[k].built = sync[k].built
        BY <1>6, <2>2 DEF Finished, Upsert
      <3>2. ASSUME NEW f \in sync[k].built PROVE There(TargetId[f])'
        <4>1. PICK e \in sync[k].built :
                record'[TargetId[f]] = [from |-> e, tiles |-> FALSE]
          BY <1>1, <1>3, <3>1, UpsertedItem
        <4>2. e # NoEntry
          BY <1>1, SourcesApart DEF Entries
        <4> QED BY <1>1, <1>3, <4>1, <4>2 DEF There
      <3> QED BY <3>1, <3>2 DEF Loaded
    <2> QED BY <2>1, <2>2
  <1>7. GaveUp(k) \/ Began(k) \/ PageRead(k) \/ EventRead(k) \/ Checked(k) \/ Made(k)
          => sync'[k].pc # "done"
    BY DEF GaveUp, Began, PageRead, EventRead, Checked, Made
  <1> QED BY <1>4, <1>5, <1>6, <1>7, RunFields DEF Moved

-----------------------------------------------------------------------------
(* The pages. *)

(* A page of which nothing is kept, with an entry to keep behind it, would be
   full of unreadable ones. *)
LEMMA NothingBehind ==
  ASSUME FewUnreadable, SyncTypeOK, InOrder(listing), NEW k \in Runs,
         {e \in Page(k) : Kept(e)} = {},
         NEW n \in 1..Len(listing), Kept(listing[n]), n > sync[k].at * PageSize
  PROVE  FALSE
  <1> DEFINE from == (sync[k].at - 1) * PageSize
  <1>1. sync[k].at \in Nat \ {0}
    BY TypeSplit DEF RunsTyped, RunRecord
  <1>2. PageSize \in Nat \ {0} /\ Len(listing) \in Nat
    BY PagesHold, LenProperties DEF InOrder
  <1>3. from \in Nat /\ sync[k].at * PageSize = from + PageSize
    <2>1. \A a \in Nat \ {0}, p \in Nat : (a - 1) * p \in Nat /\ a * p = (a - 1) * p + p
      OBVIOUS
    <2> QED BY <1>1, <1>2, <2>1
  <1> HIDE DEF from
  <1>4. ASSUME NEW m \in 1..PageSize
        PROVE  from + m \in 1..Len(listing) /\ listing[from + m] \in Unparsed \cap Legacy
    <2>1. from + m \in 1..Len(listing) /\ from < from + m /\ from + m <= from + PageSize
          /\ from + m < n
      BY <1>2, <1>3
    <2>2. listing[from + m] \in Page(k)
      BY <1>3, <2>1 DEF Page, from
    <2>3. ~Kept(listing[from + m])
      BY <2>2
    <2>4. listing[from + m] \notin Early
      BY <2>1 DEF InOrder, Kept
    <2>5. listing[from + m] \in Legacy
      BY <2>1, ElementOfSeq DEF InOrder
    <2> QED BY <2>1, <2>3, <2>4, <2>5 DEF Kept
  <1> DEFINE page == [m \in 1..PageSize |-> listing[from + m]]
  <1>5. page \in [1..PageSize -> Unparsed \cap Legacy]
    BY <1>4
  <1>6. IsFiniteSet(1..PageSize) /\ Cardinality(1..PageSize) = PageSize
    BY <1>2, FS_Interval
  <1> HIDE DEF page
  <1>7. \E x, y \in 1..PageSize : x # y /\ page[x] = page[y]
    <2> DEFINE S == 1..PageSize
               T == Unparsed \cap Legacy
    <2>1. IsFiniteSet(S) /\ IsFiniteSet(T) /\ Cardinality(T) < Cardinality(S)
      BY <1>6 DEF FewUnreadable
    <2>2. page \in [S -> T]
      BY <1>5
    <2> HIDE DEF S, T
    <2>3. \E x, y \in S : x # y /\ page[x] = page[y]
      BY <2>1, <2>2, FS_PigeonHole
    <2> QED BY <2>3 DEF S
  <1>8. PICK x \in 1..PageSize, y \in 1..PageSize : x # y /\ page[x] = page[y]
    BY <1>7
  <1>9. listing[from + x] = listing[from + y]
    BY <1>8 DEF page
  <1>10. from + x = from + y
    BY <1>4, <1>9 DEF InOrder
  <1> QED BY <1>3, <1>8, <1>10

LEMMA PageStep ==
  ASSUME FewUnreadable, SyncTypeOK, InOrder(listing), NEW k \in Runs, PageRead(k),
         listing' = listing, NEW e, Kept(e), e \in sync[k].found \/ Ahead(k, e)
  PROVE  /\ sync'[k].pc = "finding" => e \in sync'[k].found \/ Ahead(k, e)'
         /\ sync'[k].pc = "found" => e \in sync'[k].found
  <1>1. CASE e \in sync[k].found
    BY <1>1 DEF PageRead
  <1>2. ASSUME NEW n \in 1..Len(listing), listing[n] = e, n > (sync[k].at - 1) * PageSize
        PROVE  /\ sync'[k].pc = "finding" => e \in sync'[k].found \/ Ahead(k, e)'
               /\ sync'[k].pc = "found" => e \in sync'[k].found
    <2>1. CASE n <= sync[k].at * PageSize
      <3>1. e \in Page(k)
        BY <1>2, <2>1 DEF Page
      <3> QED BY <3>1 DEF PageRead
    <2>2. CASE n > sync[k].at * PageSize
      <3>1. sync'[k].pc = "found" => FALSE
        BY <1>2, <2>2, NothingBehind DEF PageRead
      <3>2. (sync'[k].at - 1) * PageSize = sync[k].at * PageSize
        <4>1. sync[k].at \in Nat
          BY TypeSplit DEF RunsTyped, RunRecord
        <4>2. sync'[k].at - 1 = sync[k].at
          BY <4>1 DEF PageRead
        <4> QED BY <4>2
      <3>3. Ahead(k, e)'
        BY <1>2, <2>2, <3>2 DEF Ahead
      <3> QED BY <3>1, <3>3
    <2>3. n \in Nat /\ sync[k].at * PageSize \in Nat
      BY PagesHold, LenProperties, TypeSplit DEF RunsTyped, RunRecord, InOrder
    <2> QED BY <2>1, <2>2, <2>3
  <1> QED BY <1>1, <1>2 DEF Ahead

(* An entry that is ahead of a run stays there while the source only publishes. *)
LEMMA AheadStays ==
  ASSUME SyncTypeOK, NEW k \in Runs, NEW e, Ahead(k, e), sync'[k].at = sync[k].at,
         listing' = listing \/ \E f \in Legacy : Publish(f)
  PROVE  Ahead(k, e)'
  <1>1. PICK n \in 1..Len(listing) : listing[n] = e /\ n > (sync[k].at - 1) * PageSize
    BY DEF Ahead
  <1>2. Len(listing) \in Nat /\ listing \in Seq(Legacy)
    BY LenProperties DEF SyncTypeOK
  <1>3. (sync[k].at - 1) * PageSize \in Int
    BY PagesHold, TypeSplit DEF RunsTyped, RunRecord
  <1>4. CASE listing' = listing
    BY <1>1, <1>4 DEF Ahead
  <1>5. ASSUME NEW f \in Legacy, Publish(f) PROVE Ahead(k, e)'
    <2>1. CASE f \in Early
      <3>1. listing' = Append(listing, f)
        BY <1>5, <2>1 DEF Publish
      <3>2. n \in 1..Len(listing') /\ listing'[n] = e
        BY <1>1, <1>2, <3>1, AppendProperties
      <3> QED BY <1>1, <3>2 DEF Ahead
    <2>2. CASE f \notin Early
      <3>1. listing' = <<f>> \o listing
        BY <1>5, <2>2 DEF Publish
      <3>2. n + 1 \in 1..Len(listing') /\ listing'[n + 1] = e
        BY <1>1, <1>2, <3>1, InFront
      <3>3. n + 1 > (sync[k].at - 1) * PageSize
        BY <1>1, <1>3
      <3> QED BY <3>2, <3>3 DEF Ahead
    <2> QED BY <2>1, <2>2
  <1> QED BY <1>4, <1>5

LEMMA PromisesEnd ==
  ASSUME RunsTyped, SyncNext, NEW k \in Runs
  PROVE  \/ listing' = listing
         \/ sync' = sync /\ \E e \in Legacy : Publish(e)
         \/ sync'[k].listed = {}
  <1>1. ASSUME NEW e, Publish(e) PROVE sync' = sync
    BY <1>1 DEF Publish
  <1>2. ASSUME NEW n, Withdraw(n) PROVE sync'[k].listed = {}
    <2>1. sync[k] \in RunRecord
      BY DEF RunsTyped
    <2>2. sync'[k] = [sync[k] EXCEPT !.listed = {}]
      BY <1>2 DEF Withdraw
    <2> QED BY <2>1, <2>2 DEF RunRecord
  <1> QED BY <1>1, <1>2, ListingMoves

LEMMA NoneLeftStep ==
  ASSUME FewUnreadable, SyncTypeOK, SourceKnown, InOrder(listing), SyncNext, NEW k \in Runs,
         NoneLeftBehind(k)
  PROVE  NoneLeftBehind(k)'
  <1>1. source' = source
    BY SourceStays
  <1> DEFINE Held(e) ==
        /\ sync'[k].pc = "finding" => e \in sync'[k].found \/ Ahead(k, e)'
        /\ sync'[k].pc \in {"found", "checked", "made", "done"} => e \in sync'[k].found
  <1>2. SUFFICES ASSUME source = "oam", NEW e \in sync'[k].listed, Kept(e)
                 PROVE  Held(e)
    BY <1>1 DEF NoneLeftBehind, Kept
  <1>3. ASSUME Same(k), listing' = listing \/ \E f \in Legacy : Publish(f) PROVE Held(e)
    <2>1. e \in sync[k].listed /\ sync'[k].at = sync[k].at
      BY <1>2, <1>3 DEF Same
    <2>2. CASE e \in sync[k].found \/ sync[k].pc # "finding"
      BY <1>2, <1>3, <2>1, <2>2 DEF Same, NoneLeftBehind
    <2>3. CASE Ahead(k, e) /\ sync[k].pc = "finding"
      BY <1>3, <2>1, <2>3, AheadStays DEF Same
    <2> QED BY <1>2, <2>1, <2>2, <2>3 DEF NoneLeftBehind
  <1>4. ASSUME sync' = sync, \E f \in Legacy : Publish(f) PROVE Held(e)
    BY <1>3, <1>4 DEF Same
  <1>5. ASSUME listing' = listing, ~Same(k) PROVE Held(e)
    <2>1. CASE GaveUp(k)
      BY <2>1 DEF GaveUp
    <2>2. CASE Began(k)
      <3>1. PICK n \in 1..Len(listing) : listing[n] = e
        BY <1>2, <2>2 DEF Began, Listed
      <3>2. n > (sync'[k].at - 1) * PageSize
        BY <2>2, PagesHold DEF Began
      <3>3. Ahead(k, e)'
        BY <1>5, <3>1, <3>2 DEF Ahead
      <3> QED BY <2>2, <3>3 DEF Began
    <2>3. CASE KeepsCourse(k) /\ PageRead(k)
      <3>1. e \in sync[k].found \/ Ahead(k, e)
        BY <1>2, <2>3 DEF KeepsCourse, PageRead, NoneLeftBehind
      <3>2. sync'[k].pc \in {"finding", "found"}
        BY <2>3 DEF PageRead
      <3> QED BY <1>2, <1>5, <2>3, <3>1, <3>2, PageStep
    <2>4. CASE KeepsCourse(k) /\ EventRead(k)
      BY <1>2, <2>4 DEF EventRead, Rules
    <2>5. CASE KeepsCourse(k) /\ (Checked(k) \/ Made(k) \/ Finished(k))
      <3>1. /\ sync[k].pc \in {"found", "checked", "made"} /\ sync'[k].pc # "finding"
            /\ sync'[k].found = sync[k].found /\ sync'[k].listed = sync[k].listed
        BY <2>5 DEF Checked, Made, Finished, KeepsCourse
      <3> QED BY <1>2, <3>1 DEF NoneLeftBehind
    <2> QED BY <1>5, <2>1, <2>2, <2>3, <2>4, <2>5, RunFields DEF Moved
  <1> QED BY <1>2, <1>3, <1>4, <1>5, PromisesEnd, TypeSplit

-----------------------------------------------------------------------------
LEMMA CatalogueStep ==
  ASSUME CatalogueInv, [SyncNext]_syncVars
  PROVE  CatalogueInv'
  <1>1. CASE SyncNext
    BY <1>1, TypeStep, OrderStep, MeaningStep, SourceStays, SourceStep, ExistingStep,
       BuiltStep, LoadedStep DEF CatalogueInv, SourceKnown
  <1>2. CASE UNCHANGED syncVars
    BY <1>2 DEF syncVars, CatalogueInv, SyncTypeOK, SourceKnown, InOrder, RecordMeans, There,
      OfSource, ExistingThere, BuiltSoundly, Loaded
  <1> QED BY <1>1, <1>2

LEMMA PagesStep ==
  ASSUME FewUnreadable, CatalogueInv, PagesInv, [SyncNext]_syncVars
  PROVE  PagesInv'
  <1>1. CASE SyncNext
    BY <1>1, NoneLeftStep DEF CatalogueInv, PagesInv
  <1>2. CASE UNCHANGED syncVars
    BY <1>2 DEF syncVars, PagesInv, NoneLeftBehind, Ahead
  <1> QED BY <1>1, <1>2

LEMMA CatalogueInit ==
  ASSUME SyncInit
  PROVE  CatalogueInv /\ PagesInv
  <1>1. \A k \in Runs : sync[k] = NoRun
    BY DEF SyncInit
  <1>2. SyncTypeOK
    BY NewestFirst, NoRunTyped, TypeSplit DEF SyncInit, RunsTyped
  <1>3. SourceKnown /\ InOrder(listing)
    BY NewestFirst DEF SyncInit, SourceKnown, InOrder
  <1>4. RecordMeans
    BY DEF SyncInit, RecordMeans, There
  <1>5. NoRun.mode = "new"
    BY DEF NoRun
  <1>6. ASSUME NEW k \in Runs
        PROVE  /\ OfSource(k) /\ NoneLeftBehind(k) /\ ExistingThere(k)
               /\ BuiltSoundly(k) /\ Loaded(k)
    BY <1>1, <1>5, NoRunTyped DEF OfSource, NoneLeftBehind, ExistingThere, BuiltSoundly, Loaded
  <1> QED BY <1>2, <1>3, <1>4, <1>6 DEF CatalogueInv, PagesInv

LEMMA AnswersForAll ==
  ASSUME CatalogueInv, PagesInv
  PROVE  RunsAccountForAll
  <1>1. ASSUME NEW j \in Runs, sync[j].pc = "done", source = "oam",
               NEW e \in sync[j].listed, Kept(e), e \notin Unbuildable
        PROVE  Delivered(j, e)
    <2>1. e \in sync[j].found
      BY <1>1 DEF PagesInv, NoneLeftBehind
    <2>2. \/ TargetId[e] \in sync[j].existing
          \/ \E f \in sync[j].built : TargetId[f] = TargetId[e]
      BY <1>1, <2>1 DEF CatalogueInv, BuiltSoundly
    <2>3. CASE sync[j].mode = "dump"
      BY <1>1, <2>2, <2>3 DEF CatalogueInv, ExistingThere, Delivered
    <2>4. CASE sync[j].mode # "dump"
      <3>1. \A i \in sync[j].existing : There(i)
        BY <1>1 DEF CatalogueInv, ExistingThere
      <3>2. \A f \in sync[j].built : There(TargetId[f])
        BY <1>1, <2>4 DEF CatalogueInv, Loaded
      <3> QED BY <2>2, <2>4, <3>1, <3>2 DEF Delivered
    <2> QED BY <2>3, <2>4
  <1>2. NothingSkipped
    BY <1>1 DEF NothingSkipped
  <1>3. EveryEntryAccounted
    BY DEF CatalogueInv, BuiltSoundly, EveryEntryAccounted
  <1> QED BY <1>2, <1>3 DEF RunsAccountForAll, CatalogueInv

(* A run that ends has loaded, found there or written out every entry of the
   legacy API listed throughout that an item of its own can be built from, and
   answers for whatever else it found, however the listing shifts under it and
   however many runs there are, while fewer entries cannot be read than a page
   holds: get_all_items, get_existing_item_ids, create_item and load_items. *)
THEOREM RunsAnswer ==
  ASSUME FewUnreadable
  PROVE  SyncSpec => []RunsAccountForAll
  <1>1. SyncInit => CatalogueInv /\ PagesInv
    BY CatalogueInit
  <1>2. CatalogueInv /\ PagesInv /\ [SyncNext]_syncVars => CatalogueInv' /\ PagesInv'
    BY CatalogueStep, PagesStep
  <1>3. CatalogueInv /\ PagesInv => RunsAccountForAll
    BY AnswersForAll
  <1> QED BY <1>1, <1>2, <1>3, PTL DEF SyncSpec

-----------------------------------------------------------------------------
(* Runs beside one another. *)

(* What was there when a run began is there still, and a sync of the legacy API
   that has asked knows of all of it that it found. *)
KnowsOldItems(k) ==
  /\ \A i \in sync[k].there : There(i)
  /\ source = "oam" /\ sync[k].mode = "new" /\ sync[k].pc \in {"checked", "made"} =>
       \A e \in sync[k].found :
         TargetId[e] \in sync[k].there => TargetId[e] \in sync[k].existing

OldItemsInv == \A k \in Runs : KnowsOldItems(k)

LEMMA KnowsStep ==
  ASSUME SyncTypeOK, SourceKnown, SyncNext, NEW k \in Runs, KnowsOldItems(k)
  PROVE  KnowsOldItems(k)'
  <1>1. source' = source
    BY SourceStays
  <1>2. sync[k].found \subseteq Entries /\ sync[k].there \subseteq Items
        /\ \A e \in Entries : TargetId[e] \in Items
    BY TypeSplit, CollectionsApart DEF RunsTyped, RunRecord, Entries
  <1>3. \A i \in Items : There(i) => There(i)'
    BY ThereStays
  <1>4. \A i \in sync'[k].there : There(i)'
    <2>1. Began(k) => \A i \in sync'[k].there : i \in Items /\ There(i)
      BY DEF Began
    <2>2. GaveUp(k) => sync'[k].there = {}
      BY DEF GaveUp
    <2>3. Same(k) \/ KeepsCourse(k) => sync'[k].there = sync[k].there
      BY DEF Same, KeepsCourse
    <2> QED BY <1>2, <1>3, <2>1, <2>2, <2>3, RunFields DEF KnowsOldItems
  <1>5. CASE sync'[k].pc \notin {"checked", "made"}
    BY <1>4, <1>5 DEF KnowsOldItems
  <1>6. CASE KeepsCourse(k) /\ Checked(k)
    <2>1. /\ sync'[k].found = sync[k].found /\ sync'[k].there = sync[k].there
          /\ sync'[k].mode = "new" => sync'[k].existing =
               {TargetId[e] : e \in sync[k].found} \cap {i \in Items : There(i)}
      BY <1>6 DEF Checked, KeepsCourse
    <2>2. ASSUME NEW e \in sync[k].found, TargetId[e] \in sync[k].there, sync'[k].mode = "new"
          PROVE  TargetId[e] \in sync'[k].existing
      BY <1>2, <2>1, <2>2 DEF KnowsOldItems
    <2> QED BY <1>4, <2>1, <2>2 DEF KnowsOldItems
  <1>7. CASE /\ sync'[k].found = sync[k].found /\ sync'[k].existing = sync[k].existing
             /\ sync'[k].mode = sync[k].mode /\ sync'[k].there = sync[k].there
             /\ sync[k].pc \in {"checked", "made"}
    BY <1>1, <1>4, <1>7 DEF KnowsOldItems
  <1>8. Same(k) => <1>5!1 \/ <1>7!1
    BY DEF Same
  <1>9. KeepsCourse(k) /\ Made(k) => <1>7!1
    BY DEF KeepsCourse, Made
  <1>10. GaveUp(k) \/ Began(k) \/ PageRead(k) \/ EventRead(k) \/ Finished(k) => <1>5!1
    BY DEF GaveUp, Began, PageRead, EventRead, Finished
  <1> QED BY <1>5, <1>6, <1>7, <1>8, <1>9, <1>10, RunFields DEF Moved

LEMMA OldItemsStep ==
  ASSUME CatalogueInv, OldItemsInv, [SyncNext]_syncVars
  PROVE  OldItemsInv'
  <1>1. CASE SyncNext
    BY <1>1, KnowsStep DEF OldItemsInv, CatalogueInv
  <1>2. CASE UNCHANGED syncVars
    BY <1>2 DEF syncVars, OldItemsInv, KnowsOldItems, There
  <1> QED BY <1>1, <1>2

(* A run loads nothing over an item that has an archive and was there before. *)
LEMMA OldNotOverwritten ==
  ASSUME CatalogueInv, OldItemsInv, NEW j \in Runs, Upsert(j) \/ LoadFails(j),
         NEW e \in sync[j].built, NEW i \in Items, TargetId[e] = i, record[i].tiles
  PROVE  i \notin sync[j].there
  <1>1. /\ There(i) /\ record[i].from \in Legacy /\ TargetId[record[i].from] = i
        /\ sync[j].pc = "made" /\ sync[j].mode # "dump" /\ e \in sync[j].found
        /\ TargetId[e] \notin sync[j].existing
    BY DEF CatalogueInv, RecordMeans, BuiltSoundly, Upsert, LoadFails
  <1>2. CASE source = "oam"
    <2>1. sync[j].mode = "new"
      BY <1>1, <1>2, TypeSplit DEF CatalogueInv, OfSource, RunsTyped, RunRecord
    <2> QED BY <1>1, <1>2, <2>1 DEF OldItemsInv, KnowsOldItems
  <1>3. CASE source \in Rules
    <2>1. e \in Provided
      BY <1>1, <1>3 DEF CatalogueInv, OfSource
    <2> QED BY <1>1, <2>1, CollectionsApart
  <1> QED BY <1>2, <1>3 DEF CatalogueInv, SourceKnown

LEMMA AssetsStep ==
  ASSUME CatalogueInv, OldItemsInv, [SyncNext]_syncVars, NEW i \in Items,
         record[i].tiles, ~record'[i].tiles
  PROVE  \E j \in Runs : sync[j].pc = "made" /\ sync'[j].pc # "made" /\ i \notin sync[j].there
  <1>1. RunsTyped /\ record \in [Items -> [from : Entries \cup {NoEntry}, tiles : BOOLEAN]]
    BY TypeSplit DEF CatalogueInv
  <1>2. record' # record
    OBVIOUS
  <1>3. ASSUME NEW h \in Items, PatchTiles(h) PROVE FALSE
    BY <1>1, <1>3 DEF PatchTiles
  <1>4. ASSUME NEW j \in Runs, Upsert(j) \/ LoadFails(j)
        PROVE  sync[j].pc = "made" /\ sync'[j].pc # "made" /\ i \notin sync[j].there
    <2>1. PICK b \in SUBSET sync[j].built : b \in SUBSET Entries /\ record' = Upserted(b)
      BY <1>1, <1>4, LoadsBuilt
    <2>2. PICK e \in b : TargetId[e] = i
      BY <2>1, UpsertedItem
    <2>3. i \notin sync[j].there
      BY <1>4, <2>1, <2>2, OldNotOverwritten
    <2>4. sync[j].pc = "made" /\ (sync'[j] = Failed \/ sync'[j] = [sync[j] EXCEPT !.pc = "done"])
      BY <1>1, <1>4, LoadsBuilt
    <2>5. sync'[j].pc # "made"
      BY <1>1, <2>4, NoRunTyped DEF RunsTyped, RunRecord
    <2> QED BY <2>3, <2>4, <2>5
  <1> QED BY <1>2, <1>3, <1>4, RecordMoves DEF syncVars

(* No load, whole or cut short, takes an archive from an item that was in the
   catalogue when its run began, however many jobs of the source run beside one
   another and whatever they load and the tilepack API registers meanwhile: a
   sync asks what is there after it began, and none is removed
   (get_existing_item_ids, load_items).  Of what another job loads after the
   question nothing is promised, and the run may take its archive. *)
THEOREM ArchivesSurvive == SyncSpec => OldItemsKeepAssets
  <1>1. SyncInit => CatalogueInv /\ OldItemsInv
    <2>1. ASSUME SyncInit PROVE OldItemsInv
      <3>1. \A k \in Runs : sync[k].pc = "idle" /\ sync[k].there = {}
        BY <2>1, NoRunTyped DEF SyncInit
      <3> QED BY <3>1 DEF OldItemsInv, KnowsOldItems
    <2> QED BY <2>1, CatalogueInit
  <1>2. CatalogueInv /\ OldItemsInv /\ [SyncNext]_syncVars => CatalogueInv' /\ OldItemsInv'
    BY CatalogueStep, OldItemsStep
  <1>3. CatalogueInv /\ OldItemsInv /\ [SyncNext]_syncVars
          => [\A i \in Items : record[i].tiles /\ ~record'[i].tiles =>
                \E j \in Runs :
                  sync[j].pc = "made" /\ sync'[j].pc # "made" /\ i \notin sync[j].there]_syncVars
    BY AssetsStep
  <1> QED BY <1>1, <1>2, <1>3, PTL DEF SyncSpec, OldItemsKeepAssets

-----------------------------------------------------------------------------
(* The harvest of elevation tiles (Elevation). *)

(* How many of S are before t, and the page t is on. *)
Before(S, t)  == {s \in S : s < t}
PageNo(S, t)  == Cardinality(Before(S, t)) \div PageLimit

Asked(box) == IF box THEN Boxed ELSE Tiles

(* A request of a harvest, and the page that answers it. *)
Request(box, k) == Body(TRUE, box, k)
TilesOn(box, k) == PageOf(Request(box, k))

(* The pages read so far are the first ones of what was asked for, in order; when
   the last of them is read there are no more. *)
PagesRead ==
  /\ harvest.read \in Seq(SUBSET Asked(harvest.bbox))
  /\ \A n \in 1..Len(harvest.read) : harvest.read[n] = TilesOn(harvest.bbox, n - 1)

HarvestInv ==
  /\ known \in BOOLEAN /\ tiles \subseteq Tiles \cup Foreign
  /\ harvest.pc \in {"idle", "reading", "read", "done", "failed"}
  /\ harvest = [pc |-> harvest.pc, bbox |-> harvest.bbox, body |-> harvest.body,
                read |-> harvest.read, runs |-> harvest.runs]
  /\ harvest.bbox \in BOOLEAN
  /\ PagesRead
  /\ harvest.pc = "reading" => harvest.body = Request(harvest.bbox, Len(harvest.read))
  /\ harvest.pc \in {"read", "done"} => Harvested = Asked(harvest.bbox)
  /\ harvest.pc = "done" => Asked(harvest.bbox) \subseteq tiles /\ known

LEMMA AskedFinite ==
  ASSUME NEW box \in BOOLEAN
  PROVE  IsFiniteSet(Asked(box)) /\ Asked(box) \subseteq Tiles /\ Asked(box) \subseteq Nat
         /\ \A next : Matching(Request(box, next)) = Asked(box)
  <1>1. Asked(box) \subseteq Tiles /\ Tiles \subseteq Nat
    BY TilesAssumption DEF Asked
  <1>2. IsFiniteSet(Asked(box))
    BY <1>1, TilesAssumption, FS_Subset
  <1>3. \A next : Matching(Request(box, next)) = Asked(box)
    BY DEF Matching, Request, Body, Asked
  <1> QED  BY <1>1, <1>2, <1>3

(* A tile is on one page, and of as many pages as hold them all. *)
LEMMA OnOnePage ==
  ASSUME NEW box \in BOOLEAN, NEW t \in Asked(box)
  PROVE  /\ PageNo(Asked(box), t) \in Nat
         /\ PageNo(Asked(box), t) * PageLimit < Cardinality(Asked(box))
         /\ \A next : t \in TilesOn(box, next) <=> PageNo(Asked(box), t) = next
  <1> DEFINE S == Asked(box)
             k == Cardinality(Before(S, t))
  <1>1. IsFiniteSet(S) /\ S \subseteq Nat /\ \A next : Matching(Request(box, next)) = S
    BY AskedFinite
  <1>2. k \in Nat /\ k < Cardinality(S) /\ Cardinality(S) \in Nat
    <2>1. Before(S, t) \subseteq S \ {t} /\ IsFiniteSet(S \ {t})
      BY <1>1, FS_Subset DEF Before
    <2>2. IsFiniteSet(Before(S, t)) /\ k <= Cardinality(S \ {t})
      BY <2>1, FS_Subset
    <2>3. Cardinality(S \ {t}) = Cardinality(S) - 1
      BY <1>1, FS_RemoveElement
    <2> QED  BY <1>1, <2>1, <2>2, <2>3, FS_CardinalityType
  <1>3. PageLimit \in Nat /\ PageLimit > 0
    BY TilesAssumption
  <1>4. k \div PageLimit \in Nat /\ (k \div PageLimit) * PageLimit <= k
    <2> HIDE DEF k
    <2> QED  BY <1>2, <1>3
  <1>5. \A next : t \in TilesOn(box, next) <=> PageNo(S, t) = next
    <2> TAKE next
    <2>1. Request(box, next).next = next
      BY DEF Request, Body
    <2> QED  BY <1>1, <2>1 DEF TilesOn, PageOf, PageNo, Before
  <1>6. PageNo(S, t) = k \div PageLimit
    BY DEF PageNo
  <1>7. (k \div PageLimit) * PageLimit \in Int
    BY <1>3, <1>4
  <1> HIDE DEF k, S
  <1>8. (k \div PageLimit) * PageLimit < Cardinality(S)
    BY <1>2, <1>4, <1>7
  <1> QED  BY <1>4, <1>5, <1>6, <1>8 DEF S

(* What is left to read begins where the last page ends. *)
LEMMA LastPage ==
  ASSUME NEW box \in BOOLEAN, NEW t \in Asked(box), NEW n \in Nat \ {0},
         ~HasNext(Request(box, n - 1))
  PROVE  PageNo(Asked(box), t) < n
  <1> DEFINE p == PageNo(Asked(box), t)
             c == Cardinality(Asked(box))
  <1>1. p \in Nat /\ p * PageLimit < c
    BY OnOnePage
  <1>2. c <= n * PageLimit
    <2>1. Matching(Request(box, n - 1)) = Asked(box) /\ IsFiniteSet(Asked(box))
      BY AskedFinite
    <2>2. Request(box, n - 1).next = n - 1
      BY DEF Request, Body
    <2>3. ~(c > (n - 1 + 1) * PageLimit)
      BY <2>1, <2>2 DEF HasNext
    <2>4. c \in Nat
      BY <2>1, FS_CardinalityType
    <2>5. n - 1 + 1 = n
      OBVIOUS
    <2> HIDE DEF c
    <2> QED  BY <2>3, <2>4, <2>5, TilesAssumption
  <1>3. PageLimit \in Nat /\ PageLimit > 0
    BY TilesAssumption
  <1>4. c \in Nat
    BY AskedFinite, FS_CardinalityType
  <1> HIDE DEF p, c
  <1>5. p * PageLimit < n * PageLimit
    BY <1>1, <1>2, <1>3, <1>4
  <1>6. ASSUME p >= n PROVE FALSE
    <2>1. PICK d \in Nat : p = n + d
      BY <1>1, <1>6
    <2>2. p * PageLimit = n * PageLimit + d * PageLimit
      BY <1>3, <2>1
    <2>3. d * PageLimit >= 0 /\ n * PageLimit \in Nat /\ d * PageLimit \in Nat
      BY <1>3, <2>1
    <2> QED  BY <1>5, <2>2, <2>3
  <1> QED  BY <1>1, <1>6 DEF p

LEMMA NextBody ==
  ASSUME NEW box, NEW n \in Nat, NEW merge \in BOOLEAN
  PROVE  NextPageBody(Request(box, n), merge) = Request(box, n + 1)
  BY DEF NextPageBody, LinkBody, Request, Body

LEMMA HarvestInvInit == ElevationInit => HarvestInv
  <1> SUFFICES ASSUME ElevationInit PROVE HarvestInv
    OBVIOUS
  <1>1. harvest = AtRest /\ known = FALSE /\ tiles = {}
    BY DEF ElevationInit
  <1>2. harvest.read = <<>> /\ harvest.bbox = FALSE /\ harvest.pc = "idle"
    BY <1>1 DEF AtRest
  <1>3. PagesRead
    BY <1>2 DEF PagesRead
  <1> QED  BY <1>1, <1>2, <1>3 DEF HarvestInv, AtRest

(* One more page, and the last. *)
LEMMA ReadsOn ==
  ASSUME HarvestInv, ReadTiles
  PROVE  HarvestInv'
  <1> DEFINE box == harvest.bbox
             r == harvest.read
             n == Len(harvest.read)
             b == Request(box, n)
  <1>1. /\ box \in BOOLEAN /\ r \in Seq(SUBSET Asked(box)) /\ n \in Nat
        /\ \A m \in 1..n : r[m] = TilesOn(box, m - 1)
        /\ harvest.body = b /\ harvest.pc = "reading"
    <2>1. PagesRead /\ box \in BOOLEAN /\ harvest.pc = "reading" /\ harvest.body = b
      BY DEF HarvestInv, ReadTiles
    <2> QED  BY <2>1 DEF PagesRead
  <1>2. PICK merge \in BOOLEAN :
          harvest' = [harvest EXCEPT !.read = Append(@, TilesOn(box, n)),
                        !.body = IF HasNext(b) THEN NextPageBody(b, merge) ELSE b,
                        !.pc = IF HasNext(b) THEN "reading" ELSE "read"]
    BY <1>1 DEF ReadTiles, TilesOn
  <1>3. /\ harvest'.pc = (IF HasNext(b) THEN "reading" ELSE "read") /\ harvest'.bbox = box
        /\ harvest'.read = Append(r, TilesOn(box, n))
        /\ harvest'.body = (IF HasNext(b) THEN NextPageBody(b, merge) ELSE b)
        /\ harvest' = [pc |-> harvest'.pc, bbox |-> harvest'.bbox, body |-> harvest'.body,
                       read |-> harvest'.read, runs |-> harvest'.runs]
    BY <1>2 DEF HarvestInv
  <1>4. TilesOn(box, n) \subseteq Asked(box)
    BY <1>1, AskedFinite DEF TilesOn, PageOf
  <1>5. /\ harvest'.read \in Seq(SUBSET Asked(box)) /\ Len(harvest'.read) = n + 1
        /\ \A m \in 1..n : harvest'.read[m] = r[m]
        /\ harvest'.read[n + 1] = TilesOn(box, n)
    <2> HIDE DEF b, r, box
    <2> QED  BY <1>1, <1>3, <1>4 DEF r
  <1>6. \A m \in 1..(n + 1) : harvest'.read[m] = TilesOn(box, m - 1)
    <2> TAKE m \in 1..(n + 1)
    <2>1. CASE m \in 1..n
      BY <1>1, <1>5, <2>1
    <2>2. CASE m = n + 1
      <3>1. m - 1 = n /\ harvest'.read[m] = TilesOn(box, n)
        BY <1>1, <1>5, <2>2
      <3> QED  BY <3>1
    <2> QED  BY <1>1, <2>1, <2>2
  <1>7. PagesRead'
    BY <1>3, <1>5, <1>6 DEF PagesRead
  <1>8. CASE HasNext(b)
    <2>1. harvest'.body = Request(box, n + 1)
      BY <1>1, <1>3, <1>8, NextBody
    <2> QED  BY <1>1, <1>3, <1>5, <1>7, <1>8, <2>1 DEF HarvestInv, ReadTiles
  <1>9. CASE ~HasNext(b)
    <2>1. Harvested' \subseteq Asked(box)
      BY <1>5 DEF Harvested
    <2>2. ASSUME NEW t \in Asked(box) PROVE t \in Harvested'
      <3> DEFINE p == PageNo(Asked(box), t)
      <3>1. p \in Nat /\ t \in TilesOn(box, p)
        BY <1>1, <2>2, OnOnePage
      <3>2. p < n + 1
        <4>1. n + 1 \in Nat \ {0} /\ n + 1 - 1 = n
          BY <1>1
        <4>2. Request(box, n + 1 - 1) = b
          BY <4>1
        <4> HIDE DEF b, n, p
        <4>3. ~HasNext(Request(box, n + 1 - 1))
          BY <1>9, <4>2
        <4> QED  BY <1>1, <2>2, <4>1, <4>3, LastPage DEF p
      <3>3. p + 1 \in 1..(n + 1) /\ p + 1 - 1 = p
        <4> HIDE DEF p
        <4> QED  BY <1>1, <3>1, <3>2
      <3>4. harvest'.read[p + 1] = TilesOn(box, p)
        <4> HIDE DEF p, n
        <4>1. PICK m \in 1..(n + 1) : m = p + 1
          BY <3>3
        <4>2. harvest'.read[m] = TilesOn(box, m - 1)
          BY <1>6
        <4>3. m - 1 = p
          BY <3>1, <4>1
        <4> QED  BY <4>1, <4>2, <4>3
      <3>5. p + 1 \in DOMAIN harvest'.read
        BY <1>5, <3>3
      <3> QED  BY <3>1, <3>4, <3>5 DEF Harvested
    <2> QED  BY <1>1, <1>3, <1>7, <1>9, <2>1, <2>2 DEF HarvestInv, ReadTiles
  <1> QED  BY <1>8, <1>9

LEMMA HarvestInvNext ==
  ASSUME HarvestInv, [ElevationNext]_elevationVars
  PROVE  HarvestInv'
  <1>1. CASE SyncCollection
    BY <1>1 DEF SyncCollection, HarvestInv, PagesRead, Harvested
  <1>2. ASSUME NEW box \in BOOLEAN, BeginHarvest(box) PROVE HarvestInv'
    <2>1. harvest' = [pc |-> "reading", bbox |-> box, body |-> Request(box, 0), read |-> <<>>,
                      runs |-> harvest.runs + 1]
      BY <1>2 DEF BeginHarvest, Request
    <2>2. PagesRead'
      BY <2>1 DEF PagesRead
    <2>3. Request(box, 0) = Request(box, Len(<<>>))
      OBVIOUS
    <2>4. /\ harvest'.pc = "reading" /\ harvest'.bbox = box /\ harvest'.body = Request(box, Len(harvest'.read))
          /\ harvest' = [pc |-> harvest'.pc, bbox |-> harvest'.bbox, body |-> harvest'.body,
                         read |-> harvest'.read, runs |-> harvest'.runs]
      BY <2>1, <2>3
    <2> QED  BY <1>2, <2>2, <2>4 DEF BeginHarvest, HarvestInv
  <1>3. CASE ReadTiles
    BY <1>3, ReadsOn
  <1>4. Harvested \subseteq Tiles
    <2>1. harvest.bbox \in BOOLEAN /\ harvest.read \in Seq(SUBSET Asked(harvest.bbox))
      BY DEF HarvestInv, PagesRead
    <2>2. Asked(harvest.bbox) \subseteq Tiles
      BY <2>1, AskedFinite
    <2>3. \A n \in DOMAIN harvest.read : harvest.read[n] \subseteq Asked(harvest.bbox)
      BY <2>1
    <2> QED  BY <2>2, <2>3 DEF Harvested
  <1>5. CASE LoadTiles
    <2>1. UNCHANGED <<harvest.read, harvest.bbox>> /\ harvest'.pc = "done"
      BY <1>5 DEF LoadTiles, HarvestInv
    <2>2. PagesRead' /\ Harvested' = Harvested
      BY <2>1 DEF HarvestInv, PagesRead, Harvested
    <2> QED  BY <1>4, <1>5, <2>1, <2>2 DEF LoadTiles, HarvestInv
  <1>6. CASE HarvestFails
    <2>1. UNCHANGED <<harvest.read, harvest.bbox>> /\ harvest'.pc = "failed"
      BY <1>6 DEF HarvestFails, HarvestInv
    <2>2. PagesRead'
      BY <2>1 DEF HarvestInv, PagesRead
    <2> QED  BY <1>4, <1>6, <2>1, <2>2 DEF HarvestFails, HarvestInv
  <1>7. CASE UNCHANGED elevationVars
    BY <1>7 DEF elevationVars, HarvestInv, PagesRead, Harvested
  <1> QED  BY <1>1, <1>2, <1>3, <1>5, <1>6, <1>7 DEF ElevationNext

(* elevation: a harvest reads what it was asked for, each tile once, and has it
   all in the catalogue when it ends well, whatever the pages hold and however they
   are linked. *)
THEOREM HarvestExact == ElevationSpec => []HarvestIsExact
  <1>1. ASSUME HarvestInv PROVE HarvestIsExact
    <2> DEFINE box == harvest.bbox
    <2>1. box \in BOOLEAN /\ PagesRead
      BY <1>1 DEF HarvestInv
    <2>2. Asked(box) \subseteq Tiles
      BY <2>1, AskedFinite
    <2>3. harvest.read \in Seq(SUBSET (Tiles \cup Foreign))
      BY <2>1, <2>2 DEF PagesRead
    <2>4. Harvested \subseteq Asked(box)
      BY <2>1 DEF PagesRead, Harvested
    <2>5. ASSUME NEW m \in DOMAIN harvest.read, NEW n \in DOMAIN harvest.read, m # n
          PROVE  harvest.read[m] \cap harvest.read[n] = {}
      <3>1. m \in 1..Len(harvest.read) /\ n \in 1..Len(harvest.read)
        BY <2>1, <2>5 DEF PagesRead
      <3>2. /\ harvest.read[m] = TilesOn(box, m - 1)
            /\ harvest.read[n] = TilesOn(box, n - 1)
        BY <2>1, <3>1 DEF PagesRead
      <3>3. m - 1 # n - 1 /\ m \in Nat /\ n \in Nat
        BY <2>1, <2>5, <3>1 DEF PagesRead
      <3>4. \A t \in harvest.read[m] : t \in Asked(box)
        BY <2>1, <3>1 DEF PagesRead
      <3> QED  BY <2>1, <3>2, <3>3, <3>4, OnOnePage
    <2> QED
      BY <1>1, <2>2, <2>3, <2>4, <2>5 DEF HarvestInv, HarvestIsExact, ElevationTypeOK, Asked
  <1> QED  BY <1>1, HarvestInvInit, HarvestInvNext, PTL DEF ElevationSpec
=============================================================================
