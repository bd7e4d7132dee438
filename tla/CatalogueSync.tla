--------------------------- MODULE CatalogueSync ---------------------------
(***************************************************************************)
(* hotosm sync-oam and sync-<provider>: finding what a source has          *)
(* published, leaving out what the catalogue has, building the rest and    *)
(* upserting it whole, while the source publishes and withdraws entries    *)
(* and the tilepack API adds assets to items.  The dump commands write a   *)
(* file instead, and ask the catalogue nothing.                            *)
(*                                                                         *)
(* The legacy API is paged, newest upload first; a provider's bucket is    *)
(* read event by event, by the provider's own rule.  Each source has a     *)
(* collection of its own, so a behaviour follows one.  A run holds what it *)
(* has found as sets of entries.                                           *)
(***************************************************************************)
EXTENDS Naturals, Sequences, FiniteSets

CONSTANTS
  Legacy,     \* entries of the legacy API
  Provided,   \* entries of an open data provider
  Items,      \* item ids of the catalogue
  TargetId,   \* the item each entry becomes
  AtFirst,    \* what the legacy API lists at first
  Events,     \* the provider's events: whether each is from before the window,
              \* and its entries
  Unparsed,   \* entries get_items cannot parse
  Unbuildable,\* entries no valid item can be built from
  Early,      \* entries from before the window, or without a date
  Undated,    \* those without
  PageSize,   \* limit of get_all_items
  Runs,       \* the jobs: a CronJob's, which may overlap, or one made by hand
  MaxChanges, \* bound: changes of the source
  NoEntry     \* no entry

ASSUME UndatedAreEarly == Undated \subseteq Early
ASSUME SourcesApart     == Legacy \cap Provided = {} /\ NoEntry \notin Legacy \cup Provided
ASSUME CollectionsApart ==
  /\ TargetId \in [Legacy \cup Provided -> Items]
  /\ \A e \in Legacy, f \in Provided : TargetId[e] # TargetId[f]

ASSUME PagesHold        == PageSize \in Nat \ {0}
ASSUME EventsKnown      == Events \in Seq([old : BOOLEAN, of : SUBSET Provided])
ASSUME NewestFirst      ==
  /\ AtFirst \in Seq(Legacy)
  /\ \A m, n \in 1..Len(AtFirst) :
       /\ AtFirst[m] = AtFirst[n] => m = n
       /\ m < n /\ AtFirst[m] \in Early => AtFirst[n] \in Early

VARIABLES
  listing,  \* what the legacy API lists, newest upload first
  record,   \* the catalogue: the entry each item was built from, its tilepacks
  sync,     \* the runs; listed and there are history: what was when one began
  source,   \* "oam", or the rule by which a provider's catalogue is read
  changes

syncVars == <<listing, record, sync, source, changes>>

Entries == Legacy \cup Provided
Rules   == {"events", "published", "walk"}
NoRun   == [pc |-> "idle", mode |-> "new", strict |-> FALSE, at |-> 1,
            found |-> {}, existing |-> {}, built |-> {}, errors |-> {}, listed |-> {},
            there |-> {}]
Failed  == [NoRun EXCEPT !.pc = "failed"]

SyncTypeOK ==
  /\ listing \in Seq(Legacy) /\ changes \in Nat
  /\ record \in [Items -> [from : Entries \cup {NoEntry}, tiles : BOOLEAN]]
  /\ sync \in [Runs -> [pc : {"idle", "finding", "found", "checked", "made", "done", "failed"},
                       mode : {"new", "rebuild", "dump"}, strict : BOOLEAN, at : Nat \ {0},
                       found : SUBSET Entries, existing : SUBSET Items, built : SUBSET Entries,
                       errors : SUBSET Entries, listed : SUBSET Legacy,
                       there : SUBSET Items]]

SyncInit ==
  /\ listing = AtFirst
  /\ record = [i \in Items |-> [from |-> NoEntry, tiles |-> FALSE]]
  /\ sync = [j \in Runs |-> NoRun]
  /\ source \in {"oam"} \cup Rules
  /\ changes = 0

There(i)  == record[i].from # NoEntry
Listed    == {listing[n] : n \in 1..Len(listing)}
Syncing(j)   == sync[j].pc \in {"finding", "found", "checked", "made"}
Kept(e)   == e \notin Unparsed /\ e \notin Early
-----------------------------------------------------------------------------
(* Uploads come in front of what is listed; what has no date, or is older, is
   listed last. *)
Publish(e) ==
  /\ source = "oam" /\ changes < MaxChanges /\ changes' = changes + 1
  /\ e \in Legacy \ Listed
  /\ listing' = IF e \in Early THEN Append(listing, e) ELSE <<e>> \o listing
  /\ UNCHANGED <<record, sync, source>>

(* A run under way may skip an entry that moves up: it no longer promises any. *)
Withdraw(n) ==
  /\ source = "oam" /\ changes < MaxChanges /\ changes' = changes + 1
  /\ n \in 1..Len(listing)
  /\ listing' = SubSeq(listing, 1, n - 1) \o SubSeq(listing, n + 1, Len(listing))
  /\ sync' = [j \in Runs |-> [sync[j] EXCEPT !.listed = {}]]
  /\ UNCHANGED <<record, source>>

(* The tilepack API registers an archive; only the OAM collection has them. *)
PatchTiles(i) ==
  /\ There(i) /\ record[i].from \in Legacy
  /\ record' = [record EXCEPT ![i].tiles = TRUE]
  /\ UNCHANGED <<listing, sync, source, changes>>

(* --rebuild exists for providers only.  No run knows of another. *)
BeginSync(j) ==
  /\ ~Syncing(j)
  /\ \E m \in {"new", "rebuild", "dump"}, x \in BOOLEAN :
       /\ source = "oam" => m # "rebuild"
       /\ sync' = [sync EXCEPT ![j] = [NoRun EXCEPT !.pc = "finding", !.mode = m,
                    !.strict = x, !.listed = IF source = "oam" THEN Listed ELSE {},
                    !.there = {i \in Items : There(i)}]]
  /\ UNCHANGED <<listing, record, source, changes>>

Page(j) == {listing[n] : n \in {m \in 1..Len(listing) :
              (sync[j].at - 1) * PageSize < m /\ m <= sync[j].at * PageSize}}

(* Mutant: a page that is not full is the last. *)
PageEndsShort(j, kept) == Cardinality(kept) < PageSize

(* get_all_items stops at the first page of which nothing is kept. *)
PageEnds(j, kept) == kept = {}

(* get_oam_items_after: an entry seen on an earlier page is not yielded again. *)
ReadPage(j) ==
  /\ sync[j].pc = "finding" /\ source = "oam"
  /\ LET kept == {e \in Page(j) : Kept(e)} IN
     sync' = [sync EXCEPT ![j] =
       [sync[j] EXCEPT !.found = sync[j].found \cup kept, !.at = sync[j].at + 1,
                       !.pc = IF PageEnds(j, kept) THEN "found" ELSE "finding"]]
  /\ UNCHANGED <<listing, record, source, changes>>

(* Maxar dates its events: one from before the window is not opened, and the
   items of the others are taken as they are. *)
OfEvent(v) == IF v.old THEN {} ELSE v.of

(* Vantor dates each item: one without a date is skipped. *)
OfPublished(v) == v.of \ Early

(* walk_new_items, for a provider with no rule of its own: one without a date
   is taken. *)
OfWalk(v) == v.of \ (Early \ Undated)

FoundIn(v) ==
  [events |-> OfEvent(v), published |-> OfPublished(v), walk |-> OfWalk(v)][source]

(* An event whose collection is not in the bucket is skipped; a walk has none
   to skip, and fails.  An item seen in an earlier event is not taken again. *)
ReadEvent(j) ==
  /\ sync[j].pc = "finding" /\ source \in Rules /\ sync[j].at <= Len(Events)
  /\ \E kept \in {{}, FoundIn(Events[sync[j].at])} :
       /\ source = "walk" => kept = FoundIn(Events[sync[j].at])
       /\ sync' = [sync EXCEPT ![j] =
            [sync[j] EXCEPT !.found = sync[j].found \cup kept, !.at = sync[j].at + 1]]
  /\ UNCHANGED <<listing, record, source, changes>>

EventsRead(j) ==
  /\ sync[j].pc = "finding" /\ source \in Rules /\ sync[j].at > Len(Events)
  /\ sync' = [sync EXCEPT ![j].pc = "found"]
  /\ UNCHANGED <<listing, record, source, changes>>

(* --rebuild and the dumps know nothing of what is there.  Mutant: nor does a sync. *)
FilterLifted(j) == TRUE

Unfiltered(j) == sync[j].mode # "new"

(* get_existing_item_ids, read once, before anything is built. *)
FindExisting(j) ==
  /\ sync[j].pc = "found"
  /\ sync' = [sync EXCEPT ![j] = [@ EXCEPT !.pc = "checked", !.existing =
       IF Unfiltered(j) THEN {} ELSE {TargetId[e] : e \in sync[j].found} \cap {i \in Items : There(i)}]]
  /\ UNCHANGED <<listing, record, source, changes>>

Wanting(j) == {e \in sync[j].found : TargetId[e] \notin sync[j].existing}

(* One of those that share an id: the first to be built takes it. *)
Chosen(b, wanted) ==
  {e \in b : e \in wanted \ Unbuildable /\ \A f \in b : TargetId[f] = TargetId[e] => f = e}

Covers(b, wanted) == \A e \in wanted \ Unbuildable : \E f \in b : TargetId[f] = TargetId[e]

Errors(j, b) == Wanting(j) \ b

(* create_item and check_item_id; --handle-exceptions RAISE stops at the first. *)
Build(j) ==
  /\ sync[j].pc = "checked"
  /\ \E b \in SUBSET Wanting(j) :
       /\ Chosen(b, Wanting(j)) = b /\ Covers(b, Wanting(j))
       /\ sync' = [sync EXCEPT ![j] =
            IF sync[j].strict /\ b # Wanting(j) THEN Failed
            ELSE [@ EXCEPT !.pc = "made", !.built = b, !.errors = Errors(j, b)]]
  /\ UNCHANGED <<listing, record, source, changes>>

Upserted(b) ==
  [i \in Items |-> IF \E e \in b : TargetId[e] = i
                     THEN [from |-> CHOOSE e \in b : TargetId[e] = i, tiles |-> FALSE]
                     ELSE record[i]]

(* dump_to_ndjson *)
Dump(j) ==
  /\ sync[j].pc = "made" /\ sync[j].mode = "dump"
  /\ sync' = [sync EXCEPT ![j].pc = "done"]
  /\ UNCHANGED <<listing, record, source, changes>>

(* load_items, method upsert: every item whole. *)
Upsert(j) ==
  /\ sync[j].pc = "made" /\ sync[j].mode # "dump"
  /\ record' = Upserted(sync[j].built)
  /\ sync' = [sync EXCEPT ![j].pc = "done"]
  /\ UNCHANGED <<listing, source, changes>>

(* The database fails part way. *)
LoadFails(j) ==
  /\ sync[j].pc = "made" /\ sync[j].mode # "dump"
  /\ \E b \in SUBSET sync[j].built : b # sync[j].built /\ record' = Upserted(b)
  /\ sync' = [sync EXCEPT ![j] = Failed]
  /\ UNCHANGED <<listing, source, changes>>

(* A page, an event or the query fails: the run ends with nothing loaded. *)
SourceFails(j) ==
  /\ sync[j].pc \in {"finding", "found"}
  /\ sync' = [sync EXCEPT ![j] = Failed]
  /\ UNCHANGED <<listing, record, source, changes>>

SyncNext ==
  \/ \E e \in Legacy : Publish(e)
  \/ \E n \in 1..Len(listing) : Withdraw(n)
  \/ \E i \in Items : PatchTiles(i)
  \/ \E j \in Runs :
       \/ BeginSync(j) \/ ReadPage(j) \/ ReadEvent(j) \/ EventsRead(j) \/ FindExisting(j)
       \/ Build(j) \/ Dump(j) \/ Upsert(j) \/ LoadFails(j) \/ SourceFails(j)

SyncSpec == SyncInit /\ [][SyncNext]_syncVars
-----------------------------------------------------------------------------
(* docs/dev/ingest/index.md: "A normal sync never updates an Item already in
   PgSTAC", for an upsert of whole items would drop the assets patched in since. *)
AssetsSurvive == [][\A i \in Items : record[i].tiles => record'[i].tiles]_syncVars

(* No run takes the archives of an item that was there when it began, whatever
   other runs load and the tilepack API registers meanwhile, and wherever a load
   fails: what a run can take, another run has loaded beside it. *)
OldItemsKeepAssets ==
  [][\A i \in Items : record[i].tiles /\ ~record'[i].tiles =>
       \E j \in Runs : sync[j].pc = "made" /\ sync'[j].pc # "made" /\ i \notin sync[j].there]_syncVars

Delivered(j, e) ==
  IF sync[j].mode = "dump" THEN \E f \in sync[j].built : TargetId[f] = TargetId[e]
  ELSE There(TargetId[e])

(* A run that ends has loaded, found there or written out every entry of the legacy API
   that was listed throughout and that an item of its own can be built from:
   uploads that shift the pages, and unreadable or old entries on them, make it
   miss nothing, while fewer in a row than a page holds are unreadable. *)
NothingSkipped ==
  \A j \in Runs : sync[j].pc = "done" /\ source = "oam" =>
    \A e \in sync[j].listed : Kept(e) /\ e \notin Unbuildable => Delivered(j, e)

(* Whatever a run found is in the catalogue under its own record, was there
   before, or is among the errors it reports: none is silently overwritten by
   another entry with its id, or lost. *)
EveryEntryAccounted ==
  \A j \in Runs : sync[j].pc = "done" =>
    \A e \in sync[j].found :
      \/ TargetId[e] \in sync[j].existing
      \/ e \in sync[j].errors
      \/ e \in sync[j].built /\ \A f \in sync[j].built : TargetId[f] = TargetId[e] => f = e

(* A run that ends well answers for everything it was to bring. *)
RunsAccountForAll == SyncTypeOK /\ NothingSkipped /\ EveryEntryAccounted
=============================================================================
