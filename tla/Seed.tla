-------------------------------- MODULE Seed --------------------------------
(***************************************************************************)
(* seed_catalog.py: copies items of a public catalogue, and the objects    *)
(* their assets point at, into this one.  A Job runs it after every        *)
(* install and upgrade, and again when it fails; whatever is left of one   *)
(* run is all the next one knows.                                          *)
(***************************************************************************)
EXTENDS Naturals, Sequences, FiniteSets, Functions

CONSTANTS
  Listed,      \* the items of the source at first, in the order it lists them
  Late,        \* those that appear later
  Assets,      \* names of assets
  Required,    \* REQUIRED_ASSETS
  Has,         \* the assets of each item
  Foreign,     \* <<item, asset>> that point outside the source bucket
  Gone,        \* <<item, asset>> whose object is not at the source
  Size,        \* bytes of each asset
  MaxBytes, MaxItems,  \* MAX_BYTES, MAX_ITEMS
  Modes,       \* of "seed", "reseed" and "dry"
  MaxRuns, MaxMishaps  \* bounds: runs, and things that go wrong

ASSUME SeedModesKnown == Modes \subseteq {"seed", "reseed", "dry"}
ASSUME RequiredNamed  == Required \subseteq Assets
ASSUME TilesApart     == "tiles" \notin Assets
ASSUME AssetsFinite   == IsFiniteSet(Assets)
ASSUME BudgetCounts   == Size \in [Assets -> Nat] /\ MaxBytes \in Nat /\ MaxItems \in Nat

VARIABLES
  listing,     \* what the source lists
  collection,  \* the collection is in this catalogue
  items,       \* the assets of each item of this catalogue
  store,       \* the copied objects
  run,         \* the latest run
  runs, mishaps

seedVars == <<listing, collection, items, store, run, runs, mishaps>>

Tiles   == "tiles"   \* an asset the tilepack API adds
Sources == {Listed[n] : n \in 1..Len(Listed)} \cup Late
Objects == {o \in Sources \X Assets : o[2] \in Has[o[1]]} \ Foreign

ASSUME SourceKnown == Listed \in Seq(Sources) /\ Has \in [Sources -> SUBSET Assets]

NoSeed == [pc |-> "off", mode |-> "seed", loaded |-> {}, at |-> 0, seen |-> 0, total |-> 0,
           counted |-> {}, chosen |-> <<>>, landed |-> {}, failed |-> {},
           code |-> 1, clean |-> FALSE]

SeedTypeOK ==
  /\ listing \in Seq(Sources) /\ collection \in BOOLEAN /\ store \subseteq Objects
  /\ DOMAIN items \subseteq Sources
  /\ \A i \in DOMAIN items : items[i] \subseteq Assets \cup {Tiles}
  /\ run.pc \in {"off", "plan", "planned", "copy"} /\ run.at \in 0..Len(listing)
  /\ run.landed \cup run.failed \subseteq Objects

SeedInit ==
  /\ listing = Listed /\ collection = FALSE /\ items = <<>> /\ store = {}
  /\ run = NoSeed /\ runs = 0 /\ mishaps = 0

Bytes(i, names) == SumFunctionOnSet(Size, names)
Mishap == mishaps < MaxMishaps /\ mishaps' = mishaps + 1
Running(pc) == run.pc = pc
-----------------------------------------------------------------------------
(* The source lists by date of capture: a new item may come anywhere.  Pages
   are read as the plan is made, each from where the one before ended. *)
Arrives(i) ==
  /\ i \notin {listing[n] : n \in 1..Len(listing)}
  /\ \E k \in 0..Len(listing) :
       /\ listing' = SubSeq(listing, 1, k) \o <<i>> \o SubSeq(listing, k + 1, Len(listing))
       /\ run' = [run EXCEPT !.clean = FALSE, !.at = IF k < @ THEN @ + 1 ELSE @]
  /\ UNCHANGED <<collection, items, store, runs, mishaps>>

AddTiles(i) ==
  /\ i \in DOMAIN items /\ Tiles \notin items[i]
  /\ items' = [items EXCEPT ![i] = @ \cup {Tiles}]
  /\ UNCHANGED <<listing, collection, store, run, runs, mishaps>>

(* Mutant: the ids in the catalogue are not asked for. *)
NoneLoaded(mode) == IF mode = "reseed" THEN DOMAIN items ELSE {}

LoadedIds(mode) == IF mode = "reseed" THEN {} ELSE DOMAIN items

(* fetch_collection, connect, loaded_ids *)
StartRun ==
  /\ Running("off") /\ runs < MaxRuns /\ runs' = runs + 1
  /\ \E mode \in Modes :
       run' = [NoSeed EXCEPT !.pc = "plan", !.mode = mode, !.clean = TRUE,
                             !.loaded = LoadedIds(mode)]
  /\ UNCHANGED <<listing, collection, items, store, mishaps>>

(* The assets of i with an object in the source bucket. *)
Copyable(i) == {a \in Has[i] : <<i, a>> \notin Foreign}

AtSource(i) == {a \in Copyable(i) : <<i, a>> \notin Gone}

(* What is kept of i, of those of which a size was learnt. *)
Keeps(i, sized) == sized \cup ((Has[i] \ Copyable(i)) \ Required)

(* Mutant: only what is still to be copied counts against MAX_ITEMS. *)
SeenToCopy(i) == IF i \in run.loaded THEN run.seen ELSE run.seen + 1

SeenWith(i) == run.seen + 1

(* One item: dropped without a required asset; the last one looked at where it
   does not fit; counted, and chosen unless it is loaded. *)
Plan(i, sized, clean) ==
  LET next == [run EXCEPT !.at = @ + 1, !.seen = SeenWith(i), !.clean = clean] IN
  run' = IF ~(Required \subseteq sized) THEN next
         ELSE IF run.total + Bytes(i, sized) > MaxBytes THEN [next EXCEPT !.pc = "planned"]
         ELSE [next EXCEPT !.total = @ + Bytes(i, sized), !.counted = @ \cup {i},
                           !.chosen = IF i \in run.loaded THEN @
                                      ELSE [j \in DOMAIN @ \cup {i} |->
                                              IF j = i THEN Keeps(i, sized) ELSE @[j]]]

PlanItem ==
  /\ Running("plan") /\ run.at < Len(listing) /\ run.seen < MaxItems
  /\ LET i == listing[run.at + 1] IN Plan(i, AtSource(i), run.clean)
  /\ UNCHANGED <<listing, collection, items, store, runs, mishaps>>

(* head_size: after three tries an object counts as missing. *)
PlanUnsized ==
  /\ Running("plan") /\ run.at < Len(listing) /\ run.seen < MaxItems /\ Mishap
  /\ LET i == listing[run.at + 1] IN
       \E lost \in AtSource(i) : Plan(i, AtSource(i) \ {lost}, FALSE)
  /\ UNCHANGED <<listing, collection, items, store, runs>>

PlanEnds ==
  /\ Running("plan") /\ (run.at = Len(listing) \/ run.seen >= MaxItems)
  /\ run' = [run EXCEPT !.pc = "planned"]
  /\ UNCHANGED <<listing, collection, items, store, runs, mishaps>>

DryRunEnds ==
  /\ Running("planned") /\ run.mode = "dry"
  /\ run' = [run EXCEPT !.pc = "off", !.code = 0]
  /\ UNCHANGED <<listing, collection, items, store, runs, mishaps>>

(* The collection does not wait for the imagery. *)
UpsertCollection ==
  /\ Running("planned") /\ run.mode # "dry"
  /\ collection' = TRUE
  /\ run' = IF DOMAIN run.chosen = {} THEN [run EXCEPT !.pc = "off", !.code = 0]
                                      ELSE [run EXCEPT !.pc = "copy"]
  /\ UNCHANGED <<listing, items, store, runs, mishaps>>

Copies  == {o \in Objects : o[1] \in DOMAIN run.chosen /\ o[2] \in run.chosen[o[1]]}
ToCopy == Copies \ (run.landed \cup run.failed)

(* copy_assets, in any order; one that is there is not copied again. *)
CopyOne(o) ==
  /\ Running("copy") /\ o \in ToCopy
  /\ store' = store \cup {o}
  /\ run' = [run EXCEPT !.landed = @ \cup {o}]
  /\ UNCHANGED <<listing, collection, items, runs, mishaps>>

(* already_there takes whatever but a 404 it cannot read for absent: the copy of
   an object that is there may fail too. *)
CopyFails(o) ==
  /\ Running("copy") /\ o \in ToCopy /\ Mishap
  /\ run' = [run EXCEPT !.failed = @ \cup {o}]
  /\ UNCHANGED <<listing, collection, items, store, runs>>

Absent(i) == {a \in run.chosen[i] : <<i, a>> \in Copies \ run.landed}
Loadable  == {i \in DOMAIN run.chosen : Required \cap Absent(i) = {}}

(* Mutant: assets that did not land stay. *)
RewriteAll(i) == run.chosen[i]

(* rewrite: an optional asset that did not land is dropped. *)
Rewrite(i) == run.chosen[i] \ Absent(i)

(* One transaction; whatever was skipped fails the Job. *)
Load ==
  /\ Running("copy") /\ ToCopy = {}
  /\ items' = [i \in DOMAIN items \cup Loadable |->
                      IF i \in Loadable THEN Rewrite(i) ELSE items[i]]
  /\ run' = [run EXCEPT !.pc = "off", !.code = IF Loadable = DOMAIN run.chosen THEN 0 ELSE 1,
                        !.clean = @ /\ run.failed = {}]
  /\ UNCHANGED <<listing, collection, store, runs, mishaps>>

(* The pod is killed, or a call of the source or the database fails. *)
RunDies ==
  /\ ~Running("off") /\ Mishap
  /\ run' = [run EXCEPT !.pc = "off", !.code = 1, !.clean = FALSE]
  /\ UNCHANGED <<listing, collection, items, store, runs>>

SeedNext ==
  \/ \E i \in Late : Arrives(i)
  \/ \E i \in Sources : AddTiles(i)
  \/ StartRun \/ PlanItem \/ PlanUnsized \/ PlanEnds \/ DryRunEnds \/ UpsertCollection
  \/ \E o \in Objects : CopyOne(o) \/ CopyFails(o)
  \/ Load \/ RunDies

SeedSpec == SeedInit /\ [][SeedNext]_seedVars
-----------------------------------------------------------------------------
(* An item of the catalogue has its required assets, and every asset of it that
   points at this bucket is there; and no imagery is copied for a collection
   that is not there, however often copies fail and runs die. *)
SeedIsWhole ==
  /\ store # {} => collection
  /\ \A i \in DOMAIN items :
       /\ Required \subseteq items[i]
       /\ \A a \in items[i] : <<i, a>> \in Objects => <<i, a>> \in store

(* What MAX_ITEMS and MAX_BYTES let in of the items now listed, loaded or not. *)
Usable(n)   == Required \subseteq AtSource(listing[n])
UpTo(n)     == SumFunctionOnSet([m \in 1..Len(listing) |-> Bytes(listing[m], AtSource(listing[m]))],
                                {m \in 1..n : Usable(m)})
Window      == {listing[n] : n \in {m \in 1..Len(listing) :
                  m <= MaxItems /\ Usable(m) /\ UpTo(m) <= MaxBytes}}

(* A run that reports success has loaded, or found, all it counted; one that
   nothing happened to counted exactly the window, whatever failed runs had
   left behind: stragglers come in, and the window does not move with them. *)
RunsFillWindow ==
  /\ SeedTypeOK
  /\ Running("off") /\ run.mode # "dry" =>
       /\ run.code = 0 => run.counted \subseteq DOMAIN items
       /\ run.clean => run.code = 0 /\ run.counted = Window

(* Whoever added an asset to an item keeps it, unless a reseed was asked for. *)
SeedKeepsAssets ==
  [][run.mode # "reseed" =>
       \A i \in DOMAIN items : i \in DOMAIN items' /\ items[i] \subseteq items'[i]]_seedVars
=============================================================================
