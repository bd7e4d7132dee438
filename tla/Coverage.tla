------------------------------ MODULE Coverage ------------------------------
(***************************************************************************)
(* What the browse map shows of the catalogue, and how it gets there: the  *)
(* job that writes the statistics, the density grid and the footprints     *)
(* (gen_coverage_vector.py), and the filters the map applies to the two    *)
(* archives (filters.ts).  Density counts are binned by the job; the       *)
(* footprints are filtered in the browser.                                 *)
(*                                                                         *)
(* Time is in half days: a day starts at an even number.  A resolution is  *)
(* in tenths of a metre, 0 when it is not known.                           *)
(***************************************************************************)
EXTENDS Naturals, FiniteSets, FiniteSetsExt

CONSTANTS
  Shots,        \* images
  Facts,        \* of each: collection, platform, license, gsd, taken, cell
  Selections,   \* the filters of the page
  Midnight,     \* when the model starts
  YearStart,    \* the first day of the year
  MaxClock,     \* bound: half days that pass
  MaxAdded,     \* bound: changes of the catalogue
  MaxJobs       \* bound: runs of the job

ASSUME ShotsAreFinite   == IsFiniteSet(Shots)
ASSUME FactsAreNumbers  == \A i \in Shots : Facts[i].gsd \in Nat /\ Facts[i].taken \in Nat
ASSUME TimesAreNumbers  == Midnight \in Nat /\ YearStart \in Nat
ASSUME SelectionsOfPage ==
  \A f \in Selections :
    /\ DOMAIN f = {"collection", "platform", "license", "resolution", "date"}
    /\ f.platform \in {"", "uav", "satellite", "aircraft"} /\ f.license \in {"", "by", "nc", "sa"}
    /\ f.resolution \in {"", "lt05", "05to2", "2to10", "gt10"}
    /\ f.date \in {"", "week", "month", "year"}

VARIABLES
  catalogue,    \* the items of the collections on the allowlist
  clock,
  stage,        \* of the job: 0 when none runs
  made,         \* the stage's archive is there to be uploaded
  disk,         \* the output directory: the archive of each kind
  published,    \* the bucket: the archive of each kind
  jobs,
  added,
  skewed        \* history: an upload failed, or an old archive went out again

coverageVars == <<catalogue, clock, stage, made, disk, published, jobs, added, skewed>>

Kinds     == {"stats", "density", "footprints"}
NoArchive == [of |-> {}, at |-> 0, by |-> 0]
Snapshot  == [of |-> catalogue, at |-> clock, by |-> jobs]

CoverageInit ==
  /\ catalogue = Shots /\ clock = Midnight /\ stage = 0 /\ made = FALSE
  /\ disk = [k \in Kinds |-> NoArchive] /\ published = [k \in Kinds |-> NoArchive]
  /\ jobs = 0 /\ added = 0 /\ skewed = FALSE
-----------------------------------------------------------------------------
(* The job. *)

Stages == <<"stats", "density", "footprints">>

(* Every 15 minutes, here as often as it likes; what an earlier run left in the
   output directory may still be there. *)
StartJob ==
  /\ stage = 0 /\ jobs < MaxJobs /\ jobs' = jobs + 1 /\ stage' = 1
  /\ disk' \in {disk, [k \in Kinds |-> NoArchive]}
  /\ UNCHANGED <<catalogue, clock, made, published, added, skewed>>

(* The archive is made of what is in the catalogue now, unless there is one;
   the statistics are always written. *)
Make ==
  LET k == Stages[stage] IN
  /\ stage # 0 /\ ~made /\ made' = TRUE
  /\ IF k = "stats" \/ disk[k] = NoArchive
       THEN disk' = [disk EXCEPT ![k] = Snapshot] /\ UNCHANGED skewed
       ELSE UNCHANGED disk /\ skewed' = TRUE
  /\ UNCHANGED <<catalogue, clock, stage, published, jobs, added>>

Advance == made' = FALSE /\ stage' = IF stage = Cardinality(Kinds) THEN 0 ELSE stage + 1

Upload ==
  /\ made /\ Advance
  /\ published' = [published EXCEPT ![Stages[stage]] = disk[Stages[stage]]]
  /\ UNCHANGED <<catalogue, clock, disk, jobs, added, skewed>>

(* upload_artifacts logs an error and goes on. *)
UploadFails ==
  /\ made /\ Advance /\ skewed' = TRUE
  /\ UNCHANGED <<catalogue, clock, disk, published, jobs, added>>

(* A query or a tiler that fails ends the run, at whatever stage. *)
JobDies ==
  /\ stage # 0 /\ stage' = 0 /\ made' = FALSE
  /\ UNCHANGED <<catalogue, clock, disk, published, jobs, added, skewed>>

CatalogueChanges(i) ==
  /\ added < MaxAdded /\ added' = added + 1
  /\ catalogue' = IF i \in catalogue THEN catalogue \ {i} ELSE catalogue \cup {i}
  /\ UNCHANGED <<clock, stage, made, disk, published, jobs, skewed>>

HalfDayPasses ==
  /\ clock < Midnight + MaxClock /\ clock' = clock + 1
  /\ UNCHANGED <<catalogue, stage, made, disk, published, jobs, added, skewed>>

CoverageNext ==
  \/ StartJob \/ Make \/ Upload \/ UploadFails \/ JobDies \/ HalfDayPasses
  \/ \E i \in Shots : CatalogueChanges(i)

CoverageSpec == CoverageInit /\ [][CoverageNext]_coverageVars
-----------------------------------------------------------------------------
(* _image_buckets: the counts an image goes into. *)

Day(t)  == t \div 2
Year(t) == IF Day(t) >= YearStart THEN "this" ELSE "past"
Terms(license) ==
  CASE license = "by" -> {"by"} [] license = "by-nc" -> {"by", "nc"} [] license = "by-sa" -> {"by", "sa"}
    [] license = "by-nc-sa" -> {"by", "nc", "sa"} [] OTHER -> {}

(* Mutant: the lower bound of a tier is not in it. *)
TierAbove(gsd) ==
  IF gsd = 0 THEN {} ELSE
  IF gsd <= 5 THEN {"lt05"} ELSE IF gsd <= 20 THEN {"05to2"} ELSE IF gsd <= 100 THEN {"2to10"} ELSE {"gt10"}

ResolutionBucket(gsd) ==
  IF gsd = 0 THEN {} ELSE
  IF gsd < 5 THEN {"lt05"} ELSE IF gsd <= 20 THEN {"05to2"} ELSE IF gsd <= 100 THEN {"2to10"} ELSE {"gt10"}

LicenseBucket(license) ==
  IF "nc" \in Terms(license) THEN {"nc"} ELSE IF "sa" \in Terms(license) THEN {"sa"} ELSE Terms(license)

PlatformBucket(platform) ==
  IF platform \in {"uav", "drone"} THEN "uav" ELSE IF platform = "satellite" THEN platform ELSE "aircraft"

(* Windows that end when the job ran, to the half day; 0 is an unknown date. *)
DateBuckets(t, now) ==
  IF t = 0 THEN {} ELSE
    (IF Year(t) = "this" THEN {"year"} ELSE {})
      \cup {w \in {"week", "month"} : t <= now /\ now - t <= (IF w = "week" THEN 14 ELSE 60)}

ImageBuckets(i, now) ==
  {<<"collection", Facts[i].collection>>, <<"platform", PlatformBucket(Facts[i].platform)>>}
    \cup {<<"license", b>> : b \in LicenseBucket(Facts[i].license)}
    \cup {<<"resolution", b>> : b \in ResolutionBucket(Facts[i].gsd)}
    \cup {<<"date", b>> : b \in DateBuckets(Facts[i].taken, now)}

(* densityCountExpr: of a cell, the least of the counts the filters ask for.  An
   image with no cell has no centroid, or one beyond the mercator square. *)
ActiveKeys(f) == {<<d, f[d]>> : d \in {e \in DOMAIN f : f[e] # ""}}

Binned(a, cell) == {i \in a.of : Facts[i].cell = cell}

CellCount(f, a, cell) ==
  Min({Cardinality(Binned(a, cell))} \cup
      {Cardinality({i \in Binned(a, cell) : key \in ImageBuckets(i, a.at)}) : key \in ActiveKeys(f)})

(* datePresetRange, in days, to which a date is compared as text. *)
InRange(t, preset, now) ==
  /\ t # 0 /\ Day(t) <= Day(now)
  /\ CASE preset = "week" -> Day(t) + 7 >= Day(now) [] preset = "month" -> Day(t) + 30 >= Day(now)
       [] OTHER -> Day(t) >= YearStart

(* buildFilter, of the footprint layers. *)
Shown(gsd, preset) ==
  gsd # 0 /\ CASE preset = "lt05" -> gsd < 5 [] preset = "05to2" -> 5 <= gsd /\ gsd <= 20
               [] preset = "2to10" -> 20 < gsd /\ gsd <= 100 [] OTHER -> 100 < gsd

ShownPlatform(platform, choice) ==
  CASE choice = "uav" -> platform \in {"uav", "drone"} [] choice = "satellite" -> platform = choice
    [] OTHER -> platform \notin {"", "uav", "drone", "satellite"}

Drawn(i, f, now) ==
  LET x == Facts[i] IN
  /\ f.collection \in {"", x.collection}
  /\ f.platform # "" => ShownPlatform(x.platform, f.platform)
  /\ f.date # "" => InRange(x.taken, f.date, now)
  /\ f.resolution # "" => Shown(x.gsd, f.resolution)
  /\ f.license # "" => IF f.license = "by" THEN Terms(x.license) = {"by"} ELSE f.license \in Terms(x.license)

MatchesResolution(gsd, preset) ==
  gsd # 0 /\ CASE preset = "lt05" -> gsd < 5 [] preset = "05to2" -> gsd \in 5..20
               [] preset = "2to10" -> gsd \in 21..100 [] OTHER -> gsd > 100

MatchesPlatform(platform, choice) ==
  CASE choice = "uav" -> platform \in {"uav", "drone"} [] choice = "satellite" -> platform = choice
    [] OTHER -> platform \notin {"uav", "drone", "satellite"}

(* matchesFilters, of the imagery: an unknown date or platform is let through,
   and a license is the one asked for, term by term. *)
Matches(i, f, now) ==
  LET x == Facts[i] IN
  /\ f.collection \in {"", x.collection}
  /\ f.platform # "" => MatchesPlatform(x.platform, f.platform)
  /\ f.date # "" => x.taken = 0 \/ InRange(x.taken, f.date, now)
  /\ f.resolution # "" => MatchesResolution(x.gsd, f.resolution)
  /\ f.license # "" => Terms(x.license) = {"by", f.license}
-----------------------------------------------------------------------------
(* gen_coverage_vector.py: a run that dies in a late stage leaves no downstream
   service without a fresh input.  What the cheaper stages publish is never
   older than what the costlier do, but for uploads that failed and for
   archives that were found in the output directory. *)
CheapestFresh ==
  ~skewed => /\ published["stats"].by >= published["density"].by
             /\ published["density"].by >= published["footprints"].by

(* The grid is an upper bound (filters.ts): with archives of one catalogue, a
   cell counts every footprint that is drawn when the map is zoomed in to it,
   under any filters.  Left out are images on the last day of a window, which
   the browser counts in whole days, and a license that is of two kinds. *)
OnEdge(i, f, a) ==
  \/ f.date \in {"week", "month"} /\ a.at - Facts[i].taken \in (IF f.date = "week" THEN {15} ELSE {61})
  \/ f.date \in {"week", "month"} /\ Facts[i].taken > a.at
  \/ f.license = "sa" /\ "nc" \in Terms(Facts[i].license)

GridBoundsFootprints ==
  LET a == published["density"]  b == published["footprints"] IN
  b.of \subseteq a.of /\ a.by # 0 /\ clock = a.at =>
    \A f \in Selections : \A c \in {Facts[i].cell : i \in b.of} \ {0} :
      Cardinality({i \in Binned(b, c) : Drawn(i, f, clock) /\ ~OnEdge(i, f, a)}) <= CellCount(f, a, c)

(* filters.ts: the footprints and the imagery over them show the same set, of
   the images that have a date, a platform and a license of one kind. *)
FiltersAgree ==
  \A i \in published["footprints"].of :
    Facts[i].taken # 0 /\ Facts[i].platform # "" /\ Facts[i].license # "by-nc-sa" =>
      \A f \in Selections : Drawn(i, f, clock) <=> Matches(i, f, clock)

(* What the three archives and the browser show of one catalogue agrees, each
   with what is drawn when the map is zoomed further in. *)
PicturesAgree == CheapestFresh /\ GridBoundsFootprints /\ FiltersAgree
=============================================================================
