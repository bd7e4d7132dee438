----------------------------- MODULE Elevation -----------------------------
(***************************************************************************)
(* hotosm sync-collection and sync-glo30: the elevation tiles of Earth     *)
(* Search, read page by page while they are loaded.                        *)
(*                                                                         *)
(* A next link carries the body of the request after it, whole or as a     *)
(* patch to the one before: whichever the server prefers, page by page.    *)
(***************************************************************************)
EXTENDS Naturals, Sequences, FiniteSets

CONSTANTS
  Tiles,     \* GLO-30 tiles, by their place in the order of the search
  Boxed,     \* those within the bbox of the harvest
  Foreign,   \* Items of other collections, which a search finds unless told
  PageLimit, \* features on a page
  MaxHarvests

ASSUME TilesAssumption ==
  /\ Tiles \cup Foreign \subseteq Nat /\ IsFiniteSet(Tiles)
  /\ Boxed \subseteq Tiles /\ Foreign \cap Tiles = {}
  /\ PageLimit \in Nat \ {0} /\ MaxHarvests \in Nat

VARIABLES
  known,    \* the collection is in the catalogue
  tiles,    \* the Items in the catalogue
  harvest   \* the run: the body of its next request, and the pages it has read

elevationVars == <<known, tiles, harvest>>

Body(coll, box, next) == [collections |-> coll, bbox |-> box, next |-> next]
AtRest == [pc |-> "idle", bbox |-> FALSE, body |-> Body(FALSE, FALSE, 0), read |-> <<>>, runs |-> 0]

ElevationTypeOK ==
  /\ known \in BOOLEAN
  /\ tiles \subseteq Tiles \cup Foreign
  /\ harvest.pc \in {"idle", "reading", "read", "done", "failed"}
  /\ harvest.read \in Seq(SUBSET (Tiles \cup Foreign))

ElevationInit == known = FALSE /\ tiles = {} /\ harvest = AtRest

(* The collection is read from the source, its links replaced, and upserted. *)
SyncCollection ==
  /\ ~known /\ known' = TRUE
  /\ UNCHANGED <<tiles, harvest>>

BeginHarvest(box) ==
  /\ harvest.pc \in {"idle", "done", "failed"} /\ harvest.runs < MaxHarvests
  /\ harvest' = [pc |-> "reading", bbox |-> box, body |-> Body(TRUE, box, 0), read |-> <<>>,
                 runs |-> harvest.runs + 1]
  /\ UNCHANGED <<known, tiles>>

(* Earth Search: what a body asks for, and the page of it that is answered. *)
Matching(b) ==
  (IF b.bbox THEN Boxed ELSE Tiles) \cup (IF b.collections THEN {} ELSE Foreign)

PageOf(b) ==
  {t \in Matching(b) : Cardinality({s \in Matching(b) : s < t}) \div PageLimit = b.next}

HasNext(b) == Cardinality(Matching(b)) > (b.next + 1) * PageLimit

(* The body of a next link: the token alone when it is to be merged. *)
LinkBody(b, merge) ==
  IF merge THEN Body(FALSE, FALSE, b.next + 1) ELSE [b EXCEPT !.next = @ + 1]

(* Mutant: a next body is always taken for the whole request. *)
NextPageBodyWhole(b, merge) == LinkBody(b, merge)

NextPageBody(b, merge) ==
  IF merge THEN [b EXCEPT !.next = LinkBody(b, merge).next] ELSE LinkBody(b, merge)

(* All that a run has read. *)
Harvested == UNION {harvest.read[n] : n \in DOMAIN harvest.read}

(* A page; the loader takes its features as they are yielded. *)
ReadTiles ==
  /\ harvest.pc = "reading"
  /\ LET b == harvest.body IN
     \E merge \in BOOLEAN :
       harvest' = [harvest EXCEPT !.read = Append(@, PageOf(b)),
                     !.body = IF HasNext(b) THEN NextPageBody(b, merge) ELSE b,
                     !.pc = IF HasNext(b) THEN "reading" ELSE "read"]
  /\ UNCHANGED <<known, tiles>>

(* load_items, method upsert, into a collection that must be there. *)
LoadTiles ==
  /\ harvest.pc = "read" /\ known
  /\ tiles' = tiles \cup Harvested
  /\ harvest' = [harvest EXCEPT !.pc = "done"]
  /\ UNCHANGED known

(* A page is refused, a next link has no body, the load fails or finds no
   collection: the run ends, with any part of what it had read loaded. *)
HarvestFails ==
  /\ harvest.pc \in {"reading", "read"}
  /\ \E part \in SUBSET Harvested : tiles' = tiles \cup (IF known THEN part ELSE {})
  /\ harvest' = [harvest EXCEPT !.pc = "failed"]
  /\ UNCHANGED known

ElevationNext ==
  \/ SyncCollection \/ \E box \in BOOLEAN : BeginHarvest(box)
  \/ ReadTiles \/ LoadTiles \/ HarvestFails

ElevationSpec == ElevationInit /\ [][ElevationNext]_elevationVars
-----------------------------------------------------------------------------
(* A harvest reads what it was asked for and nothing else, each tile once,
   however its pages were linked, and has it all in the catalogue when it ends
   well, after any number of runs that ended part way. *)
HarvestIsExact ==
  LET asked == IF harvest.bbox THEN Boxed ELSE Tiles IN
  /\ ElevationTypeOK
  /\ Harvested \subseteq asked
  /\ \A m, n \in DOMAIN harvest.read : m # n => harvest.read[m] \cap harvest.read[n] = {}
  /\ harvest.pc = "done" => Harvested = asked /\ asked \subseteq tiles /\ known
=============================================================================
