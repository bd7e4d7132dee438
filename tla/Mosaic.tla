------------------------------- MODULE Mosaic -------------------------------
(***************************************************************************)
(* The mosaic script of the global layer, which reads the images           *)
(* themselves: every image is checked, the tiles over those that pass are  *)
(* listed and drawn by a pool of threads, batch by batch, and written to   *)
(* one archive.  The threads share what is known of the images: the bands  *)
(* they have and which of them could not be read, which is never           *)
(* forgotten during a run.                                                 *)
(***************************************************************************)
EXTENDS Naturals, Sequences, FiniteSets, FiniteSetsExt

CONSTANTS
  Catalogued,  \* the items: numbers, in the order of the query
  HrefOf,     \* the visual asset of each, or NoHref
  NoHref,
  Pyramid,    \* tiles, by zoom: [zoom, over, beside], where over has the items
              \* whose picture the tile shows, beside those it only touches
  Threads,    \* the pool
  MaxCogs,    \* MAX_COGS_PER_TILE
  BatchOf     \* tiles given to the pool at a time

ASSUME ItemsAreNumbered == Catalogued \subseteq Nat /\ IsFiniteSet(Catalogued)
ASSUME PyramidOfItems ==
  Pyramid \in Seq([zoom : Nat, over : SUBSET Catalogued, beside : SUBSET Catalogued])
ASSUME TilesHaveRoom == MaxCogs \in Nat \ {0} /\ BatchOf \in Nat \ {0}

VARIABLES
  bands,      \* of each image
  counts,     \* band_count_cache: the images whose bands are known
  failures,   \* failure_cache
  render,     \* the main thread: its phase, its features and its lists of tiles
  thread,     \* the pool's threads
  archive     \* the tiles written, in order

mosaicVars == <<bands, counts, failures, render, thread, archive>>

Hrefs == {HrefOf[i] : i \in Catalogued} \ {NoHref}
Unused  == [pc |-> "idle", tile |-> 0, todo |-> {}, kept |-> {}, drawn |-> {}]

MosaicInit ==
  /\ bands = [u \in Hrefs |-> 0]
  /\ counts = {} /\ failures = {}
  /\ render = [phase |-> "start", unchecked |-> {}, features |-> {}, rest |-> <<>>,
               batch |-> <<>>, untaken |-> <<>>, result |-> <<>>]
  /\ thread = [t \in Threads |-> Unused]
  /\ archive = <<>>
-----------------------------------------------------------------------------
Imagery(n) == n \in {3, 4}

(* validate_cog_bands: what is known is not opened again. *)
Validates(u, opens) ==
  u \notin failures /\ (u \in counts \/ opens) /\ Imagery(bands[u])

Validation(u, opens) ==
  /\ counts' = IF u \notin failures /\ opens THEN counts \cup {u} ELSE counts
  /\ failures' = IF u \notin counts /\ ~opens THEN failures \cup {u} ELSE failures

(* get_features: an item without the asset is left out.  An image may have
   three bands, or one; four are treated as three. *)
LoadFeatures ==
  /\ render.phase = "start"
  /\ bands' \in [Hrefs -> {1, 3}]
  /\ LET found == {i \in Catalogued : HrefOf[i] # NoHref} IN
     render' = [render EXCEPT !.phase = IF found = {} THEN "ended" ELSE "checking",
                              !.unchecked = found]
  /\ UNCHANGED <<counts, failures, thread, archive>>

(* pre_validate_cogs, one image after the other. *)
PreValidate ==
  /\ render.phase = "checking" /\ render.unchecked # {}
  /\ LET i == Min(render.unchecked) IN
     \E opens \in BOOLEAN :
       /\ Validation(HrefOf[i], opens)
       /\ render' = [render EXCEPT !.unchecked = @ \ {i},
                       !.features = IF Validates(HrefOf[i], opens) THEN @ \cup {i} ELSE @]
  /\ UNCHANGED <<bands, thread, archive>>

(* tree.query: what a tile touches, in no particular order. *)
Candidates(n) == (Pyramid[n].over \cup Pyramid[n].beside) \cap render.features

(* Those that touch an image, as they stand in the pyramid. *)
Touched == {n \in 1..Len(Pyramid) : Candidates(n) # {}}

TileList ==
  CHOOSE s \in [1..Cardinality(Touched) -> Touched] :
    \A j, k \in 1..Cardinality(Touched) : j < k => s[j] < s[k]

ListTiles ==
  /\ render.phase = "checking" /\ render.unchecked = {}
  /\ render' = IF render.features = {} THEN [render EXCEPT !.phase = "ended"]
               ELSE [render EXCEPT !.phase = "rendering", !.rest = TileList]
  /\ UNCHANGED <<bands, counts, failures, thread, archive>>

(* Zoom by zoom, so many tiles at a time. *)
BatchLength ==
  CHOOSE k \in 1..Len(render.rest) :
    /\ k <= BatchOf /\ \A n \in 1..k : Pyramid[render.rest[n]].zoom = Pyramid[render.rest[1]].zoom
    /\ \/ k = BatchOf \/ k = Len(render.rest)
       \/ Pyramid[render.rest[k + 1]].zoom # Pyramid[render.rest[1]].zoom

StartBatch ==
  /\ render.phase = "rendering" /\ render.batch = <<>> /\ render.rest # <<>>
  /\ LET b == SubSeq(render.rest, 1, BatchLength) IN
     render' = [render EXCEPT !.batch = b, !.untaken = b,
                              !.rest = SubSeq(@, BatchLength + 1, Len(@)),
                              !.result = [n \in {b[k] : k \in 1..Len(b)} |-> <<>>]]
  /\ UNCHANGED <<bands, counts, failures, thread, archive>>
-----------------------------------------------------------------------------
(* process_tile: a tile is the mask of what it touches, or a picture of images. *)
Mask(n)       == [tile |-> n, is |-> "mask", of |-> Candidates(n)]
Picture(n, s) == [tile |-> n, is |-> "picture", of |-> s]

Yields(t, r, tile) ==
  /\ render' = [r EXCEPT !.result[tile.tile] = <<tile>>]
  /\ thread' = [thread EXCEPT ![t] = Unused]

TakeTile(t) ==
  /\ thread[t].pc = "idle" /\ render.untaken # <<>>
  /\ LET n == Head(render.untaken)
         r == [render EXCEPT !.untaken = Tail(@)] IN
     IF Pyramid[n].zoom <= 10
       THEN Yields(t, r, Mask(n))
       ELSE /\ render' = r
            /\ thread' = [thread EXCEPT ![t] =
                 [Unused EXCEPT !.pc = "filter", !.tile = n, !.todo = Candidates(n)]]
  /\ UNCHANGED <<bands, counts, failures, archive>>

(* Mutant: one more than the limit. *)
PastEnough(s) == Cardinality(s) > MaxCogs

Enough(s) == Cardinality(s) >= MaxCogs

(* filter_rgb_features_for_tile *)
FilterCog(t) ==
  /\ thread[t].pc = "filter"
  /\ \E i \in thread[t].todo, opens \in BOOLEAN :
       /\ Validation(HrefOf[i], opens)
       /\ LET kept == thread[t].kept \cup (IF Validates(HrefOf[i], opens) THEN {i} ELSE {}) IN
          thread' = [thread EXCEPT ![t].kept = kept,
                                   ![t].todo = IF Enough(kept) THEN {} ELSE @ \ {i}]
  /\ UNCHANGED <<bands, render, archive>>

Round(t, pc, items) ==
  /\ thread' = [thread EXCEPT ![t] = [@ EXCEPT !.pc = pc, !.todo = items, !.kept = items,
                                               !.drawn = {}]]
  /\ UNCHANGED render

(* safe_mosaic_reader leaves out what another thread found unreadable since. *)
BeginMosaic(t) ==
  /\ thread[t].pc = "filter" /\ thread[t].todo = {}
  /\ LET usable == {i \in thread[t].kept : HrefOf[i] \notin failures} IN
     IF usable = {} THEN Yields(t, render, Mask(thread[t].tile))
     ELSE Round(t, "mosaic", usable)
  /\ UNCHANGED <<bands, counts, failures, archive>>

(* A mosaic that fails: each image by itself; the one made after that: the mask. *)
MosaicFails(t) ==
  IF thread[t].pc = "mosaic" THEN Round(t, "single", thread[t].kept)
  ELSE Yields(t, render, Mask(thread[t].tile))

Drawing(t, i, s) ==
  \/ /\ thread' = [thread EXCEPT ![t].todo = @ \ {i}, ![t].drawn = s]
     /\ UNCHANGED render
  \/ /\ thread[t].pc # "single" /\ s # {}  \* the tile is full
     /\ Yields(t, render, Picture(thread[t].tile, s))

(* cog_reader: whatever goes wrong, a tile beside the picture too, marks the
   image for the rest of the run.  rio_tiler's mosaic_reader passes over a
   reader that gives nothing, or fails on it. *)
ReadCog(t) ==
  /\ thread[t].pc \in {"mosaic", "single", "again"}
  /\ \E i \in thread[t].todo, opens \in BOOLEAN :
       LET u     == HrefOf[i]
           fails == u \in failures \/ ~opens \/ (Imagery(bands[u]) /\ i \in Pyramid[thread[t].tile].beside)
       IN /\ failures' = IF fails THEN failures \cup {u} ELSE failures
          /\ counts' = IF u \notin failures /\ opens THEN counts \cup {u} ELSE counts
          /\ IF ~fails /\ Imagery(bands[u]) THEN Drawing(t, i, thread[t].drawn \cup {i})
             ELSE \/ Drawing(t, i, thread[t].drawn)
                  \/ thread[t].pc # "single" /\ MosaicFails(t)
  /\ UNCHANGED <<bands, archive>>

EndRound(t) ==
  /\ thread[t].pc \in {"mosaic", "single", "again"} /\ thread[t].todo = {}
  /\ IF thread[t].drawn = {}
       THEN IF thread[t].pc = "single" THEN Yields(t, render, Mask(thread[t].tile))
            ELSE MosaicFails(t)
       ELSE IF thread[t].pc = "single" THEN Round(t, "again", thread[t].drawn)
            ELSE Yields(t, render, Picture(thread[t].tile, thread[t].drawn))
  /\ UNCHANGED <<bands, counts, failures, archive>>

(* executor.map: the results of a batch, once all are there, in its order. *)
WriteBatch ==
  /\ render.batch # <<>> /\ \A n \in DOMAIN render.result : render.result[n] # <<>>
  /\ archive' = archive \o [k \in 1..Len(render.batch) |-> render.result[render.batch[k]][1]]
  /\ render' = [render EXCEPT !.batch = <<>>, !.result = <<>>]
  /\ UNCHANGED <<bands, counts, failures, thread>>

Finalize ==
  /\ render.phase = "rendering" /\ render.batch = <<>> /\ render.rest = <<>>
  /\ render' = [render EXCEPT !.phase = "finalized"]
  /\ UNCHANGED <<bands, counts, failures, thread, archive>>

MosaicNext ==
  \/ LoadFeatures \/ PreValidate \/ ListTiles \/ StartBatch \/ WriteBatch \/ Finalize
  \/ \E t \in Threads :
       TakeTile(t) \/ FilterCog(t) \/ BeginMosaic(t) \/ ReadCog(t) \/ EndRound(t)

MosaicSpec == MosaicInit /\ [][MosaicNext]_mosaicVars
-----------------------------------------------------------------------------
MosaicTypeOK ==
  /\ counts \subseteq Hrefs /\ failures \subseteq Hrefs
  /\ render.phase \in {"start", "checking", "rendering", "finalized", "ended"}
  /\ \A t \in Threads : thread[t].pc \in {"idle", "filter", "mosaic", "single", "again"}

(* "Falls back to coverage": a tile of the mosaic's zooms is the mask only if
   an image under it could not be read; otherwise it is drawn, from at most so
   many images that lie under it and have three bands or four. *)
MaskIsExplained ==
  \A k \in 1..Len(archive) :
    LET e == archive[k] IN
    /\ e.is = "mask" /\ Pyramid[e.tile].zoom > 10 => \E i \in e.of : HrefOf[i] \in failures
    /\ e.is = "picture" =>
         /\ e.of # {} /\ e.of \subseteq Pyramid[e.tile].over /\ Cardinality(e.of) <= MaxCogs
         /\ \A i \in e.of : bands[HrefOf[i]] \in {3, 4}

(* An archive that is finished has each tile over a usable image once, lowest
   zoom first, whatever failed and whichever thread was last. *)
NoTileLost ==
  render.phase = "finalized" => [k \in 1..Len(archive) |-> archive[k].tile] = TileList

(* The mosaic is whole, and shows what could be read. *)
MosaicIsWhole == MosaicTypeOK /\ MaskIsExplained /\ NoTileLost
=============================================================================
