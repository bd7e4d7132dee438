----------------------------- MODULE TileWorker -----------------------------
(***************************************************************************)
(* The program of a tilepack pod, generate.py: one Job, whose pod is run   *)
(* again once if it fails.  The main thread plans the tiles, hands them to *)
(* a pool of threads batch by batch, writes what comes back, and stores    *)
(* and registers the archives; a signal may reach it anywhere.             *)
(*                                                                         *)
(* Tilepack has what other pods and requests do meanwhile.  A picture is   *)
(* one row of pixels, of which some hold data, on a grid that zooms divide *)
(* into tiles; the other axis is treated the same.                         *)
(***************************************************************************)
EXTENDS Integers, FiniteSetsExt

CONSTANTS
  Scenes,     \* pictures: [width, off, valid], off from the grid's edge
  MaxZoom,    \* zooms are 0..MaxZoom
  Factor,     \* COVERAGE_SOURCE_FACTOR
  TileBatch,  \* TILE_BATCH
  MaxTiles,   \* MAX_TILE_COUNT
  MaxBytes,   \* MAX_ENCODED_BYTES, in tiles
  MaxHits     \* bound: signals, and calls and tiles that fail

ASSUME SizesArePositive == Factor \in Nat \ {0} /\ TileBatch \in Nat \ {0}
ASSUME ZoomsAreCounted  == MaxZoom \in Nat
ASSUME ScenesArePictures ==
  \A s \in Scenes : /\ s.width \in Nat \ {0} /\ s.off \in Int
                    /\ s.valid \subseteq 0..(s.width - 1)

VARIABLES
  scene,   \* the picture at COG_URL
  main,    \* the main thread
  pool,    \* the batch's futures
  stop,    \* _stop_rendering
  pack,    \* the tiles in the local .mbtiles
  shelf,   \* the bucket: archives, lock, failure note
  listed,  \* the assets registered
  hits,    \* signals and failures so far
  clean    \* history: no call about the lock or the note failed or was cut

files      == <<pack, shelf, listed>>
faultVars  == <<hits, clean>>
workerVars == <<scene, main, pool, stop, files, faultVars>>

Formats == {"mbtiles", "pmtiles"}
Results == {"ok", "empty", "outside", "failed", "cancelled"}
Reasons == {"none", "earlier", "budget", "stopped", "error"}
NoPack  == {<<-1, -1>>}

-----------------------------------------------------------------------------
(* The tiles of a picture; a tile is <<zoom, column>>. *)

Span(z) == Factor * 2^(MaxZoom - z)
West(t) == t[2] * Span(t[1]) - scene.off
East(t) == West(t) + Span(t[1])

(* lonlat_to_tile of both edges: the last column may only touch the picture. *)
Row(z) == {<<z, x>> : x \in (scene.off \div Span(z))..((scene.off + scene.width) \div Span(z))}
TileCount == MapThenSumSet(LAMBDA z : Cardinality(Row(z)), 0..MaxZoom)

Outside(t)  == West(t) >= scene.width \/ East(t) <= 0
HasData(t)  == \E p \in scene.valid : West(t) <= p /\ p < East(t)
Wanted      == {t \in UNION {Row(z) : z \in 0..MaxZoom} : HasData(t)}

Ceil(a, b) == (a + b - 1) \div b
Cells == Ceil(scene.width, Factor)

(* reduce_mask, then the reprojection onto as many cells over the bounds: a cell
   is set if a source cell it overlaps is; then grown by a cell. *)
Pooled == {p \div Factor : p \in scene.valid}
Warped == {j \in 0..(Cells - 1) : \E i \in Pooled :
             i * Factor * Cells < (j + 1) * scene.width /\ (i + 1) * Factor * Cells > j * scene.width}
Grown  == {j \in 0..(Cells - 1) : {j - 1, j, j + 1} \cap Warped # {}}

(* Mutant: the last cell is cut off. *)
IntersectsDown(t) ==
  \E c \in Grown : /\ c >= (Max({West(t), 0}) * Cells) \div scene.width
                   /\ c < (East(t) * Cells) \div scene.width

Intersects(t) ==
  \E c \in Grown : /\ c >= (Max({West(t), 0}) * Cells) \div scene.width
                   /\ c < Ceil(East(t) * Cells, scene.width)

Prefilters == Warped # {} /\ Warped # 0..(Cells - 1)
-----------------------------------------------------------------------------
InMain(pc) == main.pc = pc
Go(pc)  == main' = [main EXCEPT !.pc = pc]

(* How a run ends: its code, and the reason it leaves. *)
Quit(code, reason) ==
  /\ main' = [main EXCEPT !.pc = IF reason = "none" THEN "unlock" ELSE "note",
                          !.code = code, !.reason = reason]
  /\ pool' = <<>>
  /\ pack' = NoPack

Hit == hits < MaxHits /\ hits' = hits + 1

WorkerInit ==
  /\ scene = [width |-> 1, off |-> 0, valid |-> {}]
  /\ main = [pc |-> "off", fmt |-> "mbtiles", try |-> 1, code |-> 0, reason |-> "none",
             canonical |-> TRUE, zoom |-> 0, left |-> {}, seen |-> TRUE, again |-> <<-1, -1>>]
  /\ pool = <<>> /\ stop = FALSE
  /\ pack = NoPack /\ listed = {}
  /\ shelf = [archive |-> [f \in Formats |-> NoPack], lock |-> FALSE, note |-> "none"]
  /\ hits = 0 /\ clean = TRUE

(* The API has put the lock; an .mbtiles may be there from before.  An archive of
   zooms that somebody chose is not canonical. *)
CreatePod ==
  /\ InMain("off")
  /\ scene' \in Scenes
  /\ \E f \in Formats, n \in {"none", "earlier"}, old, c \in BOOLEAN :
       /\ main' = [main EXCEPT !.pc = "clear", !.fmt = f, !.canonical = c]
       /\ shelf' = [shelf EXCEPT !.lock = TRUE, !.note = n,
                      !.archive["mbtiles"] = IF old THEN Wanted' ELSE NoPack]
  /\ UNCHANGED <<pool, stop, pack, listed, faultVars>>

(* BackoffLimit 1, and none for a run that ran out of time. *)
RetryPod ==
  /\ InMain("ended") /\ main.code \notin {0, 75} /\ main.try = 1
  /\ main' = [main EXCEPT !.pc = "clear", !.try = 2, !.code = 0, !.reason = "none"]
  /\ stop' = FALSE
  /\ UNCHANGED <<scene, pool, files, faultVars>>

(* clear_error: best effort; a signal that arrives in it is swallowed. *)
ClearNote ==
  /\ InMain("clear") /\ Go("choose")
  /\ \/ shelf' = [shelf EXCEPT !.note = "none"] /\ UNCHANGED <<stop, faultVars>>
     \/ Hit /\ clean' = FALSE /\ stop' \in {stop, TRUE} /\ UNCHANGED shelf
  /\ UNCHANGED <<scene, pool, pack, listed>>

Found == main.fmt = "pmtiles" /\ shelf.archive["mbtiles"] # NoPack

TooBig == Found /\ Cardinality(shelf.archive["mbtiles"]) > MaxBytes

(* Reuse the archive that is there rather than read the picture again. *)
Reuse ==
  /\ InMain("choose") /\ Found /\ ~TooBig
  /\ pack' = shelf.archive["mbtiles"] /\ Go("convert")
  /\ UNCHANGED <<scene, pool, stop, shelf, listed, faultVars>>

Refuse ==
  /\ \/ InMain("choose") /\ TooBig
     \/ InMain("choose") /\ ~Found /\ TileCount > MaxTiles
  /\ Quit(1, "error")
  /\ UNCHANGED <<scene, stop, shelf, listed, faultVars>>

(* build_coverage: on, off, or off because it failed or a signal came in it. *)
Plan ==
  /\ InMain("choose") /\ ~Found /\ TileCount <= MaxTiles
  /\ \E on \in BOOLEAN :
       main' = [main EXCEPT !.pc = "batch", !.zoom = 0, !.seen = on /\ Prefilters,
                 !.left = {t \in Row(0) : on /\ Prefilters => Intersects(t)}]
  /\ pack' = {}
  /\ \/ UNCHANGED <<stop, faultVars>>
     \/ ~main'.seen /\ Hit /\ stop' = TRUE /\ UNCHANGED clean
  /\ UNCHANGED <<scene, pool, shelf, listed>>

FirstOf(n, tiles) == {t \in tiles : Cardinality({u \in tiles : u[2] < t[2]}) < n}

Submit ==
  /\ InMain("batch") /\ main.left # {}
  /\ LET b == FirstOf(TileBatch, main.left) IN
     /\ pool' = [t \in b |-> "queued"]
     /\ main' = [main EXCEPT !.pc = "drain", !.left = @ \ b]
  /\ UNCHANGED <<scene, stop, files, faultVars>>

(* _render_tile, in a thread of the pool or, the second time, in the main one. *)
Rendered(t, r) ==
  IF stop THEN r = "cancelled" /\ UNCHANGED hits
  ELSE \/ r = "failed" /\ Hit
       \/ /\ r = IF Outside(t) THEN "outside" ELSE IF HasData(t) THEN "ok" ELSE "empty"
          /\ UNCHANGED hits

RenderTile ==
  /\ \E t \in DOMAIN pool, r \in Results :
       pool[t] = "queued" /\ Rendered(t, r) /\ pool' = [pool EXCEPT ![t] = r]
  /\ UNCHANGED <<scene, main, stop, files, clean>>

Rest(t) == [u \in DOMAIN pool \ {t} |-> pool[u]]

(* Mutant: a cancelled tile is queued again. *)
TakeAgain(t, r) ==
  IF r = "cancelled"
    THEN /\ pool' = [u \in DOMAIN pool \cup {t} |-> IF u = t THEN "queued" ELSE pool[u]]
         /\ Go("drain") /\ UNCHANGED pack
    ELSE pool' = Rest(t) /\ pack' = (IF r = "ok" THEN pack \cup {t} ELSE pack) /\ Go("drain")

(* What the main thread does with a result. *)
Take(t, r) ==
  \/ r \in {"outside", "empty"} /\ pool' = Rest(t) /\ Go("drain") /\ UNCHANGED pack
  \/ r = "cancelled" /\ Quit(143, "stopped")
  \/ r = "ok" /\ Cardinality(pack) >= MaxBytes /\ Quit(1, "error")
  \/ /\ r = "ok" /\ Cardinality(pack) < MaxBytes
     /\ pack' = pack \cup {t} /\ pool' = Rest(t) /\ Go("drain")

Gather ==
  /\ InMain("drain")
  /\ \E t \in {u \in DOMAIN pool : pool[u] # "queued"} :
       \/ pool[t] # "failed" /\ Take(t, pool[t])
       \/ /\ pool[t] = "failed" /\ pool' = Rest(t) /\ UNCHANGED pack
          /\ main' = [main EXCEPT !.pc = "retry", !.again = t]
  /\ UNCHANGED <<scene, stop, shelf, listed, faultVars>>

OutOfTime ==
  /\ InMain("drain") /\ \E t \in DOMAIN pool : pool[t] # "queued"
  /\ Quit(75, "budget") /\ stop' = TRUE
  /\ UNCHANGED <<scene, shelf, listed, faultVars>>

(* A second failure ends the run, and so does a signal, which the retry takes
   for one. *)
RetryTile ==
  /\ InMain("retry")
  /\ \E r \in Results :
       /\ Rendered(main.again, r)
       /\ IF r = "failed" THEN Quit(1, "error") /\ stop' = TRUE
                          ELSE Take(main.again, r) /\ UNCHANGED stop
  /\ UNCHANGED <<scene, shelf, listed, clean>>

EndBatch ==
  /\ InMain("drain") /\ pool = <<>>
  /\ Go("batch")
  /\ UNCHANGED <<scene, pool, stop, files, faultVars>>

NextZoom ==
  /\ InMain("batch") /\ main.left = {}
  /\ main' = IF main.zoom = MaxZoom THEN [main EXCEPT !.pc = "storeMb"]
             ELSE [main EXCEPT !.zoom = @ + 1, !.left =
                     {t \in Row(main.zoom + 1) : main.seen => Intersects(t)}]
  /\ UNCHANGED <<scene, pool, stop, files, faultVars>>

Upload(fmt) == shelf' = [shelf EXCEPT !.archive[fmt] = pack]

(* Upload before callbacks: the .mbtiles that a .pmtiles is made of is stored too. *)
StoreArchive ==
  /\ \/ InMain("storeMb") /\ Upload("mbtiles")
        /\ Go(IF main.fmt = "mbtiles" THEN "listMb" ELSE "convert")
     \/ InMain("convert") /\ Upload("pmtiles") /\ Go("listPm")
  /\ UNCHANGED <<scene, pool, stop, pack, listed, faultVars>>

(* POST to the API, which adds the asset to the Item: all of it, or an error. *)
PatchItemAsset(fmt) == listed' = listed \cup {fmt}

(* register: a variant is not recorded. *)
PatchAsset(fmt) ==
  \/ main.canonical /\ PatchItemAsset(fmt)
  \/ ~main.canonical /\ UNCHANGED listed

RegisterAsset ==
  /\ \/ InMain("listPm") /\ PatchAsset("pmtiles") /\ Go("listMb")
     \/ InMain("listMb") /\ PatchAsset("mbtiles") /\ Go("finish")
  /\ UNCHANGED <<scene, pool, stop, pack, shelf, faultVars>>

Finish == InMain("finish") /\ Quit(0, "none") /\ UNCHANGED <<scene, stop, shelf, listed, faultVars>>

Working == {"choose", "batch", "drain", "retry", "storeMb", "convert", "listPm", "listMb", "finish"}

(* S3, the conversion or a callback fails. *)
CallFails ==
  /\ Hit
  /\ \/ main.pc \in {"choose", "storeMb", "convert"}
     \/ main.pc \in {"listPm", "listMb"} /\ main.canonical
  /\ Quit(1, "error")
  /\ UNCHANGED <<scene, stop, shelf, listed, clean>>

(* SIGTERM in the main thread, where nothing swallows it. *)
Signalled ==
  /\ Hit /\ main.pc \in Working \ {"retry"} /\ stop' = TRUE
  /\ Quit(143, "stopped")
  /\ UNCHANGED <<scene, shelf, listed, clean>>

(* put_error and delete_lock are best effort too. *)
PutNote ==
  /\ InMain("note") /\ Go("unlock")
  /\ \/ shelf' = [shelf EXCEPT !.note = main.reason] /\ UNCHANGED faultVars
     \/ Hit /\ clean' = FALSE /\ UNCHANGED shelf
  /\ UNCHANGED <<scene, pool, stop, pack, listed>>

DeleteLock ==
  /\ InMain("unlock") /\ Go("ended")
  /\ \/ shelf' = [shelf EXCEPT !.lock = FALSE] /\ UNCHANGED faultVars
     \/ Hit /\ clean' = FALSE /\ UNCHANGED shelf
  /\ UNCHANGED <<scene, pool, stop, pack, listed>>

MainStep ==
  \/ ClearNote \/ Reuse \/ Refuse \/ Plan \/ Submit \/ Gather \/ RetryTile \/ EndBatch
  \/ NextZoom \/ StoreArchive \/ RegisterAsset \/ Finish \/ PutNote \/ DeleteLock

WorkerNext == CreatePod \/ RetryPod \/ MainStep \/ RenderTile \/ OutOfTime \/ CallFails \/ Signalled

(* A pod's threads run. *)
WorkerFairness == WF_workerVars(MainStep) /\ WF_workerVars(RenderTile)
WorkerSpec == WorkerInit /\ [][WorkerNext]_workerVars /\ WorkerFairness
-----------------------------------------------------------------------------
(* Whatever is in the bucket holds every tile of its zooms that has data, and
   no other: the prefilter, a retry, a signal that only the pool hears of, a
   batch cut short or an archive used again never leave a hole. *)
StoredIsWhole == \A f \in Formats : shelf.archive[f] \in {NoPack, Wanted}

(* A run that ends leaves its own reason and no lock, whichever way it ends,
   unless a call about them failed: a retry is not reported by its ancestor. *)
EndTellsWhy ==
  main.pc = "ended" /\ clean => shelf.note = main.reason /\ ~shelf.lock

(* An Item names only archives that are whole and of its own zooms, both of them
   once a run for one that needs the other is over, however often it was tried. *)
ListedIsStored ==
  /\ \A f \in listed : main.canonical /\ shelf.archive[f] = Wanted
  /\ main.pc = "ended" /\ main.code = 0 /\ main.canonical =>
       listed = {f \in Formats : shelf.archive[f] # NoPack}

(* What a client finds in the bucket and on the Item is true: the archives, the
   reason of the last run, and the lock. *)
ShelfTellsTruth == StoredIsWhole /\ EndTellsWhy /\ ListedIsStored

(* Every run ends: cancelled and failed tiles keep nobody waiting, whichever
   attempt of the Job they are left to. *)
WorkerEnds == <>[](main.pc \in {"off", "ended"})
=============================================================================
