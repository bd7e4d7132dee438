------------------------------ MODULE MapImages ------------------------------
(***************************************************************************)
(* The imagery on the browse map, Map.tsx and Browse.tsx: which images are *)
(* drawn as stretched thumbnails and which as tiles, which one is          *)
(* selected, and the link that names it.                                   *)
(*                                                                         *)
(* An action is an event of the map, of the user or of a fetch, with the   *)
(* effects React runs after it, in their order.  The effects read what     *)
(* others left on the map: the thumbnails are decided before the tiles, on *)
(* what the last round left, and the map is idle again after each change.  *)
(* fitBounds is one of the moves, which may end anywhere.                  *)
(***************************************************************************)
EXTENDS Naturals, FiniteSets

CONSTANTS
  Images,       \* 1, 2, ... in the order the tiles list them
  Large,        \* those of more than LARGE_IMAGE_THRESHOLD_SQ_KM
  Thumbed,      \* those with a thumbnail
  Tight,        \* those whose footprint in the tiles holds the raster's bounds
  Places,       \* where the map may be
  ZoomAt,       \* the zoom of each place
  Near,         \* the images in the tiles of each place
  FilterSets,   \* what may be filtered for
  Drawn,        \* what buildFilter lets through, for each
  Matching,     \* what matchesFilters lets through, for each
  MAX_TMS, MAX_PREVIEWS

ASSUME ImagesAreNumbered == Images \subseteq Nat \ {0} /\ IsFiniteSet(Images)
ASSUME PlacesAreOnMap    == ZoomAt \in [Places -> Nat] /\ Near \in [Places -> SUBSET Images]
ASSUME CapsArePositive   == MAX_TMS \in Nat \ {0} /\ MAX_PREVIEWS \in Nat \ {0}

FOOTPRINT_MIN_ZOOM    == 8
TMS_SELECTED_MIN_ZOOM == 10
TMS_LARGE_MIN_ZOOM    == 12
TMS_ALL_MIN_ZOOM      == 16
NoImage               == 0

VARIABLES
  page,      \* place, tiles loaded, filters, selection, the previews toggle
  layers,    \* _tmsImageIds, the tile layers, the thumbnails
  bounds,    \* ItemBoundsCache: an entry for each image
  link,      \* selected_id in the address bar
  restored,  \* initialUrlSelectionDone
  offered,   \* the images of the cards, and of a popup, which outlasts moves
  dirty,     \* the map changed since it was last idle
  rest       \* history: idles since the last input, up to two

imageVars == <<page, layers, bounds, link, restored, offered, dirty, rest>>

Zoom(p) == ZoomAt[p.place]
NoLayer == [on |-> FALSE, bounds |-> "none", minzoom |-> 0]
Tiled   == {i \in Images : layers.tms[i].on}

ImagesInit ==
  /\ page \in {[place |-> v, tiles |-> {}, filter |-> f, drawn |-> f, selected |-> NoImage,
                previewsOn |-> TRUE] : v \in Places, f \in FilterSets}
  /\ layers = [ids |-> {}, tms |-> [i \in Images |-> NoLayer], preview |-> {}]
  /\ bounds = [i \in Images |-> "none"]
  /\ link \in Images \cup {NoImage} /\ restored = FALSE
  /\ offered = {} /\ dirty = TRUE /\ rest = 0
-----------------------------------------------------------------------------
(* What the effects draw. *)

Rendered(p) == IF Zoom(p) >= FOOTPRINT_MIN_ZOOM THEN p.tiles \cap Drawn[p.drawn] ELSE {}

First(n, S) == {i \in S : Cardinality({j \in S : j < i}) < n}

RoomFor(max, picked) == max - Cardinality(picked)

(* Mutant: what is drawn as tiles is given a thumbnail as well. *)
PreviewsOfAll(p, l) ==
  LET picked == IF Zoom(p) >= FOOTPRINT_MIN_ZOOM THEN {p.selected} \cap Thumbed ELSE {}
      others == IF p.previewsOn THEN (Rendered(p) \cap Thumbed) \ picked ELSE {}
  IN picked \cup First(RoomFor(MAX_PREVIEWS, picked), others)

(* Effect 6: the images to be shown as thumbnails, the selected one first. *)
VisibleIds(p, l) ==
  LET picked == IF Zoom(p) >= FOOTPRINT_MIN_ZOOM THEN ({p.selected} \cap Thumbed) \ l.ids ELSE {}
      others == IF p.previewsOn THEN (Rendered(p) \cap Thumbed) \ (l.ids \cup picked) ELSE {}
  IN picked \cup First(RoomFor(MAX_PREVIEWS, picked), others)

(* One is added only where the tiles tell its extent. *)
WithPreviews(p, l) ==
  LET ids == VisibleIds(p, l)
  IN [l EXCEPT !.preview = {i \in @ \cap ids : ~l.tms[i].on} \cup (ids \cap p.tiles)]

(* Effect 7: the images to be shown as tiles. *)
SelectedTms(p) == IF Zoom(p) >= TMS_SELECTED_MIN_ZOOM THEN {p.selected} \ {NoImage} ELSE {}

AutoTms(p) ==
  LET wanted == {i \in p.tiles \cap Matching[p.filter] :
                   Zoom(p) >= TMS_ALL_MIN_ZOOM \/ i \in Large}
  IN IF p.previewsOn /\ Zoom(p) >= TMS_LARGE_MIN_ZOOM
       THEN First(RoomFor(MAX_TMS, SelectedTms(p)), wanted \ SelectedTms(p)) ELSE {}

BoundsMatch(i, old, new) ==
  \/ new = "none" \/ old = new
  \/ old = "tiles" /\ new = "item" /\ i \in Tight
  \/ old = "item" /\ new = "tiles" /\ i \notin Tight

SourceMinZoom(p, i) == IF i = p.selected THEN TMS_SELECTED_MIN_ZOOM ELSE TMS_LARGE_MIN_ZOOM

(* A layer that is there stays as it is, its minzoom with it, while the bounds
   it has hold the ones that are wanted. *)
TmsLayer(p, l, b, i) ==
  LET new == IF i \notin SelectedTms(p) THEN "tiles" ELSE IF b[i] = "known" THEN "item" ELSE "none"
  IN IF l.tms[i].on /\ BoundsMatch(i, l.tms[i].bounds, new) THEN l.tms[i]
     ELSE [on |-> TRUE, bounds |-> new, minzoom |-> SourceMinZoom(p, i)]

WithTms(p, l, b) ==
  LET desired == SelectedTms(p) \cup AutoTms(p)
  IN [l EXCEPT !.ids = desired,
               !.tms = [i \in Images |-> IF i \in desired THEN TmsLayer(p, l, b, i) ELSE NoLayer]]

(* fetchItemBounds, unless there is an entry that holds. *)
Asked(p, b) ==
  [i \in Images |-> IF i \in SelectedTms(p) /\ b[i] = "none" THEN "fetching" ELSE b[i]]

(* The effects after a change of p; moveLayer repaints whatever it moves. *)
Effects(p) ==
  LET l == WithPreviews(p, layers)
  IN page' = p /\ layers' = WithTms(p, l, bounds) /\ bounds' = Asked(p, bounds)

EffectSeven(p) == page' = p /\ layers' = WithTms(p, layers, bounds) /\ bounds' = Asked(p, bounds)

Repainted == layers' # layers \/ layers'.preview # {} \/ layers'.ids # {}
Input     == dirty' = TRUE /\ rest' = 0
-----------------------------------------------------------------------------
(* handleFeaturesUpdate: the sidebar's list, and once, from the first list that
   is not empty, the image the link names. *)
Emit(seen) == offered' = offered \cup seen /\ restored' = (restored \/ seen # {})

Linked(seen) == IF ~restored THEN seen \cap {link} ELSE {}

(* The map's idle event: every tile is there. *)
Idle ==
  LET now  == [page EXCEPT !.drawn = page.filter]
      back == Linked(Rendered(now))
      p    == IF back = {} THEN now ELSE [now EXCEPT !.selected = CHOOSE i \in back : TRUE]
  IN /\ dirty /\ page.tiles = Near[page.place]
     /\ Emit(Rendered(now)) /\ Effects(p)
     /\ dirty' = (back # {} \/ Repainted)
     /\ rest' = IF back # {} THEN 0 ELSE IF rest < 2 THEN rest + 1 ELSE 2
     /\ UNCHANGED link

TileArrives(i) ==
  /\ i \in Near[page.place] \ page.tiles
  /\ page' = [page EXCEPT !.tiles = @ \cup {i}] /\ Input
  /\ UNCHANGED <<layers, bounds, link, restored, offered>>

MoveTo(v) ==
  /\ v # page.place
  /\ page' = [page EXCEPT !.place = v, !.tiles = @ \cap Near[v]] /\ Input
  /\ UNCHANGED <<layers, bounds, link, restored, offered>>

(* handleFilterChange: what is queried at once is rendered as it was before. *)
ChangeFilter(f) ==
  LET seen == Rendered(page)
      back == Linked(seen)
      p    == [page EXCEPT !.filter = f] IN
  /\ f # page.filter /\ Emit(seen) /\ Input
  /\ IF back = {} THEN EffectSeven(p)
     ELSE Effects([p EXCEPT !.selected = CHOOSE i \in back : TRUE])
  /\ UNCHANGED link

(* The button follows the zoom of the last idle. *)
TogglePreviews ==
  /\ Effects([page EXCEPT !.previewsOn = ~@]) /\ Input
  /\ UNCHANGED <<link, restored, offered>>

(* handleSelectFeature, from a card, the popup, or a click on one footprint. *)
Select(i) ==
  /\ i \in offered \cup Rendered(page)
  /\ Effects([page EXCEPT !.selected = i]) /\ link' = i /\ Input
  /\ UNCHANGED <<restored, offered>>

(* Escape, the card's cross, or a click beside everything. *)
Deselect ==
  /\ page.selected # NoImage
  /\ Effects([page EXCEPT !.selected = NoImage]) /\ link' = NoImage /\ Input
  /\ UNCHANGED <<restored, offered>>

BoundsArrive(i) ==
  /\ bounds[i] = "fetching"
  /\ LET b == [bounds EXCEPT ![i] = "known"] IN
     /\ layers' = WithTms(page, layers, b) /\ bounds' = Asked(page, b)
     /\ dirty' = (dirty \/ Repainted) /\ rest' = 0
  /\ UNCHANGED <<page, link, restored, offered>>

(* Nothing is drawn again for a failure, which is forgotten after a while. *)
BoundsFail(i) ==
  /\ bounds[i] \in {"fetching", "failed"}
  /\ bounds' = [bounds EXCEPT ![i] = IF @ = "fetching" THEN "failed" ELSE "none"]
  /\ UNCHANGED <<page, layers, link, restored, offered, dirty, rest>>

ImagesNext ==
  \/ Idle \/ TogglePreviews \/ Deselect
  \/ \E v \in Places : MoveTo(v)
  \/ \E f \in FilterSets : ChangeFilter(f)
  \/ \E i \in Images : TileArrives(i) \/ Select(i) \/ BoundsArrive(i) \/ BoundsFail(i)

ImagesSpec == ImagesInit /\ [][ImagesNext]_imageVars
-----------------------------------------------------------------------------
AtRest == rest = 2 \/ ~dirty

(* constants.ts: at most MAX_TMS and MAX_PREVIEWS are drawn, at every moment,
   whatever the selection adds to what is drawn of itself. *)
WithinCaps == Cardinality(Tiled) <= MAX_TMS /\ Cardinality(layers.preview) <= MAX_PREVIEWS

(* Two idles after the last input the map has settled: no image is drawn twice,
   what is drawn passes the filters or is selected, and nothing that should be
   drawn is missing but for the caps, where the selected image has its place
   though it be out of sight. *)
MapSettles ==
  AtRest =>
    /\ layers.preview \cap Tiled = {} /\ layers.ids = Tiled
    /\ layers.preview \subseteq Drawn[page.filter] \cup {page.selected}
    /\ Tiled \subseteq Matching[page.filter] \cup {page.selected}
    /\ page.previewsOn
       /\ Cardinality(layers.preview \cup ({page.selected} \cap Thumbed)) < MAX_PREVIEWS =>
         Rendered(page) \cap Thumbed \subseteq layers.preview \cup Tiled

(* The selected image is to be seen once the map has settled, whatever else the
   caps are filled with: as tiles from TMS_SELECTED_MIN_ZOOM on, as a thumbnail
   below.  A layer that was drawn before its image was selected keeps its
   minzoom until it is replaced, for the bounds of the item. *)
SelectionIsShown ==
  AtRest /\ page.selected # NoImage =>
    LET i == page.selected IN
    IF Zoom(page) >= TMS_SELECTED_MIN_ZOOM
      THEN /\ i \in Tiled
           /\ bounds[i] = "known" /\ i \notin Tight => layers.tms[i].minzoom <= Zoom(page)
      ELSE Zoom(page) >= FOOTPRINT_MIN_ZOOM /\ i \in page.tiles \cap Thumbed => i \in layers.preview

(* The link in the address bar names the image that is selected, also when the
   user selected one before the page got to restore the one it came with. *)
LinkNamesSelection == page.selected # NoImage => link = page.selected

(* What is drawn is what should be, and no more than the caps allow; and the
   selection is to be seen, on the map and in the link to it. *)
DrawnAsChosen == WithinCaps /\ MapSettles /\ SelectionIsShown /\ LinkNamesSelection
=============================================================================
