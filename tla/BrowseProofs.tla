---------------------------- MODULE BrowseProofs ---------------------------
(***************************************************************************)
(* The browse page, for any images, places, filters, caps and number of    *)
(* views: a map at rest looks as it was last asked to, its link names what *)
(* it shows and what is selected, and no more is drawn than may be.        *)
(***************************************************************************)
EXTENDS MapView, MapImages, FiniteSetTheorems, WellFoundedInduction, TLAPS

-----------------------------------------------------------------------------
(* Views and basemaps (MapView). *)

MoveTyped ==
  /\ here \in 1..MaxViews /\ moving \in {"no", "hand", "flight"}
  /\ inBar \in 0..here /\ mini \in 0..here
  /\ mounted \in {"off", "loading", "on", "gone"}

(* A report waits only for a map that is there and at rest. *)
ReportWaits == timer => mounted = "on" /\ moving = "no"

(* What waits for the style is cancelled, or the effect of the basemap chosen;
   one basemap at most is laid. *)
BaseSound ==
  /\ waiting \subseteq {"live", "cancelled"} /\ basemap \in Basemaps /\ failed \in BOOLEAN
  /\ "live" \in waiting => mounted = "on" /\ basemap = "light"
  /\ lain = {} \/ \E b \in Basemaps : lain = {b}

Chosen == mounted = "on" /\ "live" \notin waiting => lain = {basemap} \/ failed

ViewInv == MoveTyped /\ ReportWaits /\ BaseSound /\ Chosen /\ LinkNamesView

-----------------------------------------------------------------------------
(* At first there is no map. *)
LEMMA ViewInvInit == ViewInit => ViewInv
  <1> SUFFICES ASSUME ViewInit PROVE ViewInv
    OBVIOUS
  <1>1. MoveTyped /\ ReportWaits /\ LinkNamesView
    BY ViewsPositive DEF ViewInit, MoveTyped, ReportWaits, LinkNamesView
  <1>2. BaseSound
    BY DEF ViewInit, BaseSound, Basemaps
  <1>3. Chosen
    BY DEF ViewInit, Chosen
  <1> QED  BY <1>1, <1>2, <1>3 DEF ViewInv

(* A flight starts from a map at rest, or cuts a move short. *)
LEMMA Flies ==
  ASSUME MoveTyped, NEW bar \in 0..here, FlyFrom(bar), mounted' \in {"off", "loading", "on", "gone"},
         mini' = mini
  PROVE  MoveTyped' /\ moving' = "flight" /\ timer' = FALSE
  BY ViewsPositive DEF FlyFrom, MoveTyped, TimerOnMove

(* A basemap that is chosen is laid, or waits for the style. *)
LEMMA Switches ==
  ASSUME BaseSound, NEW b \in Basemaps, Switch(b), mounted' = "on"
  PROVE  BaseSound' /\ Chosen'
  <1>1. CASE "live" \in waiting'
    BY <1>1 DEF Switch, BaseSound, Chosen, Lay, Basemaps
  <1>2. CASE "live" \notin waiting'
    BY <1>2 DEF Switch, BaseSound, Chosen, Lay, Basemaps
  <1> QED  BY <1>1, <1>2

(* The invariant is inductive: one step per action. *)
LEMMA ViewInvNext ==
  ASSUME ViewInv, [ViewNext]_viewVars
  PROVE  ViewInv'
  <1> USE DEF moveVars, baseVars
  <1> DEFINE MovesKept == UNCHANGED moveVars
             BaseKept  == UNCHANGED baseVars
  <1>1. ASSUME MovesKept, mounted' \in {"off", "loading", "on", "gone"},
               mounted' = "on" => mounted = "on",
               timer => mounted' = "on"
        PROVE  (MoveTyped /\ ReportWaits /\ LinkNamesView)'
    BY <1>1 DEF ViewInv, MoveTyped, ReportWaits, LinkNamesView
  <1>2. ASSUME BaseKept, mounted' = "on" => mounted = "on",
               "live" \in waiting => mounted' = "on"
        PROVE  (BaseSound /\ Chosen)'
    BY <1>2 DEF ViewInv, BaseSound, Chosen
  <1>3. CASE Mount
    <2>1. mounted = "off" /\ mounted' = "loading" /\ MovesKept /\ BaseKept
      BY <1>3 DEF Mount
    <2>2. ~timer /\ "live" \notin waiting
      BY <2>1 DEF ViewInv, ReportWaits, BaseSound
    <2> QED  BY <1>1, <1>2, <2>1, <2>2 DEF ViewInv
  <1>4. CASE Load
    <2>1. mounted' = "on" /\ Switch(basemap) /\ mini' = mini
      BY <1>4 DEF Load
    <2>2. (BaseSound /\ Chosen)'
      BY <2>1, Switches DEF ViewInv, BaseSound
    <2>3. CASE search = "found"
      <3>1. FlyFrom(here) /\ here \in 0..here
        BY <1>4, <2>3 DEF Load, ViewInv, MoveTyped
      <3>2. MoveTyped' /\ moving' = "flight" /\ timer' = FALSE
        BY <2>1, <3>1, Flies DEF ViewInv
      <3> QED  BY <2>2, <3>2 DEF ViewInv, ReportWaits, LinkNamesView
    <2>4. CASE search # "found"
      <3>1. inBar' = here /\ here' = here /\ moving' = moving /\ timer' = timer
        BY <1>4, <2>4 DEF Load
      <3> QED  BY <2>1, <2>2, <3>1 DEF ViewInv, MoveTyped, ReportWaits, LinkNamesView
    <2> QED  BY <2>3, <2>4
  <1>5. CASE StyleArrives
    <2>1. mounted' = mounted /\ MovesKept
      BY <1>5 DEF StyleArrives
    <2>2. (MoveTyped /\ ReportWaits /\ LinkNamesView)'
      BY <1>1, <2>1 DEF ViewInv, MoveTyped, ReportWaits
    <2>3. (BaseSound /\ Chosen)'
      BY <1>5 DEF StyleArrives, ViewInv, BaseSound, Chosen, LaidByLive, Lay, Basemaps
    <2> QED  BY <2>2, <2>3 DEF ViewInv
  <1>6. CASE StyleFails
    <2>1. mounted' = mounted /\ MovesKept
      BY <1>6 DEF StyleFails
    <2>2. (MoveTyped /\ ReportWaits /\ LinkNamesView)'
      BY <1>1, <2>1 DEF ViewInv, MoveTyped, ReportWaits
    <2>3. (BaseSound /\ Chosen)'
      BY <1>6 DEF StyleFails, ViewInv, BaseSound, Chosen
    <2> QED  BY <2>2, <2>3 DEF ViewInv
  <1>7. CASE GrabMap
    <2>1. BaseKept /\ mounted' = mounted
      BY <1>7 DEF GrabMap
    <2>2. (BaseSound /\ Chosen)'
      BY <1>2, <2>1 DEF ViewInv, BaseSound
    <2>3. (MoveTyped /\ ReportWaits /\ LinkNamesView)'
      BY <1>7, ViewsPositive
        DEF GrabMap, ViewInv, MoveTyped, ReportWaits, LinkNamesView, TimerOnMove
    <2> QED  BY <2>2, <2>3 DEF ViewInv
  <1>8. ASSUME Fly, mounted' = mounted, mini' = mini, BaseKept PROVE ViewInv'
    <2>1. PICK bar \in 0..here : FlyFrom(bar)
      BY <1>8 DEF Fly, ViewInv, MoveTyped
    <2>2. MoveTyped' /\ moving' = "flight" /\ timer' = FALSE
      BY <1>8, <2>1, Flies DEF ViewInv, MoveTyped
    <2>3. (BaseSound /\ Chosen)'
      BY <1>2, <1>8 DEF ViewInv, BaseSound
    <2> QED  BY <2>2, <2>3 DEF ViewInv, ReportWaits, LinkNamesView
  <1>9. CASE FlyToSelection
    <2>1. mounted' = mounted /\ mini' = mini /\ BaseKept
      BY <1>9 DEF FlyToSelection
    <2>2. CASE UNCHANGED <<here, moving, inBar, timer>>
      <3>1. (MoveTyped /\ ReportWaits /\ LinkNamesView)'
        BY <2>1, <2>2 DEF ViewInv, MoveTyped, ReportWaits, LinkNamesView
      <3> QED  BY <1>2, <2>1, <3>1 DEF ViewInv, BaseSound
    <2> QED  BY <1>8, <1>9, <2>1, <2>2 DEF FlyToSelection
  <1>10. ASSUME UNCHANGED <<here, moving, timer, inBar, mini, mounted>>, BaseKept PROVE ViewInv'
    <2>1. (MoveTyped /\ ReportWaits /\ LinkNamesView)'
      BY <1>10 DEF ViewInv, MoveTyped, ReportWaits, LinkNamesView
    <2> QED  BY <1>2, <1>10, <2>1 DEF ViewInv, BaseSound
  <1>11. CASE Search \/ MiniMapLoads
    BY <1>10, <1>11 DEF Search, MiniMapLoads
  <1>12. CASE SearchEnds
    BY <1>8, <1>10, <1>12 DEF SearchEnds
  <1>13. CASE MoveEnds
    <2>1. mounted' = mounted /\ BaseKept
      BY <1>13 DEF MoveEnds
    <2>2. (MoveTyped /\ ReportWaits /\ LinkNamesView)'
      BY <1>13, ViewsPositive
        DEF MoveEnds, WrittenView, ViewInv, MoveTyped, ReportWaits, LinkNamesView
    <2> QED  BY <1>2, <2>1, <2>2 DEF ViewInv, BaseSound
  <1>14. CASE TimerEnds
    <2>1. mounted' = mounted /\ BaseKept
      BY <1>14 DEF TimerEnds
    <2>2. (MoveTyped /\ ReportWaits /\ LinkNamesView)'
      BY <1>14, ViewsPositive DEF TimerEnds, ViewInv, MoveTyped, ReportWaits, LinkNamesView
    <2> QED  BY <1>2, <2>1, <2>2 DEF ViewInv, BaseSound
  <1>15. CASE Leave
    BY <1>15 DEF Leave, ViewInv, MoveTyped, ReportWaits, LinkNamesView, BaseSound, Chosen
  <1>16. CASE Return
    <2>1. ~timer /\ "live" \notin waiting
      BY <1>16 DEF Return, ViewInv, ReportWaits, BaseSound
    <2>2. (MoveTyped /\ ReportWaits /\ LinkNamesView)'
      BY <1>16, <2>1, ViewsPositive DEF Return, ViewInv, MoveTyped, ReportWaits, LinkNamesView
    <2>3. BaseSound'
      BY <1>16, <2>1 DEF Return, ViewInv, BaseSound, Basemaps
    <2>4. Chosen'
      BY <1>16 DEF Return, Chosen
    <2> QED  BY <2>2, <2>3, <2>4 DEF ViewInv
  <1>17. ASSUME NEW b \in Basemaps, ChooseBasemap(b) PROVE ViewInv'
    <2>1. mounted' = mounted /\ MovesKept
      BY <1>17 DEF ChooseBasemap
    <2>2. (MoveTyped /\ ReportWaits /\ LinkNamesView)'
      BY <1>1, <2>1 DEF ViewInv, MoveTyped, ReportWaits
    <2>3. CASE mounted = "on"
      BY <1>17, <2>1, <2>2, <2>3, Switches DEF ChooseBasemap, ViewInv
    <2>4. CASE mounted # "on"
      <3>1. basemap' = b /\ UNCHANGED <<lain, waiting, failed>>
        BY <1>17, <2>4 DEF ChooseBasemap
      <3>2. (BaseSound /\ Chosen)'
        BY <2>1, <2>4, <3>1 DEF ViewInv, BaseSound, Chosen
      <3> QED  BY <2>2, <3>2 DEF ViewInv
    <2> QED  BY <2>3, <2>4
  <1>18. CASE UNCHANGED viewVars
    BY <1>10, <1>18 DEF viewVars
  <1> QED
    BY <1>3, <1>4, <1>5, <1>6, <1>7, <1>9, <1>11, <1>12, <1>13, <1>14, <1>15, <1>16, <1>17, <1>18
      DEF ViewNext

(* Map.tsx: whichever effects, fetches and moves overtake each other, the basemap
   under the data is the one chosen last, and the link names the view. *)
THEOREM ViewChosen == ViewSpec => []ViewIsAsChosen
  <1>1. ASSUME ViewInv PROVE ViewIsAsChosen
    <2>1. Cardinality(lain) <= 1
      <3>1. CASE lain = {}
        BY <3>1, FS_EmptySet
      <3>2. ASSUME NEW b, lain = {b} PROVE Cardinality(lain) <= 1
        BY <3>2, FS_Singleton
      <3> QED  BY <1>1, <3>1, <3>2 DEF ViewInv, BaseSound
    <2>2. ViewTypeOK
      BY <1>1 DEF ViewInv, MoveTyped, BaseSound, ViewTypeOK
    <2> QED  BY <1>1, <2>1, <2>2 DEF ViewInv, Chosen, ViewIsAsChosen, BasemapIsChosen
  <1> QED  BY <1>1, ViewInvInit, ViewInvNext, PTL DEF ViewSpec

(* Browse.tsx, the debounced report: of a view that was moved to and left alone,
   never of one the map only passed. *)
THEOREM ViewReported == ViewSpec => ReportedAtRest
  <1>1. ASSUME ViewInv, [ViewNext]_viewVars
        PROVE  [mini' # mini /\ mini' # 0 => moving = "no"]_viewVars
    <2>1. CASE TimerEnds
      BY <1>1, <2>1 DEF TimerEnds, ViewInv, ReportWaits
    <2>2. CASE ~TimerEnds
      BY <1>1, <2>2 DEF ViewNext, viewVars, moveVars, baseVars, Mount, Load, StyleArrives, StyleFails,
        GrabMap, FlyToSelection, Search, SearchEnds, MoveEnds, MiniMapLoads, Leave, Return,
        ChooseBasemap
    <2> QED  BY <2>1, <2>2
  <1> QED  BY <1>1, ViewInvInit, ViewInvNext, PTL DEF ViewSpec, ReportedAtRest

-----------------------------------------------------------------------------
(* Images (MapImages). *)

(* What the effects want for p: the tile layers, and with ids drawn as tiles,
   the thumbnails. *)
Desired(p)    == SelectedTms(p) \cup AutoTms(p)
Picked(p, ids) == IF Zoom(p) >= FOOTPRINT_MIN_ZOOM THEN ({p.selected} \cap Thumbed) \ ids ELSE {}
Others(p, ids) == IF p.previewsOn THEN (Rendered(p) \cap Thumbed) \ (ids \cup Picked(p, ids)) ELSE {}
Shown(p, ids)  == Picked(p, ids) \cup First(RoomFor(MAX_PREVIEWS, Picked(p, ids)), Others(p, ids))

Pages ==
  [place : Places, tiles : SUBSET Images, filter : FilterSets, drawn : FilterSets,
   selected : Images \cup {NoImage}, previewsOn : BOOLEAN]

LayerKinds == [on : BOOLEAN, bounds : {"none", "tiles", "item"}, minzoom : Nat]

Layerings ==
  [ids : SUBSET Images, tms : [Images -> LayerKinds], preview : SUBSET Images]

(* The layers are those whose ids are kept; what has an item's bounds was drawn for
   the image selected. *)
Laid(l) ==
  /\ l \in Layerings
  /\ \A i \in Images : /\ l.tms[i].on <=> i \in l.ids
                       /\ l.tms[i].bounds = "item" => l.tms[i].minzoom = TMS_SELECTED_MIN_ZOOM
  /\ Cardinality(l.ids) <= MAX_TMS /\ Cardinality(l.preview) <= MAX_PREVIEWS

(* The selected image has the bounds of its item, once they are known and tell
   more than the tiles. *)
Fitted(p, l, b) ==
  \A i \in SelectedTms(p) : b[i] = "known" /\ i \notin Tight => l.tms[i].bounds = "item"

Quiet == rest > 0 \/ ~dirty

(* One idle after the last input the tiles are drawn, and after another one, or
   when nothing changes, the thumbnails. *)
TilesSettled ==
  Quiet => page.drawn = page.filter /\ layers.ids = Desired(page) /\ Fitted(page, layers, bounds)

PreviewsSettled ==
  AtRest => /\ layers.preview \subseteq Shown(page, layers.ids)
            /\ Shown(page, layers.ids) \cap page.tiles \subseteq layers.preview

ImagesInv ==
  /\ page \in Pages /\ Laid(layers)
  /\ bounds \in [Images -> {"none", "fetching", "known", "failed"}]
  /\ rest \in 0..2 /\ dirty \in BOOLEAN
  /\ TilesSettled /\ PreviewsSettled /\ LinkNamesSelection

-----------------------------------------------------------------------------
(* The least of some numbers. *)
LEMMA LeastImage ==
  ASSUME NEW T \in SUBSET Nat, T # {}
  PROVE  \E m \in T : \A j \in T : m <= j
  <1>1. PICK m \in T : \A j \in T : ~(<<j, m>> \in OpToRel(<, Nat))
    BY NatLessThanWellFounded, WFMin
  <1>2. ASSUME NEW j \in T PROVE m <= j
    <2>1. <<j, m>> \in Nat \X Nat /\ ~(<<j, m>> \in OpToRel(<, Nat))
      BY <1>1
    <2>2. ~(j < m)
      BY <2>1 DEF OpToRel
    <2> QED  BY <2>2
  <1> QED  BY <1>2

(* The first n are n at most, and n if there are others. *)
LEMMA FirstOnes ==
  ASSUME NEW S, IsFiniteSet(S), S \subseteq Nat, NEW n \in Nat
  PROVE  /\ First(n, S) \subseteq S /\ IsFiniteSet(First(n, S))
         /\ Cardinality(First(n, S)) <= n
         /\ First(n, S) # S => Cardinality(First(n, S)) = n
  <1> DEFINE F == First(n, S)
             Before(i) == {j \in S : j < i}
             rank == [i \in F |-> Cardinality(Before(i))]
  <1>1. F \subseteq S /\ IsFiniteSet(F)
    BY FS_Subset DEF First
  <1>2. \A i \in S : IsFiniteSet(Before(i)) /\ Cardinality(Before(i)) \in Nat
    BY FS_Subset, FS_CardinalityType
  <1>3. \A i \in F : Cardinality(Before(i)) < n
    BY DEF First
  <1>4. ASSUME NEW i \in F, NEW k \in F, i < k
        PROVE  Cardinality(Before(i)) < Cardinality(Before(k))
    <2>1. i \in S /\ k \in S /\ i \in Nat /\ k \in Nat
      BY <1>1
    <2>2. \A j \in S : j < i => j < k
      BY <1>4, <2>1
    <2>3. Before(i) \subseteq Before(k)
      BY <2>2
    <2>4. i \in Before(k) /\ i \notin Before(i)
      BY <1>4, <2>1
    <2>5. IsFiniteSet(Before(k)) /\ Cardinality(Before(k)) \in Nat /\ Cardinality(Before(i)) \in Nat
      BY <1>2, <2>1
    <2> HIDE DEF Before
    <2>6. Cardinality(Before(i)) <= Cardinality(Before(k))
          /\ (Cardinality(Before(i)) = Cardinality(Before(k)) => Before(i) = Before(k))
      BY <2>3, <2>5, FS_Subset
    <2> QED  BY <2>4, <2>5, <2>6
  <1>5. rank \in Injection(F, 0..(n - 1))
    <2>1. \A i \in F : Cardinality(Before(i)) \in 0..(n - 1) /\ i \in Nat
      <3> SUFFICES ASSUME NEW i \in F PROVE Cardinality(Before(i)) \in 0..(n - 1) /\ i \in Nat
        OBVIOUS
      <3>1. Cardinality(Before(i)) \in Nat /\ Cardinality(Before(i)) < n /\ i \in Nat
        BY <1>1, <1>2, <1>3
      <3> HIDE DEF Before
      <3> QED  BY <3>1
    <2>2. \A i, k \in F : Cardinality(Before(i)) = Cardinality(Before(k)) => i = k
      <3> SUFFICES ASSUME NEW i \in F, NEW k \in F, Cardinality(Before(i)) = Cardinality(Before(k))
                   PROVE  i = k
        OBVIOUS
      <3>1. ~(i < k) /\ ~(k < i)
        <4>1. Cardinality(Before(i)) \in Nat /\ Cardinality(Before(k)) \in Nat
          BY <1>1, <1>2
        <4> HIDE DEF Before
        <4> QED  BY <1>4, <4>1
      <3>2. i \in Nat /\ k \in Nat
        BY <1>1
      <3> QED  BY <3>1, <3>2
    <2> HIDE DEF Before, F
    <2>3. rank \in [F -> 0..(n - 1)]
      BY <2>1
    <2>4. \A i, k \in F : rank[i] = rank[k] => i = k
      BY <2>2
    <2> HIDE DEF rank
    <2> QED  BY <2>3, <2>4 DEF Injection, IsInjective
  <1>6. Cardinality(F) <= n
    <2>1. 0 \in Int /\ n - 1 \in Int
      OBVIOUS
    <2>2. IsFiniteSet(0..(n - 1)) /\ Cardinality(0..(n - 1)) = IF 0 > n - 1 THEN 0 ELSE n - 1 - 0 + 1
      BY <2>1, FS_Interval
    <2>3. Cardinality(F) <= Cardinality(0..(n - 1))
      <3> HIDE DEF rank, F
      <3> QED  BY <1>5, <2>2, FS_Injection
    <2>4. Cardinality(F) \in Nat /\ Cardinality(0..(n - 1)) \in Nat
      BY <1>1, <2>2, FS_CardinalityType
    <2> HIDE DEF F
    <2> QED  BY <2>2, <2>3, <2>4
  <1>7. ASSUME F # S PROVE Cardinality(F) >= n
    <2>1. S \ F # {} /\ S \ F \in SUBSET Nat
      BY <1>1, <1>7
    <2>2. PICK m \in S \ F : \A j \in S \ F : m <= j
      BY <2>1, LeastImage
    <2>3. Before(m) \subseteq F
      <3> SUFFICES ASSUME NEW j \in S, j < m PROVE j \in F
        OBVIOUS
      <3>1. ~(m <= j)
        BY <2>2
      <3> QED  BY <2>2, <3>1
    <2>4. ~(Cardinality(Before(m)) < n)
      BY <2>2 DEF First
    <2>5. Cardinality(Before(m)) <= Cardinality(F) /\ Cardinality(F) \in Nat
      <3> HIDE DEF F, Before
      <3> QED  BY <1>1, <2>3, FS_Subset, FS_CardinalityType
    <2> QED  BY <1>2, <2>2, <2>4, <2>5
  <1>8. Cardinality(F) \in Nat
    BY <1>1, FS_CardinalityType
  <1> QED  BY <1>1, <1>6, <1>7, <1>8

LEMMA NoneOrOne ==
  ASSUME NEW S, NEW x, S = {} \/ S = {x}
  PROVE  IsFiniteSet(S) /\ Cardinality(S) \in 0..1
  <1>1. CASE S = {}
    BY <1>1, FS_EmptySet
  <1>2. CASE S = {x}
    BY <1>2, FS_Singleton
  <1> QED  BY <1>1, <1>2

(* At most one image is selected. *)
LEMMA OneSelected ==
  ASSUME NEW p \in Pages
  PROVE  /\ SelectedTms(p) \subseteq Images /\ SelectedTms(p) \subseteq {p.selected}
         /\ IsFiniteSet(SelectedTms(p)) /\ Cardinality(SelectedTms(p)) \in 0..1
  <1>1. SelectedTms(p) = {} \/ SelectedTms(p) = {p.selected}
    BY DEF SelectedTms
  <1>2. SelectedTms(p) \subseteq Images
    BY DEF SelectedTms, Pages
  <1>3. IsFiniteSet(SelectedTms(p)) /\ Cardinality(SelectedTms(p)) \in 0..1
    BY <1>1, NoneOrOne
  <1> QED  BY <1>1, <1>2, <1>3

LEMMA OnePicked ==
  ASSUME NEW p \in Pages, NEW ids
  PROVE  /\ Picked(p, ids) \subseteq {p.selected} \cap Thumbed
         /\ IsFiniteSet(Picked(p, ids)) /\ Cardinality(Picked(p, ids)) \in 0..1
  <1>1. Picked(p, ids) = {} \/ Picked(p, ids) = {p.selected}
    BY DEF Picked
  <1>2. Picked(p, ids) \subseteq {p.selected} \cap Thumbed
    BY DEF Picked
  <1>3. IsFiniteSet(Picked(p, ids)) /\ Cardinality(Picked(p, ids)) \in 0..1
    BY <1>1, NoneOrOne
  <1> QED  BY <1>2, <1>3

(* Tiles and thumbnails stay within their caps. *)
LEMMA DesiredFit ==
  ASSUME NEW p \in Pages
  PROVE  Desired(p) \subseteq Images /\ Cardinality(Desired(p)) <= MAX_TMS
  <1> DEFINE one == SelectedTms(p)
             room == RoomFor(MAX_TMS, one)
             wanted == {i \in p.tiles \cap Matching[p.filter] :
                          Zoom(p) >= TMS_ALL_MIN_ZOOM \/ i \in Large} \ one
  <1>1. /\ one \subseteq Images /\ IsFiniteSet(one) /\ Cardinality(one) \in 0..1
    BY OneSelected
  <1>2. room \in Nat /\ room = MAX_TMS - Cardinality(one) /\ MAX_TMS \in Nat
    BY <1>1, CapsArePositive DEF RoomFor
  <1>3. wanted \subseteq Images /\ IsFiniteSet(wanted) /\ wanted \subseteq Nat
    BY ImagesAreNumbered, FS_Subset DEF Pages
  <1>4. AutoTms(p) = {} \/ AutoTms(p) = First(room, wanted)
    BY DEF AutoTms
  <1> HIDE DEF one, room, wanted
  <1>5. /\ AutoTms(p) \subseteq Images /\ IsFiniteSet(AutoTms(p))
        /\ Cardinality(AutoTms(p)) \in Nat /\ Cardinality(AutoTms(p)) <= room
    <2>1. CASE AutoTms(p) = {}
      <3>1. IsFiniteSet(AutoTms(p)) /\ Cardinality(AutoTms(p)) = 0
        BY <2>1, FS_EmptySet
      <3> QED  BY <1>2, <2>1, <3>1
    <2>2. CASE AutoTms(p) = First(room, wanted)
      <3>1. /\ First(room, wanted) \subseteq wanted /\ IsFiniteSet(First(room, wanted))
            /\ Cardinality(First(room, wanted)) <= room
        BY <1>2, <1>3, FirstOnes
      <3>2. Cardinality(First(room, wanted)) \in Nat
        BY <3>1, FS_CardinalityType
      <3> QED  BY <1>3, <2>2, <3>1, <3>2
    <2> QED  BY <1>4, <2>1, <2>2
  <1>6. Cardinality(one \cup AutoTms(p)) <= Cardinality(one) + Cardinality(AutoTms(p))
    <2>1. /\ Cardinality(one \cup AutoTms(p))
               = Cardinality(one) + Cardinality(AutoTms(p)) - Cardinality(one \cap AutoTms(p))
      BY <1>1, <1>5, FS_Union
    <2>2. Cardinality(one \cap AutoTms(p)) \in Nat
      BY <1>1, FS_Subset, FS_CardinalityType
    <2> QED  BY <1>1, <1>5, <2>1, <2>2
  <1>7. IsFiniteSet(one \cup AutoTms(p))
    BY <1>1, <1>5, FS_Union
  <1>8. Cardinality(one \cup AutoTms(p)) \in Nat
    BY <1>7, FS_CardinalityType
  <1>9. Cardinality(one \cup AutoTms(p)) <= MAX_TMS
    BY <1>1, <1>2, <1>5, <1>6, <1>8
  <1> QED  BY <1>1, <1>5, <1>9 DEF Desired, one

(* Of the thumbnails that are wanted, none is left out while there is room. *)
LEMMA ShownFit ==
  ASSUME NEW p \in Pages, NEW ids
  PROVE  /\ IsFiniteSet(Shown(p, ids)) /\ Cardinality(Shown(p, ids)) <= MAX_PREVIEWS
         /\ Shown(p, ids) \subseteq (Rendered(p) \cup {p.selected}) \cap Thumbed
         /\ Shown(p, ids) \cap ids = {}
         /\ Cardinality(Shown(p, ids)) < MAX_PREVIEWS /\ p.previewsOn =>
              (Rendered(p) \cap Thumbed) \ ids \subseteq Shown(p, ids)
  <1> DEFINE one == Picked(p, ids)
             others == Others(p, ids)
             room == RoomFor(MAX_PREVIEWS, one)
             F == First(room, others)
  <1>1. /\ one \subseteq {p.selected} \cap Thumbed /\ one \cap ids = {}
        /\ IsFiniteSet(one) /\ Cardinality(one) \in 0..1
    BY OnePicked DEF Picked
  <1>2. room \in Nat /\ room = MAX_PREVIEWS - Cardinality(one) /\ MAX_PREVIEWS \in Nat
    BY <1>1, CapsArePositive DEF RoomFor
  <1>3. /\ others \subseteq Rendered(p) \cap Thumbed /\ others \cap ids = {} /\ others \cap one = {}
        /\ p.previewsOn => others = (Rendered(p) \cap Thumbed) \ (ids \cup one)
    BY DEF Others
  <1>4. Rendered(p) \subseteq Images
    BY DEF Rendered, Pages
  <1>5. IsFiniteSet(others) /\ others \subseteq Nat
    BY <1>3, <1>4, ImagesAreNumbered, FS_Subset
  <1>6. Shown(p, ids) = one \cup F
    BY DEF Shown
  <1> HIDE DEF one, others, room, F
  <1>7. /\ F \subseteq others /\ IsFiniteSet(F) /\ Cardinality(F) <= room
        /\ F # others => Cardinality(F) = room
    BY <1>2, <1>5, FirstOnes DEF F
  <1>8. /\ Cardinality(one \cup F) = Cardinality(one) + Cardinality(F) /\ IsFiniteSet(one \cup F)
        /\ Cardinality(F) \in Nat
    <2>1. one \cap F = {}
      BY <1>3, <1>7
    <2>2. Cardinality(one \cup F) = Cardinality(one) + Cardinality(F) - Cardinality(one \cap F)
          /\ IsFiniteSet(one \cup F)
      BY <1>1, <1>7, FS_Union
    <2>3. Cardinality(one \cap F) = 0
      BY <2>1, FS_EmptySet
    <2>4. Cardinality(F) \in Nat
      BY <1>7, FS_CardinalityType
    <2> QED  BY <1>1, <2>2, <2>3, <2>4
  <1>9. Cardinality(one \cup F) <= MAX_PREVIEWS
    BY <1>1, <1>2, <1>7, <1>8
  <1>10. ASSUME Cardinality(one \cup F) < MAX_PREVIEWS, p.previewsOn
         PROVE  (Rendered(p) \cap Thumbed) \ ids \subseteq one \cup F
    <2>1. Cardinality(F) # room
      BY <1>1, <1>2, <1>8, <1>10
    <2> QED  BY <1>3, <1>7, <1>10, <2>1
  <1> QED  BY <1>1, <1>3, <1>6, <1>7, <1>8, <1>9, <1>10

(* The tiles that are drawn for p. *)
LEMMA TilesDrawn ==
  ASSUME NEW p \in Pages, NEW l, Laid(l), NEW b
  PROVE  LET r == WithTms(p, l, b) IN
         Laid(r) /\ r.ids = Desired(p) /\ r.preview = l.preview /\ Fitted(p, r, b)
  <1> DEFINE r == WithTms(p, l, b)
             drawn == [i \in Images |-> IF i \in Desired(p) THEN TmsLayer(p, l, b, i) ELSE NoLayer]
  <1>1. r = [l EXCEPT !.ids = Desired(p), !.tms = drawn]
    BY DEF WithTms, Desired
  <1>2. ASSUME NEW i \in Images
        PROVE  LET t == TmsLayer(p, l, b, i) IN
               /\ t \in LayerKinds /\ t.on
               /\ t.bounds = "item" => t.minzoom = TMS_SELECTED_MIN_ZOOM
               /\ i \in SelectedTms(p) /\ b[i] = "known" /\ i \notin Tight => t.bounds = "item"
    <2>1. SelectedTms(p) \subseteq {p.selected}
      BY OneSelected
    <2> QED
      BY <1>2, <2>1
        DEF TmsLayer, LayerKinds, Laid, Layerings, BoundsMatch, SourceMinZoom, TMS_SELECTED_MIN_ZOOM,
            TMS_LARGE_MIN_ZOOM
  <1>3. NoLayer \in LayerKinds /\ ~NoLayer.on /\ NoLayer.bounds # "item"
    BY DEF NoLayer, LayerKinds
  <1>4. Desired(p) \subseteq Images /\ Cardinality(Desired(p)) <= MAX_TMS
    BY DesiredFit
  <1>5. SelectedTms(p) \subseteq Desired(p)
    BY DEF Desired
  <1>6. drawn \in [Images -> LayerKinds]
    BY <1>2, <1>3
  <1>7. \A i \in Images : drawn[i] = IF i \in Desired(p) THEN TmsLayer(p, l, b, i) ELSE NoLayer
    OBVIOUS
  <1> HIDE DEF r, drawn
  <1>8. r \in Layerings /\ r.ids = Desired(p) /\ r.tms = drawn /\ r.preview = l.preview
    <2>1. Desired(p) \in SUBSET Images /\ l \in Layerings
      BY <1>4 DEF Laid
    <2> QED  BY <1>1, <1>6, <2>1 DEF Layerings
  <1>9. \A i \in Images : /\ r.tms[i].on <=> i \in Desired(p)
                          /\ r.tms[i].bounds = "item" => r.tms[i].minzoom = TMS_SELECTED_MIN_ZOOM
    BY <1>2, <1>3, <1>7, <1>8
  <1>10. Fitted(p, r, b)
    BY <1>2, <1>4, <1>5, <1>7, <1>8 DEF Fitted
  <1>11. Laid(r)
    BY <1>4, <1>8, <1>9 DEF Laid
  <1> QED  BY <1>8, <1>10, <1>11 DEF r

(* And the thumbnails. *)
LEMMA PreviewsDrawn ==
  ASSUME NEW p \in Pages, NEW l, Laid(l)
  PROVE  LET r == WithPreviews(p, l) IN
         /\ Laid(r) /\ r.ids = l.ids /\ r.tms = l.tms
         /\ r.preview \subseteq Shown(p, l.ids) /\ Shown(p, l.ids) \cap p.tiles \subseteq r.preview
  <1> DEFINE V == Shown(p, l.ids)
             r == WithPreviews(p, l)
             kept == {i \in l.preview \cap V : ~l.tms[i].on}
  <1>1. VisibleIds(p, l) = V
    BY DEF VisibleIds, Shown, Picked, Others
  <1> DEFINE shown == kept \cup (V \cap p.tiles)
  <1>2. r \in Layerings /\ r.ids = l.ids /\ r.tms = l.tms /\ r.preview = shown
    <2>1. r = [l EXCEPT !.preview = shown]
      BY <1>1 DEF WithPreviews
    <2>2. shown \in SUBSET Images
      BY DEF Laid, Layerings, Pages
    <2> HIDE DEF r, shown
    <2> QED  BY <2>1, <2>2 DEF Laid, Layerings
  <1>3. IsFiniteSet(V) /\ Cardinality(V) <= MAX_PREVIEWS
    BY ShownFit
  <1>4. r.preview \subseteq V /\ V \cap p.tiles \subseteq r.preview /\ r.preview \subseteq Images
    BY <1>2 DEF Laid, Layerings, Pages
  <1> HIDE DEF r, V
  <1>5. Cardinality(r.preview) <= MAX_PREVIEWS
    <2>1. Cardinality(r.preview) <= Cardinality(V) /\ IsFiniteSet(r.preview)
      BY <1>3, <1>4, FS_Subset
    <2>2. Cardinality(r.preview) \in Nat /\ Cardinality(V) \in Nat /\ MAX_PREVIEWS \in Nat
      BY <1>3, <2>1, FS_CardinalityType, CapsArePositive
    <2> QED  BY <1>3, <2>1, <2>2
  <1>6. Laid(r)
    BY <1>2, <1>4, <1>5 DEF Laid, Layerings
  <1> QED  BY <1>2, <1>4, <1>6 DEF r, V

-----------------------------------------------------------------------------
LEMMA ImagesInvInit == ImagesInit => ImagesInv
  <1> SUFFICES ASSUME ImagesInit PROVE ImagesInv
    OBVIOUS
  <1>1. page \in Pages /\ page.selected = NoImage
    <2>1. PICK v \in Places, f \in FilterSets :
            page = [place |-> v, tiles |-> {}, filter |-> f, drawn |-> f, selected |-> NoImage,
                    previewsOn |-> TRUE]
      BY DEF ImagesInit
    <2> QED  BY <2>1 DEF Pages
  <1>2. layers.ids = {} /\ layers.preview = {} /\ layers \in Layerings
        /\ \A i \in Images : ~layers.tms[i].on /\ layers.tms[i].bounds = "none"
    BY DEF ImagesInit, Layerings, LayerKinds, NoLayer
  <1>3. Laid(layers)
    <2>1. Cardinality({}) = 0
      BY FS_EmptySet
    <2> QED  BY <1>2, <2>1, CapsArePositive DEF Laid
  <1>4. /\ bounds \in [Images -> {"none", "fetching", "known", "failed"}]
        /\ rest = 0 /\ dirty = TRUE
    BY DEF ImagesInit
  <1> QED
    BY <1>1, <1>3, <1>4
      DEF ImagesInv, TilesSettled, PreviewsSettled, Quiet, AtRest, LinkNamesSelection

(* What a change of the page leaves. *)
LEMMA EffectsLeave ==
  ASSUME ImagesInv, NEW p \in Pages, Effects(p)
  PROVE  /\ page' = p /\ Laid(layers') /\ layers'.ids = Desired(p) /\ Fitted(p, layers', bounds')
         /\ bounds' \in [Images -> {"none", "fetching", "known", "failed"}]
         /\ layers'.preview \subseteq Shown(p, layers.ids)
         /\ Shown(p, layers.ids) \cap p.tiles \subseteq layers'.preview
  <1> DEFINE l == WithPreviews(p, layers)
  <1>1. Laid(layers) /\ bounds \in [Images -> {"none", "fetching", "known", "failed"}]
    BY DEF ImagesInv
  <1>2. page' = p /\ layers' = WithTms(p, l, bounds) /\ bounds' = Asked(p, bounds)
    BY DEF Effects
  <1>3. /\ Laid(l) /\ l.preview \subseteq Shown(p, layers.ids)
        /\ Shown(p, layers.ids) \cap p.tiles \subseteq l.preview
    BY <1>1, PreviewsDrawn
  <1> HIDE DEF l
  <1>4. /\ Laid(layers') /\ layers'.ids = Desired(p) /\ layers'.preview = l.preview
        /\ Fitted(p, layers', bounds)
    BY <1>2, <1>3, TilesDrawn
  <1>5. /\ bounds' \in [Images -> {"none", "fetching", "known", "failed"}]
        /\ \A i \in Images : bounds'[i] = "known" => bounds[i] = "known"
    BY <1>1, <1>2 DEF Asked
  <1>6. Fitted(p, layers', bounds')
    <2>1. SelectedTms(p) \subseteq Images
      BY OneSelected
    <2> QED  BY <1>4, <1>5, <2>1 DEF Fitted
  <1> QED  BY <1>2, <1>3, <1>4, <1>5, <1>6

LEMMA EffectSevenLeaves ==
  ASSUME ImagesInv, NEW p \in Pages, EffectSeven(p)
  PROVE  /\ page' = p /\ Laid(layers')
         /\ bounds' \in [Images -> {"none", "fetching", "known", "failed"}]
  <1>1. Laid(layers) /\ bounds \in [Images -> {"none", "fetching", "known", "failed"}]
    BY DEF ImagesInv
  <1>2. page' = p /\ layers' = WithTms(p, layers, bounds) /\ bounds' = Asked(p, bounds)
    BY DEF EffectSeven
  <1> QED  BY <1>1, <1>2, TilesDrawn DEF Asked

(* After an input nothing is settled, so nothing is claimed. *)
LEMMA InputKeeps ==
  ASSUME Input, page' \in Pages, Laid(layers'), LinkNamesSelection',
         bounds' \in [Images -> {"none", "fetching", "known", "failed"}]
  PROVE  ImagesInv'
  BY DEF Input, ImagesInv, TilesSettled, PreviewsSettled, Quiet, AtRest

(* The invariant is inductive: one step per action. *)
LEMMA ImagesInvNext ==
  ASSUME ImagesInv, [ImagesNext]_imageVars
  PROVE  ImagesInv'
  <1> USE ImagesAreNumbered
  <1>1. /\ page \in Pages /\ Laid(layers) /\ LinkNamesSelection
        /\ bounds \in [Images -> {"none", "fetching", "known", "failed"}]
        /\ rest \in 0..2 /\ dirty \in BOOLEAN
    BY DEF ImagesInv
  <1>2. \A p \in Pages : Rendered(p) \subseteq Images
    BY DEF Rendered, Pages
  <1>3. CASE Idle
    <2> DEFINE now  == [page EXCEPT !.drawn = page.filter]
               back == Linked(Rendered(now))
               p    == IF back = {} THEN now ELSE [now EXCEPT !.selected = CHOOSE i \in back : TRUE]
    <2>1. now \in Pages /\ now.drawn = now.filter /\ now.selected = page.selected
      BY <1>1 DEF Pages
    <2>2. back \subseteq {link} \cap Images
      BY <1>2, <2>1 DEF Linked
    <2>3. /\ Effects(p) /\ dirty /\ link' = link
          /\ dirty' = (back # {} \/ Repainted)
          /\ rest' = IF back # {} THEN 0 ELSE IF rest < 2 THEN rest + 1 ELSE 2
      BY <1>3 DEF Idle
    <2>4. dirty' \in BOOLEAN /\ rest' \in 0..2
      BY <1>1, <2>3
    <2> HIDE DEF now, back
    <2>5. CASE back # {}
      <3>1. PICK i \in back : p = [now EXCEPT !.selected = i]
        BY <2>5
      <3>2. p \in Pages /\ p.selected = link
        BY <2>1, <2>2, <3>1 DEF Pages
      <3> HIDE DEF p
      <3>3. page' = p /\ Laid(layers') /\ bounds' \in [Images -> {"none", "fetching", "known", "failed"}]
        BY <2>3, <3>2, EffectsLeave
      <3> QED
        BY <2>3, <2>5, <3>2, <3>3, InputKeeps DEF Input, LinkNamesSelection
    <2>6. CASE back = {}
      <3>1. p = now
        BY <2>6
      <3> HIDE DEF p
      <3>2. /\ page' = now /\ Laid(layers') /\ layers'.ids = Desired(now)
            /\ Fitted(now, layers', bounds')
            /\ bounds' \in [Images -> {"none", "fetching", "known", "failed"}]
            /\ layers'.preview \subseteq Shown(now, layers.ids)
            /\ Shown(now, layers.ids) \cap now.tiles \subseteq layers'.preview
        BY <2>1, <2>3, <3>1, EffectsLeave
      <3>3. TilesSettled'
        BY <2>1, <3>2 DEF TilesSettled, Quiet
      <3>4. ASSUME AtRest' PROVE layers'.ids = layers.ids
        <4>1. CASE rest' = 2
          <5>1. rest > 0
            BY <1>1, <2>3, <2>6, <4>1
          <5>2. page.drawn = page.filter /\ layers.ids = Desired(page)
            BY <5>1 DEF ImagesInv, TilesSettled, Quiet
          <5>3. now = page
            BY <1>1, <5>2 DEF now, Pages
          <5> QED  BY <3>2, <5>2, <5>3
        <4>2. CASE ~dirty'
          BY <2>3, <4>2 DEF Repainted
        <4> QED  BY <3>4, <4>1, <4>2 DEF AtRest
      <3>5. PreviewsSettled'
        BY <3>2, <3>4 DEF PreviewsSettled
      <3>6. LinkNamesSelection'
        BY <1>1, <2>1, <2>3, <3>2 DEF LinkNamesSelection
      <3> QED  BY <2>1, <2>4, <3>2, <3>3, <3>5, <3>6 DEF ImagesInv
    <2> QED  BY <2>5, <2>6
  <1>4. CASE TogglePreviews
    <2> DEFINE p == [page EXCEPT !.previewsOn = ~page.previewsOn]
    <2>1. p \in Pages /\ p.selected = page.selected
      BY <1>1 DEF Pages
    <2>2. Effects(p) /\ Input /\ link' = link
      BY <1>4 DEF TogglePreviews
    <2> HIDE DEF p
    <2> QED  BY <1>1, <2>1, <2>2, EffectsLeave, InputKeeps DEF LinkNamesSelection
  <1>5. ASSUME NEW i \in Images \cup {NoImage}, Effects([page EXCEPT !.selected = i]), Input,
               i # NoImage => link' = i
        PROVE  ImagesInv'
    <2> DEFINE p == [page EXCEPT !.selected = i]
    <2>1. p \in Pages /\ p.selected = i
      BY <1>1 DEF Pages
    <2> HIDE DEF p
    <2>2. Effects(p)
      BY <1>5 DEF p
    <2> QED  BY <1>5, <2>1, <2>2, EffectsLeave, InputKeeps DEF LinkNamesSelection
  <1>6. CASE Deselect
    BY <1>5, <1>6 DEF Deselect
  <1>7. ASSUME NEW i \in Images, Select(i) PROVE ImagesInv'
    BY <1>5, <1>7 DEF Select
  <1>8. ASSUME NEW q \in Pages, page' = q, q.selected = page.selected, Input,
               UNCHANGED <<layers, bounds, link>>
        PROVE  ImagesInv'
    BY <1>1, <1>8, InputKeeps DEF LinkNamesSelection
  <1>9. ASSUME NEW v \in Places, MoveTo(v) PROVE ImagesInv'
    <2>1. [page EXCEPT !.place = v, !.tiles = @ \cap Near[v]] \in Pages
      BY <1>1 DEF Pages
    <2> QED  BY <1>1, <1>8, <1>9, <2>1 DEF MoveTo, Pages
  <1>10. ASSUME NEW i \in Images, TileArrives(i) PROVE ImagesInv'
    <2>1. [page EXCEPT !.tiles = @ \cup {i}] \in Pages
      BY <1>1 DEF Pages
    <2> QED  BY <1>1, <1>8, <1>10, <2>1 DEF TileArrives, Pages
  <1>11. ASSUME NEW f \in FilterSets, ChangeFilter(f) PROVE ImagesInv'
    <2> DEFINE back == Linked(Rendered(page))
               q == [page EXCEPT !.filter = f]
    <2>1. q \in Pages /\ q.selected = page.selected
      BY <1>1 DEF Pages
    <2>2. back \subseteq {link} \cap Images
      BY <1>1, <1>2 DEF Linked
    <2>3. Input /\ link' = link
      BY <1>11 DEF ChangeFilter
    <2>4. CASE back = {}
      <3>1. EffectSeven(q)
        BY <1>11, <2>4 DEF ChangeFilter
      <3> HIDE DEF q, back
      <3> QED  BY <1>1, <2>1, <2>3, <3>1, EffectSevenLeaves, InputKeeps DEF LinkNamesSelection
    <2>5. CASE back # {}
      <3>1. Effects([q EXCEPT !.selected = CHOOSE i \in back : TRUE])
        BY <1>11, <2>5 DEF ChangeFilter
      <3> HIDE DEF q, back
      <3>2. PICK i \in back : Effects([q EXCEPT !.selected = i])
        BY <2>5, <3>1
      <3> DEFINE p == [q EXCEPT !.selected = i]
      <3>3. p \in Pages /\ p.selected = link
        BY <2>1, <2>2 DEF Pages
      <3> HIDE DEF p
      <3>4. Effects(p)
        BY <3>2 DEF p
      <3> QED  BY <2>3, <3>3, <3>4, EffectsLeave, InputKeeps DEF LinkNamesSelection
    <2> QED  BY <2>4, <2>5
  <1>12. ASSUME NEW i \in Images, BoundsArrive(i) PROVE ImagesInv'
    <2> DEFINE b == [bounds EXCEPT ![i] = "known"]
    <2>1. /\ layers' = WithTms(page, layers, b) /\ bounds' = Asked(page, b)
          /\ dirty' = (dirty \/ Repainted) /\ rest' = 0 /\ UNCHANGED <<page, link>>
      BY <1>12 DEF BoundsArrive
    <2>2. b \in [Images -> {"none", "fetching", "known", "failed"}]
      BY <1>1
    <2> HIDE DEF b
    <2>3. /\ Laid(layers') /\ layers'.ids = Desired(page) /\ Fitted(page, layers', b)
      BY <1>1, <2>1, TilesDrawn
    <2>4. /\ bounds' \in [Images -> {"none", "fetching", "known", "failed"}]
          /\ \A k \in Images : bounds'[k] = "known" => b[k] = "known"
      BY <2>1, <2>2 DEF Asked
    <2>5. Fitted(page, layers', bounds')
      <3>1. SelectedTms(page) \subseteq Images
        BY <1>1, OneSelected
      <3> QED  BY <2>3, <2>4, <3>1 DEF Fitted
    <2>6. Quiet' => ~dirty /\ layers' = layers
      <3>1. Quiet' => ~dirty'
        BY <2>1 DEF Quiet
      <3>2. ~dirty' => ~dirty /\ layers' = layers
        BY <2>1 DEF Repainted
      <3> QED  BY <3>1, <3>2
    <2>7. TilesSettled'
      BY <2>1, <2>3, <2>5, <2>6 DEF ImagesInv, TilesSettled, Quiet
    <2>8. AtRest' => Quiet'
      BY <2>1 DEF AtRest, Quiet
    <2>9. PreviewsSettled'
      BY <2>1, <2>6, <2>8 DEF ImagesInv, PreviewsSettled, AtRest
    <2>10. dirty' \in BOOLEAN
      BY <1>1, <2>1
    <2> QED  BY <1>1, <2>1, <2>3, <2>4, <2>7, <2>9, <2>10 DEF ImagesInv, LinkNamesSelection
  <1>13. ASSUME NEW i \in Images, BoundsFail(i) PROVE ImagesInv'
    <2>1. /\ UNCHANGED <<page, layers, link, dirty, rest>>
          /\ bounds' \in [Images -> {"none", "fetching", "known", "failed"}]
          /\ \A k \in Images : bounds'[k] = "known" => bounds[k] = "known"
      BY <1>1, <1>13 DEF BoundsFail
    <2>2. SelectedTms(page) \subseteq Images
      BY <1>1, OneSelected
    <2>3. TilesSettled'
      BY <2>1, <2>2 DEF ImagesInv, TilesSettled, Quiet, Fitted
    <2>4. PreviewsSettled' /\ LinkNamesSelection'
      BY <1>1, <2>1 DEF ImagesInv, PreviewsSettled, AtRest, LinkNamesSelection
    <2> QED  BY <1>1, <2>1, <2>3, <2>4 DEF ImagesInv
  <1>14. CASE UNCHANGED imageVars
    BY <1>14
      DEF imageVars, ImagesInv, TilesSettled, PreviewsSettled, Quiet, AtRest, LinkNamesSelection, Fitted
  <1> QED
    BY <1>3, <1>4, <1>6, <1>7, <1>9, <1>10, <1>11, <1>12, <1>13, <1>14 DEF ImagesNext

(* A map at rest shows what was chosen. *)
LEMMA SettledShows ==
  ASSUME ImagesInv
  PROVE  DrawnAsChosen
  <1>1. page \in Pages /\ Laid(layers) /\ rest \in 0..2 /\ dirty \in BOOLEAN
    BY DEF ImagesInv
  <1>2. Tiled = layers.ids
    BY <1>1 DEF Tiled, Laid, Layerings
  <1>3. ASSUME AtRest
        PROVE  /\ layers.ids = Desired(page) /\ Fitted(page, layers, bounds) /\ page.drawn = page.filter
               /\ layers.preview \subseteq Shown(page, layers.ids)
               /\ Shown(page, layers.ids) \cap page.tiles \subseteq layers.preview
    BY <1>3 DEF ImagesInv, TilesSettled, PreviewsSettled, Quiet, AtRest
  <1>4. Rendered(page) \subseteq page.tiles /\ Rendered(page) \subseteq Drawn[page.drawn]
    BY DEF Rendered
  <1>5. MapSettles
    <2> SUFFICES ASSUME AtRest PROVE MapSettles
      BY DEF MapSettles
    <2> DEFINE V == Shown(page, layers.ids)
    <2>1. /\ V \subseteq (Rendered(page) \cup {page.selected}) \cap Thumbed /\ V \cap layers.ids = {}
          /\ IsFiniteSet(V) /\ Cardinality(V) <= MAX_PREVIEWS
          /\ Cardinality(V) < MAX_PREVIEWS /\ page.previewsOn =>
               (Rendered(page) \cap Thumbed) \ layers.ids \subseteq V
      BY <1>1, ShownFit
    <2> HIDE DEF V
    <2>2. layers.preview \subseteq V /\ V \cap page.tiles \subseteq layers.preview
      BY <1>3 DEF V
    <2>3. layers.ids \subseteq Matching[page.filter] \cup {page.selected}
      <3>1. AutoTms(page) \subseteq Matching[page.filter]
        BY DEF AutoTms, First
      <3>2. SelectedTms(page) \subseteq {page.selected}
        BY <1>1, OneSelected
      <3> QED  BY <1>3, <3>1, <3>2 DEF Desired
    <2> DEFINE drawn == layers.preview \cup ({page.selected} \cap Thumbed)
    <2>4. ASSUME page.previewsOn, Cardinality(drawn) < MAX_PREVIEWS
          PROVE  Rendered(page) \cap Thumbed \subseteq layers.preview \cup layers.ids
      <3>1. V \subseteq drawn
        BY <1>4, <2>1, <2>2
      <3>2. IsFiniteSet(drawn)
        <4>1. drawn \subseteq V \cup {page.selected}
          BY <2>2
        <4>2. IsFiniteSet(V \cup {page.selected})
          BY <2>1, FS_Singleton, FS_Union
        <4> HIDE DEF drawn
        <4> QED  BY <4>1, <4>2, FS_Subset
      <3> HIDE DEF drawn
      <3>3. Cardinality(V) < MAX_PREVIEWS
        <4>1. Cardinality(V) <= Cardinality(drawn) /\ Cardinality(V) \in Nat /\ Cardinality(drawn) \in Nat
          BY <2>1, <3>1, <3>2, FS_Subset, FS_CardinalityType
        <4> QED  BY <2>4, <4>1, CapsArePositive
      <3>4. (Rendered(page) \cap Thumbed) \ layers.ids \subseteq V
        BY <2>1, <2>4, <3>3
      <3> QED  BY <1>4, <2>2, <3>4
    <2> HIDE DEF drawn
    <2> QED  BY <1>2, <1>3, <1>4, <2>1, <2>2, <2>3, <2>4 DEF MapSettles, drawn
  <1>6. SelectionIsShown
    <2> DEFINE i == page.selected
    <2> SUFFICES ASSUME AtRest, page.selected # NoImage
                 PROVE  IF Zoom(page) >= TMS_SELECTED_MIN_ZOOM
                          THEN /\ i \in Tiled
                               /\ bounds[i] = "known" /\ i \notin Tight => layers.tms[i].minzoom <= Zoom(page)
                          ELSE Zoom(page) >= FOOTPRINT_MIN_ZOOM /\ i \in page.tiles \cap Thumbed
                                 => i \in layers.preview
      BY DEF SelectionIsShown
    <2>1. i \in Images /\ Zoom(page) \in Nat
      BY <1>1, PlacesAreOnMap DEF Pages, Zoom
    <2>2. CASE Zoom(page) >= TMS_SELECTED_MIN_ZOOM
      <3>1. i \in SelectedTms(page)
        BY <2>2 DEF SelectedTms
      <3>2. i \in Tiled
        BY <1>2, <1>3, <3>1 DEF Desired
      <3>3. ASSUME bounds[i] = "known", i \notin Tight PROVE layers.tms[i].minzoom = TMS_SELECTED_MIN_ZOOM
        BY <1>1, <1>3, <2>1, <3>1, <3>3 DEF Fitted, Laid
      <3> QED  BY <2>2, <3>2, <3>3 DEF TMS_SELECTED_MIN_ZOOM
    <2>3. CASE ~(Zoom(page) >= TMS_SELECTED_MIN_ZOOM)
      <3>1. SelectedTms(page) = {} /\ AutoTms(page) = {}
        BY <2>1, <2>3 DEF SelectedTms, AutoTms, TMS_SELECTED_MIN_ZOOM, TMS_LARGE_MIN_ZOOM
      <3>2. layers.ids = {}
        BY <1>3, <3>1 DEF Desired
      <3>3. ASSUME Zoom(page) >= FOOTPRINT_MIN_ZOOM, i \in page.tiles \cap Thumbed
            PROVE  i \in layers.preview
        <4>1. i \in Shown(page, layers.ids)
          BY <3>2, <3>3 DEF Shown, Picked
        <4> QED  BY <1>3, <3>3, <4>1
      <3> QED  BY <2>3, <3>3
    <2> QED  BY <2>2, <2>3
  <1>7. WithinCaps /\ LinkNamesSelection
    BY <1>1, <1>2 DEF WithinCaps, Laid, ImagesInv
  <1> QED  BY <1>5, <1>6, <1>7 DEF DrawnAsChosen

(* Map.tsx and Browse.tsx: however moves, tiles, filters, selections and fetched
   bounds follow each other, the map shows no more than its caps allow, once at
   rest what it should, and the selection in sight and in the link. *)
THEOREM ImagesDrawn == ImagesSpec => []DrawnAsChosen
  BY ImagesInvInit, ImagesInvNext, SettledShows, PTL DEF ImagesSpec
=============================================================================
