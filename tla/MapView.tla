------------------------------ MODULE MapView ------------------------------
(***************************************************************************)
(* Where the browse map is and what lies under its data: moves, the view   *)
(* in the address bar, the debounced report that places the mini-map,      *)
(* the place search and the basemap switcher (Map.tsx, Browse.tsx,         *)
(* Toolbar.tsx, MiniMap.tsx, basemaps.ts).                                 *)
(*                                                                         *)
(* Views are numbered as the map passes through them.                      *)
(***************************************************************************)
EXTENDS Naturals, FiniteSets

CONSTANTS
  MaxViews,     \* bound: views passed through
  MaxFetches,   \* bound: fetches of the style
  MaxSwitches   \* bound: basemaps chosen

ASSUME ViewsPositive == MaxViews \in Nat \ {0}

VARIABLES
  mounted,      \* "off", "loading", "on", or "gone" with the page left
  here,         \* the view the map has
  moving,       \* "no", "hand" or "flight"
  programmatic, \* isProgrammaticMove
  timer,        \* debounceTimer is set
  inBar,        \* the view in the address bar
  mini,         \* the view of the mini-map's box, 0 for none
  boxed,        \* the mini-map's style has loaded
  search,       \* the place search: "no", "asked" or "found"
  basemap,      \* the one chosen
  lain,         \* those whose layers are on the map
  style,        \* styleCache: "none", "pending" or "ready"
  waiting,      \* for the style: which effects, "live" or "cancelled"
  failed,       \* the last basemap asked for could not be had
  fetches, switches

viewVars == <<mounted, here, moving, programmatic, timer, inBar, mini, boxed, search,
              basemap, lain, style, waiting, failed, fetches, switches>>

moveVars == <<here, moving, programmatic, timer, inBar, mini, boxed, search>>
baseVars == <<basemap, lain, style, waiting, failed, fetches, switches>>

Basemaps == {"light", "hot"}

ViewTypeOK ==
  /\ mounted \in {"off", "loading", "on", "gone"} /\ here \in 1..MaxViews
  /\ moving \in {"no", "hand", "flight"} /\ inBar \in 0..here /\ mini \in 0..here
  /\ lain \subseteq Basemaps /\ waiting \subseteq {"live", "cancelled"}

ViewInit ==
  /\ mounted = "off" /\ here = 1 /\ moving = "no" /\ programmatic = FALSE /\ timer = FALSE
  /\ inBar = 0 /\ mini = 0 /\ boxed = FALSE /\ search = "no"
  /\ basemap = "light" /\ lain = {} /\ style = "none" /\ waiting = {} /\ failed = FALSE
  /\ fetches = 0 /\ switches = 0
-----------------------------------------------------------------------------
(* Effect 3, the basemap switcher. *)

(* Mutant: an effect that was cancelled applies what it waited for. *)
LaidByAny == waiting # {}

LaidByLive == "live" \in waiting

(* What the last one laid is taken up first. *)
Lay(b) == lain' = {b}

(* The effect for basemap b, in place of the one before it: the raster map, and
   a style that is there, are applied before anything else happens. *)
Switch(b) ==
  LET old == IF waiting = {} THEN {} ELSE {"cancelled"} IN
  /\ basemap' = b
  /\ \/ /\ b = "hot" \/ style = "ready"
        /\ Lay(b) /\ waiting' = old /\ failed' = FALSE /\ UNCHANGED <<style, fetches>>
     \/ /\ b = "light" /\ style # "ready"
        /\ waiting' = old \cup {"live"} /\ failed' = FALSE /\ UNCHANGED lain
        /\ IF style = "pending" THEN UNCHANGED <<style, fetches>>
           ELSE fetches < MaxFetches /\ fetches' = fetches + 1 /\ style' = "pending"

Mount ==
  /\ mounted = "off" /\ mounted' = "loading"
  /\ UNCHANGED <<moveVars, baseVars>>

ChooseBasemap(b) ==
  /\ mounted \in {"loading", "on"} /\ b # basemap /\ switches < MaxSwitches /\ switches' = switches + 1
  /\ IF mounted = "on" THEN Switch(b) ELSE basemap' = b /\ UNCHANGED <<lain, style, waiting, failed, fetches>>
  /\ UNCHANGED <<mounted, moveVars>>

StyleArrives ==
  /\ style = "pending" /\ style' = "ready" /\ waiting' = {}
  /\ IF LaidByLive /\ mounted = "on" THEN Lay("light") ELSE UNCHANGED lain
  /\ UNCHANGED <<mounted, moveVars, basemap, failed, fetches, switches>>

(* Every waiter hears of it; the cache lets go of it, and nobody asks again. *)
StyleFails ==
  /\ style = "pending" /\ style' = "none" /\ waiting' = {}
  /\ failed' = (failed \/ "live" \in waiting)
  /\ UNCHANGED <<mounted, moveVars, basemap, lain, fetches, switches>>
-----------------------------------------------------------------------------
(* Moves. *)

(* Mutant: a timer that is set goes on through the next move. *)
TimerKept == timer

TimerOnMove == FALSE

(* movestart. *)
GrabMap ==
  /\ mounted = "on" /\ moving # "hand" /\ here < MaxViews
  /\ moving' = "hand" /\ here' = here + 1 /\ timer' = TimerOnMove
  /\ IF moving = "flight" THEN inBar' = here /\ programmatic' = FALSE
     ELSE UNCHANGED <<inBar, programmatic>>
  /\ UNCHANGED <<mounted, mini, boxed, search, baseVars>>

(* fitBounds, of a search result or a selection: it ends a move under way, whose
   moveend takes the flag it has just set. *)
FlyFrom(bar) ==
  /\ here < MaxViews /\ here' = here + 1 /\ moving' = "flight"
  /\ programmatic' = (moving = "no") /\ inBar' = bar
  /\ timer' = TimerOnMove

Fly == FlyFrom(IF moving = "no" THEN inBar ELSE here)

(* The load event: isLoaded, and with it every effect for the first time. *)
Load ==
  /\ mounted = "loading" /\ mounted' = "on" /\ Switch(basemap)
  /\ IF search = "found" THEN FlyFrom(here) /\ search' = "no"
     ELSE inBar' = here /\ UNCHANGED <<here, moving, programmatic, timer, search>>
  /\ UNCHANGED <<mini, boxed, switches>>

(* An image is selected: it is flown to.  One that does not fit is not, and the
   flag stays. *)
FlyToSelection ==
  /\ mounted = "on"
  /\ \/ Fly
     \/ programmatic' = TRUE /\ UNCHANGED <<here, moving, inBar, timer>>
  /\ UNCHANGED <<mounted, mini, boxed, search, baseVars>>

Search ==
  /\ mounted \in {"loading", "on"} /\ search = "no" /\ search' = "asked"
  /\ UNCHANGED <<mounted, here, moving, programmatic, timer, inBar, mini, boxed, baseVars>>

(* handleSearch: not found, or flown to, now or as soon as the map is there. *)
SearchEnds ==
  /\ search = "asked"
  /\ \/ search' = "no" /\ UNCHANGED <<here, moving, programmatic, timer, inBar>>
     \/ mounted = "loading" /\ search' = "found" /\ UNCHANGED <<here, moving, programmatic, timer, inBar>>
     \/ mounted = "on" /\ search' = "no" /\ Fly
  /\ UNCHANGED <<mounted, mini, boxed, baseVars>>

WrittenView == here

(* moveend: the report waits, unless the move was the page's own. *)
MoveEnds ==
  /\ mounted = "on" /\ moving # "no" /\ moving' = "no" /\ inBar' = WrittenView
  /\ programmatic' = FALSE /\ timer' = ~programmatic
  /\ UNCHANGED <<mounted, here, mini, boxed, search, baseVars>>

(* onSearchArea; the box is drawn at once, or when the mini-map has loaded. *)
TimerEnds ==
  /\ mounted = "on" /\ timer /\ timer' = FALSE /\ mini' = here
  /\ UNCHANGED <<mounted, here, moving, programmatic, inBar, boxed, search, baseVars>>

MiniMapLoads ==
  /\ mounted \in {"loading", "on"} /\ ~boxed /\ boxed' = TRUE
  /\ UNCHANGED <<mounted, here, moving, programmatic, timer, inBar, mini, search, baseVars>>

(* The clean-ups: the page is left. *)
Leave ==
  /\ mounted \in {"loading", "on"} /\ mounted' = "gone"
  /\ moving' = "no" /\ timer' = FALSE /\ lain' = {} /\ search' = IF search = "found" THEN "no" ELSE search
  /\ waiting' = IF waiting = {} THEN {} ELSE {"cancelled"}
  /\ UNCHANGED <<here, programmatic, inBar, mini, boxed, basemap, style, failed, fetches, switches>>

(* And opened again: the style is still in the cache. *)
Return ==
  /\ mounted = "gone" /\ mounted' = "loading" /\ basemap' = "light" /\ failed' = FALSE
  /\ inBar' = 0 /\ mini' = 0 /\ boxed' = FALSE /\ programmatic' = FALSE
  /\ UNCHANGED <<here, moving, timer, search, lain, style, waiting, fetches, switches>>

ViewNext ==
  \/ Mount \/ Load \/ StyleArrives \/ StyleFails \/ GrabMap \/ FlyToSelection \/ Search \/ SearchEnds
  \/ MoveEnds \/ TimerEnds \/ MiniMapLoads \/ Leave \/ Return
  \/ \E b \in Basemaps : ChooseBasemap(b)

ViewSpec == ViewInit /\ [][ViewNext]_viewVars
-----------------------------------------------------------------------------
(* However switches and fetches of the style overtake each other: once nothing
   is waited for, the basemap under the data is the one chosen last, and only
   that; if it could not be had, the one before it stays. *)
BasemapIsChosen ==
  mounted = "on" /\ "live" \notin waiting =>
    lain = {basemap} \/ (failed /\ Cardinality(lain) <= 1)

(* The mini-map's box is never put where the map is only passing through: the
   report is of a view that was moved to and left alone. *)
ReportedAtRest == [][mini' # mini /\ mini' # 0 => moving = "no"]_viewVars

(* A map at rest has its view in the address bar, whichever move ended last,
   and whichever was cut short. *)
LinkNamesView == mounted = "on" /\ moving = "no" => inBar = here

(* The map looks as it was last asked to, and says so in its link. *)
ViewIsAsChosen == ViewTypeOK /\ BasemapIsChosen /\ LinkNamesView
=============================================================================
