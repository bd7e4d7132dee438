----------------------------- MODULE MCPrograms -----------------------------
(* Seven programs for TLC: admission; the reconciler and the tilepack worker, which
   must end what they were given; the three that carry what somebody else states,
   a link, a description, a harvest; and the mosaic.  They share nothing: each is
   checked by itself, one to a behaviour, and what has not been started owes no
   step. *)
EXTENDS Admission, Sweep, TileWorker, SourceLink, CatalogueItem, Elevation, Mosaic

VARIABLE program

First == CHOOSE p \in Callers : TRUE

(* Uploads under their owners' names: the pool has a run of its own. *)
Named == \A c \in Calls : call[c].owner = call[c].caller

(* One of each arrangement that differs in more than the names of calls, which
   the cfg numbers, and of callers. *)
Arranged ==
  /\ \A c, d \in Calls : c < d =>
       /\ call[d].caller = First => call[c].caller = First
       /\ call[c].caller = call[d].caller /\ call[c].key = NoKey => call[d].key = NoKey
  /\ 2 * Cardinality({c \in Calls : call[c].caller = First}) > Cardinality(Calls)

Unasked == \A c \in Calls : call[c].caller = First /\ call[c].key = NoKey

Programs ==
  /\ program \in {"admission", "sweep", "worker", "link", "item", "elevation", "mosaic"}
  /\ Init /\ Named /\ Arranged /\ (program # "admission" => Unasked)
  /\ SweepInit /\ WorkerInit /\ LinkInit /\ ItemInit /\ ElevationInit /\ MosaicInit

ProgramsNext ==
  /\ UNCHANGED program
  /\ \/ program = "admission" /\ Next
        /\ UNCHANGED <<sweepVars, workerVars, linkVars, itemVars, elevationVars, mosaicVars>>
     \/ program = "sweep" /\ SweepNext
        /\ UNCHANGED <<vars, workerVars, linkVars, itemVars, elevationVars, mosaicVars>>
     \/ program = "worker" /\ WorkerNext
        /\ UNCHANGED <<vars, sweepVars, linkVars, itemVars, elevationVars, mosaicVars>>
     \/ program = "link" /\ LinkNext
        /\ UNCHANGED <<vars, sweepVars, workerVars, itemVars, elevationVars, mosaicVars>>
     \/ program = "item" /\ ItemNext
        /\ UNCHANGED <<vars, sweepVars, workerVars, linkVars, elevationVars, mosaicVars>>
     \/ program = "elevation" /\ ElevationNext
        /\ UNCHANGED <<vars, sweepVars, workerVars, linkVars, itemVars, mosaicVars>>
     \/ program = "mosaic" /\ MosaicNext
        /\ UNCHANGED <<vars, sweepVars, workerVars, linkVars, itemVars, elevationVars>>

ProgramsSpec ==
  /\ Programs
  /\ [][ProgramsNext]_<<program, vars, sweepVars, workerVars, linkVars, itemVars,
                       elevationVars, mosaicVars>>
  /\ Fairness /\ SweepFairness /\ WorkerFairness
-----------------------------------------------------------------------------
(* Pictures wider and narrower than the grid, on it and off it, with valid
   pixels in some columns. *)
MCScenes ==
  {[width |-> w, off |-> o, valid |-> v] :
     w \in {3, 5}, o \in {0, 1}, v \in {{0}, {0, 2}}}
    \cup {[width |-> w, off |-> o, valid |-> {w - 1}] : w \in {4, 5, 6, 7}, o \in {0, 1}}

(* Links of every host and form there is a rule for, and some with a scheme or
   credentials that are refused. *)
Link(h, f, s, c, g) ==
  [host |-> h, form |-> f, scheme |-> s, creds |-> c, frag |-> g, direct |-> FALSE]

MCLinks ==
  {Link(h, f, "https", FALSE, g) :
     h \in {"drive", "dropbox", "onedrive", "sharepoint"}, f \in {"file", "folder", "noid"},
     g \in BOOLEAN}
  \cup {Link("site", f, "https", FALSE, TRUE) :
     f \in {"webortho", "webzip", "webother", "nodeortho", "nodezip", "nodeother", "oddzip"}}
  \cup {Link("site", "file", s, c, FALSE) : s \in {"https", "http", "ftp"}, c \in BOOLEAN}

MCTargets ==
  {Link("site", "file", "http", FALSE, FALSE), Link("site", "file", "https", TRUE, FALSE),
   Link("dropbox", "file", "https", FALSE, TRUE)}

Answer(h, s, m, u) == [head |-> h, size |-> s, member |-> m, unpacked |-> u]

MCBodies ==
  {Answer(h, s, None, "fits") : h \in {"tiff", "page", "empty"}, s \in {"fits", "over"}}
  \cup {Answer("zip", s, m, u) :
     s \in {"fits", "over"}, m \in {"tiff", None, "other", "damaged"}, u \in {"fits", "over"}}

(* Dates with and without an offset, one of them across the order of its hour
   and its time. *)
Date(a, o, z) == [is |-> IF z THEN "zoned" ELSE "naive", at |-> a, off |-> o]
BadDate       == [is |-> "bad", at |-> 0, off |-> 0]

MCDates ==
  {Date(1, 0, TRUE), Date(2, 0, TRUE), Date(2, 1, TRUE), Date(1, 0, FALSE), Date(2, 0, FALSE)}

MCContacts ==
  {{}, {{"name"}}, {{"mail"}}, {{"name"}, {"mail"}}, {{"name", "mail"}}}

Legacy(s, e, u, c, p, l, n, g) ==
  [road |-> "legacy", start |-> s, end |-> e, user |-> u, contact |-> c, platform |-> p,
   licence |-> l, sensor |-> n, image |-> g]

MCLegacies ==
  {Legacy(s, e, u, c, "UAV", "by spaced", "unknown", TRUE) :
     s \in MCDates, e \in MCDates \cup {NoDate}, u \in {None, "bare", "named"}, c \in MCContacts}
  \cup {Legacy(Date(1, 0, TRUE), Date(2, 0, TRUE), None, {}, p, l, None, g) :
     p \in {None, "uav"}, l \in {None, "sa", "other"}, g \in BOOLEAN}

MCOffers ==
  {[road |-> "provider", catalog |-> k, parent |-> TRUE, gsd |-> g, panGsd |-> pg, licence |-> l,
    rootLicence |-> rl, sensor |-> s, instrument |-> None, platform |-> p, vehicle |-> v,
    constellation |-> c, exts |-> [e \in Extensions |-> IF e \in x THEN 1 ELSE 0], size |-> z] :
     k \in {"maxar", "vantor"}, g \in {None, "gsd"}, pg \in {None, "pan"}, l \in {None, "by"},
     rl \in {None, "sa"}, s \in {None, "sensor"}, p \in {None, "craft"}, v \in {None, "vehicle"},
     c \in {None, "fleet"}, x \in {{"proj"}, {"oam", "alternate"}, {"oam-old", "proj"}},
     z \in {None, "stated"}}

Form(s, e, c, a, b) ==
  [road |-> "form", start |-> s, end |-> e, contact |-> c, anonymous |-> a, licence |-> "by",
   platform |-> None, sensor |-> None, backlink |-> b, tags |-> NoDate, camera |-> "camera"]

MCForms ==
  {Form(s, e, {}, a, None) :
     s \in MCDates \cup {NoDate}, e \in MCDates \cup {NoDate, BadDate}, a \in BOOLEAN}
  \cup {Form(Date(1, 0, TRUE), NoDate, c, a, b) :
     c \in MCContacts, a \in BOOLEAN, b \in {None, "http", "script"}}

(* One person's sessions: full, without a name, with an address for a name, and
   with the id alone; another's; and one that carries the shared account's id. *)
Session(w, u, n, m) == [way |-> w, username |-> u, name |-> n, mail |-> m]

MCSessions ==
  {Session("other", "nick", "name", "mail"), Session("number", None, None, "mail"),
   Session("own", None, "mail", None), Session("bare", None, None, None),
   Session("custom", "admin", None, None), Session("anonymous", "nick", None, None)}

MCImports ==
  {[road |-> "import", start |-> s, end |-> e, contact |-> {{"name", "mail"}}, licence |-> None,
    platform |-> None, sensor |-> None, backlink |-> None, uploader |-> None, tags |-> t,
    camera |-> None] :
     s \in MCDates \cup {NoDate, BadDate}, e \in MCDates \cup {NoDate},
     t \in {NoDate, Date(1, 0, FALSE)}}

(* Three images over tiles of a zoom that is masked and two that are drawn, one
   of them only beside a tile, and an item without an image. *)
MCHrefOf == <<"first", "second", "third", "none">>

Cell(z, o, b) == [zoom |-> z, over |-> o, beside |-> b]

MCPyramid ==
  <<Cell(10, {1, 2, 3}, {}), Cell(11, {1, 2}, {3}), Cell(11, {1, 2, 3}, {}), Cell(12, {3}, {1})>>
=============================================================================
