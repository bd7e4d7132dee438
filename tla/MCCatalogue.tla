---------------------------- MODULE MCCatalogue ----------------------------
(* Who writes items beside the pipeline, and who shows them, for TLC: Tilepack and
   CatalogueSync, MapImages and MapView.  They meet in nothing but items already
   written, so each is checked by itself, one to a behaviour; CatalogueSync as
   one Job and as Jobs beside one another, MapImages from afar and in the street. *)
EXTENDS Tilepack, CatalogueSync, MapImages, MapView, TLC

VARIABLE program

Symmetric == Permutations(Clients)

catalogueVars == <<vars, syncVars, imageVars, viewVars>>

Catalogue ==
  /\ program \in {"tilepack", "sync", "beside", "images", "street", "view"}
  /\ Init /\ SyncInit /\ ImagesInit /\ ViewInit
  /\ program # "tilepack" => \A c \in Clients : req[c].v = "pmtiles"
  /\ program \notin {"sync", "beside"} => source = "walk"
  /\ program = "beside" => source = "oam"
  /\ page.place = "far" /\ page.filter = "all"
  /\ program \notin {"images", "street"} => link = NoImage

(* Bound: where two variants are asked for, one thing goes wrong. *)
FewerFaults == (\E c \in Clients : req[c].v = "custom") => faults' <= 1

(* Bound: one Job, that runs again and again. *)
OneJob == \A j \in Runs \ {CHOOSE k \in Runs : TRUE} : sync'[j].pc = "idle"

(* Bound: where runs meet, the source stands still, and none is strict. *)
StandsStill == changes' = 0 /\ \A j \in Runs : ~sync'[j].strict

(* Bound: the raster's bounds may fail to come for one image. *)
OneFails == \A i \in Images : bounds'[i] = "failed" => i = 2

CatalogueNext ==
  /\ UNCHANGED program
  /\ \/ program = "tilepack" /\ Next /\ FewerFaults
        /\ UNCHANGED <<syncVars, imageVars, viewVars>>
     \/ program = "sync" /\ SyncNext /\ OneJob
        /\ UNCHANGED <<vars, imageVars, viewVars>>
     \/ program = "beside" /\ SyncNext /\ StandsStill
        /\ UNCHANGED <<vars, imageVars, viewVars>>
     \/ program = "images" /\ ImagesNext /\ OneFails /\ page'.place # "street"
        /\ UNCHANGED <<vars, syncVars, viewVars>>
     \/ program = "street" /\ ImagesNext /\ OneFails /\ page'.place \notin {"mid", "low"}
        /\ UNCHANGED <<vars, syncVars, viewVars>>
     \/ program = "view" /\ ViewNext /\ UNCHANGED <<vars, syncVars, imageVars>>

CatalogueSpec == Catalogue /\ [][CatalogueNext]_<<program, catalogueVars>>

(* Two entries of the provider become one item. *)
MCTarget == [e1 |-> "i1", e2 |-> "i2", e3 |-> "i3", e4 |-> "i4", e5 |-> "i5",
             p1 |-> "q1", p2 |-> "q1", p3 |-> "q2", p4 |-> "q3"]
MCAtFirst == <<"e1", "e3", "e2">>
MCEvents == <<[old |-> FALSE, of |-> {"p1", "p3"}], [old |-> TRUE, of |-> {"p2", "p3"}],
              [old |-> FALSE, of |-> {"p2", "p4"}]>>

(* A place on each side of every zoom at which a layer begins.  The street, where
   images of any size are drawn as tiles, is entered in behaviours of its own. *)
MCPlaces   == {"far", "mid", "low", "high", "street"}
MCZoomAt   == "far" :> 7 @@ "mid" :> 9 @@ "low" :> 11 @@ "high" :> 13 @@ "street" :> 16
MCNear     == "far" :> {1} @@ "mid" :> {1} @@ "low" :> {1, 2} @@ "high" :> {1, 3}
              @@ "street" :> {1, 3}
MCDrawn    == "all" :> {1, 2, 3} @@ "week" :> {2}
MCMatching == "all" :> {1, 2, 3} @@ "week" :> {2, 3}
=============================================================================
