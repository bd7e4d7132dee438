----------------------------- MODULE MCPipeline -----------------------------
(* The way of an upload's bytes to the map, for TLC: UploadPage, FetchStep,
   ProcessImage, then Coverage; and Seed, which copies items from elsewhere.  They
   meet in what one leaves to the next, so each is checked by itself, one to a
   behaviour. *)
EXTENDS UploadPage, FetchStep, ProcessImage, Coverage, Seed, TLC

VARIABLE program

(* Versions are only compared, and tabs are alike. *)
Symmetric == Permutations(Versions) \cup Permutations(Tabs)

Pipeline ==
  /\ program \in {"page", "fetch", "process", "coverage", "seed"}
  /\ PageInit /\ Init /\ ProcessInit /\ CoverageInit /\ SeedInit
  /\ program # "fetch" => mode = "url"

PipelineNext ==
  /\ UNCHANGED program
  /\ \/ program = "page" /\ PageNext
        /\ UNCHANGED <<vars, processVars, coverageVars, seedVars>>
     \/ program = "fetch" /\ Next
        /\ UNCHANGED <<pageVars, processVars, coverageVars, seedVars>>
     \/ program = "process" /\ ProcessNext
        /\ UNCHANGED <<pageVars, vars, coverageVars, seedVars>>
     \/ program = "coverage" /\ CoverageNext
        /\ UNCHANGED <<pageVars, vars, processVars, seedVars>>
     \/ program = "seed" /\ SeedNext
        /\ UNCHANGED <<pageVars, vars, processVars, coverageVars>>

PipelineSpec ==
  Pipeline /\ [][PipelineNext]_<<program, pageVars, vars, processVars, coverageVars, seedVars>>

(* Images of every shape, for what convert and metadata tell apart. *)
Image(b, d, f, n, t) ==
  [bands |-> b, dtype |-> d, fourth |-> f, nodata |-> n, declared |-> t, size |-> 4,
   known |-> TRUE, decoded |-> 30, crs |-> TRUE, cells |-> {2, 3}]

Rgb == {Image(3, "uint8", "", n, t) :
          n \in {Nothing, 0, 255}, t \in {"", "visual", "sar", "photo"}}

Rgba == {Image(4, "uint8", f, n, t) :
           f \in {"alpha", "nir", "like"}, n \in {Nothing, 0},
           t \in {"", "visual", "multispectral", "photo"}}

Other == {Image(1, d, f, n, "") : d \in {"uint8", "float"}, f \in {"", "palette"},
                                  n \in {Nothing, 0}}
           \cup {Image(5, "uint16", "", 0, t) : t \in {"", "visual"}}

(* Around every bound of the volume's size. *)
Sized == {[Image(3, "uint8", "", 0, t) EXCEPT !.size = s, !.known = k, !.decoded = d] :
            t \in {"", "elevation", "photo"}, s \in {1, 10, 100}, k \in BOOLEAN,
            d \in {1, 39, 40, 66, 67, 101, 150, 300, 581, 582, 968, 969}}

(* On either side of the antimeridian, across it, torn at it, and away. *)
Placed == {[Image(3, "uint8", "", 0, "") EXCEPT !.cells = c] :
             c \in {{-6}, {5}, {5, 6}, {6, 7}, {-7, -6}, {-7}, {-6, 5}, {-6, -5, 5},
                    {4, 5, -6}, {4, 6}, {5, 7}, {-8, -6}, {-6, 4}, {-1, 0}}}

(* An alpha band under a nodata value is left out: which of them GDAL's mask
   follows is not the code's to say. *)
MCImages ==
  {i \in Rgb \cup Rgba \cup Other : i.fourth = "alpha" => i.nodata = Nothing}
    \cup Sized \cup Placed
    \cup {[Image(3, "uint8", "", Nothing, "") EXCEPT !.crs = FALSE]}

Shot(c, p, l, g, t, x) ==
  [collection |-> c, platform |-> p, license |-> l, gsd |-> g, taken |-> t, cell |-> x]

MCFacts ==
  <<Shot("oam", "drone", "by", 4, 200, 1), Shot("oam", "satellite", "by-nc", 5, 187, 1),
    Shot("other", "", "by-sa", 20, 0, 1), Shot("other", "plane", "by-nc-sa", 101, 141, 2),
    Shot("oam", "uav", "by-sa", 0, 185, 0)>>

(* Every resolution; platforms with licences and dates. *)
MCSelections ==
  {[collection |-> c, platform |-> "", license |-> "", resolution |-> r, date |-> ""] :
      c \in {"", "oam"}, r \in {"", "lt05", "05to2", "2to10", "gt10"}}
    \cup {[collection |-> "", platform |-> p, license |-> l, resolution |-> "", date |-> d] :
      p \in {"", "uav", "aircraft"}, l \in {"", "by", "sa"}, d \in {"", "week"}}
    \cup {[collection |-> "", platform |-> "satellite", license |-> "nc", resolution |-> "",
           date |-> d] : d \in {"month", "year"}}

(* Items with and without a thumbnail; one whose imagery is gone from the
   source, one with a document hosted elsewhere. *)
MCListed  == <<"a", "c", "b", "d">>
MCHas     == "a" :> {"visual", "thumb"} @@ "b" :> {"visual", "thumb"} @@ "c" :> {"visual", "doc"}
               @@ "d" :> {"visual"} @@ "n" :> {"visual", "thumb"}
MCForeign == {<<"c", "doc">>}
MCGone    == {<<"b", "visual">>}
MCSize    == "visual" :> 3 @@ "thumb" :> 1 @@ "doc" :> 1
=============================================================================
