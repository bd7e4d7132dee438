---------------------------- MODULE ProcessImage ----------------------------
(***************************************************************************)
(* One upload after its fetch: the size of its volume (argo.py), then the  *)
(* programs validate, convert, metadata and register, as the workflow runs *)
(* and retries them, and what the browse map makes of the item.            *)
(*                                                                         *)
(* An image is what the programs ask of it.  Its pixels are five kinds: of *)
(* all zeros (black), of all 255 (white), with a zero or a 255 in the      *)
(* first band only (dark, bright), and transparent ones.  Longitude is in  *)
(* twelfths of a turn, -6 and 6 the antimeridian; a footprint is the       *)
(* twelfths it covers.  Sizes are in GiB.                                  *)
(***************************************************************************)
EXTENDS Integers, FiniteSets, FiniteSetsExt

CONSTANTS
  Images,      \* bands, dtype, fourth, nodata, declared, size, known, decoded,
               \* crs, cells
  MaxTries,    \* bound: attempts of a task, the template has 3 and 4
  Multiplier, MinVolume, MaxVolume, MaxUpload,     \* config.py
  Nothing

ASSUME NothingIsNone == Nothing \notin Images /\ Nothing # 1

(* The volumes have room for the largest upload, and a GiB of pixels beside it. *)
ASSUME VolumesHoldUploads ==
  /\ Multiplier \in Nat /\ MinVolume \in Nat /\ MaxVolume \in Nat /\ MaxUpload \in Nat
  /\ Multiplier >= 3 /\ MaxVolume * 95 >= MaxUpload * 100 + 150

ASSUME ImagesAreMeasured ==
  \A i \in Images : i.size \in 1..MaxUpload /\ i.known \in BOOLEAN /\ i.decoded \in Nat
                    /\ i.bands \in Nat

(* No image is more than half a turn wide, as metadata.py takes for granted: longitudes
   that far apart are of a geometry torn at the antimeridian. *)
ASSUME FootprintsAreWhole ==
  \A i \in Images :
    /\ i.cells # {} /\ i.cells \subseteq -12..11
    /\ \/ \A j, k \in i.cells : k - j <= 5
       \/ i.cells \subseteq -6..5 /\ \A j, k \in i.cells : j < 0 /\ k >= 0 => k - j >= 7

VARIABLES
  image,       \* the upload
  task,        \* each task of the workflow
  tries,
  cog,         \* /data/output.tif
  sidecar,     \* /data/output.tif.json
  draft,       \* /data/metadata.json and thumbnail.png
  bucket,      \* the objects of the upload
  registered   \* the item in the catalogue

processVars == <<image, task, tries, cog, sidecar, draft, bucket, registered>>

Tasks == {"validate", "convert", "metadata", "upload-cog", "upload-meta", "register",
          "cleanup"}

ProcessInit ==
  /\ image = Nothing
  /\ task = [t \in Tasks |-> "waiting"] /\ tries = [t \in Tasks |-> 0]
  /\ cog = Nothing /\ sidecar = Nothing /\ draft = Nothing /\ registered = Nothing
  /\ bucket = [o \in {"input", "meta", "cog", "item", "thumbnail"} |-> Nothing]

(* Fetch has left input.tif and meta.json, and archived both. *)
Fetched ==
  /\ image = Nothing
  /\ image' \in Images
  /\ bucket' = [bucket EXCEPT !["input"] = 1, !["meta"] = 1]
  /\ UNCHANGED <<task, tries, cog, sidecar, draft, registered>>
-----------------------------------------------------------------------------
(* The volume, and what may decode into it. *)

Volume(i) ==
  LET wanted == i.size * Multiplier
  IN  IF ~i.known THEN MaxVolume
      ELSE Max({MinVolume, Min({wanted, MaxVolume})})

MaxDecoded(i) ==
  LET free == Volume(i) * 95 - (IF i.known THEN i.size ELSE MaxUpload) * 100
  IN  Max({1, free \div 150})

ProductTypes == {"visual", "multispectral", "sar", "elevation", "pseudocolor"}

(* validate.py asks it before, convert.py after. *)
ConvertsLossy(i) ==
  /\ i.dtype = "uint8" /\ (i.bands = 4 => i.fourth = "alpha")
  /\ i.bands \in {3, 4} /\ i.declared \in {"", "visual"}

Accepts(i) ==
  LET cap == IF ConvertsLossy(i) THEN MaxDecoded(i) * 10 ELSE MaxDecoded(i) * 6
  IN  /\ i.crs
      /\ i.decoded * 6 <= cap
      /\ i.declared = "visual" => i.dtype = "uint8" /\ i.bands \in {3, 4}
-----------------------------------------------------------------------------
(* The conversion. *)

(* Mutant: a fourth band beside RGB is alpha. *)
FourthIsAlpha(i) ==
  i.dtype = "uint8" /\ i.bands \in {3, 4} /\ i.declared \in {"", "visual"}

LossyVisual(i) ==
  /\ i.dtype = "uint8" /\ i.bands \in {3, 4}
  /\ i.bands = 4 => i.fourth = "alpha"
  /\ i.declared # "" => i.declared = "visual"

Pixels(i) == {"black", "white", "dark", "bright"}
               \cup (IF i.bands = 4 /\ i.fourth = "alpha" THEN {"clear"} ELSE {})

(* The pixels with the value in each of the bands read. *)
AllAt(v, allBands) ==
  IF v = 0 THEN {"black", "clear"} \cup (IF allBands THEN {} ELSE {"dark"})
  ELSE IF v = 255 THEN {"white"} \cup (IF allBands THEN {} ELSE {"bright"})
  ELSE {}

(* GDAL's mask of the original (external), over the bands that are shown. *)
Valid(i, shown) ==
  IF i.nodata # Nothing THEN Pixels(i) \ AllAt(i.nodata, shown > 1)
  ELSE Pixels(i) \ {"clear"}

(* The alpha of the VRT: a nodata value counts when all bands have it. *)
MaskSource(i) == Valid(i, 3)

(* Which bands are data is the original's to say. *)
DataBands(i) == IF i.bands = 4 /\ i.fourth = "alpha" THEN 3 ELSE i.bands

Cog(i, by) ==
  IF LossyVisual(i)
  THEN [lossy |-> TRUE, bands |-> 3, dtype |-> i.dtype, nodata |-> Nothing,
        mask |-> TRUE, opaque |-> MaskSource(i), by |-> by]
  ELSE [lossy |-> FALSE, bands |-> i.bands, dtype |-> i.dtype, nodata |-> i.nodata,
        mask |-> i.bands = 4 /\ i.fourth = "alpha" /\ i.nodata = Nothing,
        opaque |-> Valid(i, i.bands), by |-> by]

(* What the verification compares: the mask, or every band. *)
Verifies(i, c) == IF c.lossy THEN c.opaque = Valid(i, 3)
                  ELSE c.bands = i.bands /\ c.nodata = i.nodata
-----------------------------------------------------------------------------
(* The item. *)

(* A fourth band without a tag counts as alpha if it reads like one. *)
Detected(i, c) ==
  IF c.bands = 1
  THEN IF i.fourth = "palette" THEN "pseudocolor"
       ELSE IF c.dtype = "float" THEN "elevation" ELSE "multispectral"
  ELSE IF c.dtype = "uint8" /\ (c.bands = 3 \/ (c.bands = 4 /\ i.fourth \in {"alpha", "like"}))
       THEN "visual" ELSE "multispectral"

ProductType(i, c) == IF i.declared \in ProductTypes THEN i.declared ELSE Detected(i, c)

DisplayBands(type, c) ==
  IF type \in {"elevation", "sar", "pseudocolor"} \/ c.bands < 3 THEN 1 ELSE 3

BrowseNodata(type, c) ==
  IF type = "visual" THEN IF c.mask THEN Nothing ELSE 0 ELSE c.nodata

Turn == 12

(* The west end of the polygon a cell lies in. *)
WestEnd(cells, k) == Min({j \in cells : j <= k /\ j..k \subseteq cells})

(* A torn geometry, or one past the antimeridian, in one run of longitude. *)
Rejoined(cells) == {IF WestEnd(cells, k) < 0 THEN k + Turn ELSE k : k \in cells}

Within(cells) == /\ -6 <= Min(cells) /\ Max(cells) + 1 <= 6
                 /\ Max(cells) + 1 - Min(cells) <= 6

(* The geometry inside the world, cut at the antimeridian, and its box: the
   west side first, which lies east of the other when the box wraps. *)
Wgs84(cells) ==
  LET run    == Rejoined(cells)
      pieces == {k \in run : k < 6} \cup {k - Turn : k \in {k \in run : k >= 6}}
      east   == {k \in pieces : WestEnd(pieces, k) >= 0}
      west   == pieces \ east
  IN  IF Within(cells)
      THEN [cells |-> cells, box |-> <<Min(cells), Max(cells) + 1>>]
      ELSE IF east # {} /\ west # {}
      THEN [cells |-> pieces, box |-> <<Min(east), Max(west) + 1>>]
      ELSE [cells |-> pieces, box |-> <<Min(pieces), Max(pieces) + 1>>]

(* What build_item writes of a COG; `original` needs the file to be there. *)
Item(i, c, by) ==
  LET type == ProductType(i, c)
  IN  [type |-> type, shown |-> DisplayBands(type, c), nodata |-> BrowseNodata(type, c),
       place |-> Wgs84(i.cells), checksum |-> c.by, lineage |-> sidecar, by |-> by]
-----------------------------------------------------------------------------
(* The workflow. *)

(* Mutant: register waits for the item only. *)
AfterItem(t) ==
  CASE t = "validate"    -> {}
    [] t = "convert"     -> {"validate"}
    [] t = "metadata"    -> {"convert"}
    [] t = "upload-cog"  -> {"convert"}
    [] t = "upload-meta" -> {"metadata"}
    [] t = "register"    -> {"upload-meta"}
    [] t = "cleanup"     -> {"validate"}

Depends(t) ==
  CASE t = "validate"    -> {}
    [] t = "convert"     -> {"validate"}
    [] t = "metadata"    -> {"convert"}
    [] t = "upload-cog"  -> {"convert"}
    [] t = "upload-meta" -> {"metadata"}
    [] t = "register"    -> {"upload-cog", "upload-meta"}
    [] t = "cleanup"     -> {"validate"}

Start(t) ==
  /\ image # Nothing /\ task[t] = "waiting"
  /\ \A d \in Depends(t) : task[d] = IF t = "cleanup" THEN "failed" ELSE "ok"
  /\ task' = [task EXCEPT ![t] = "running"] /\ tries' = [tries EXCEPT ![t] = 1]
  /\ UNCHANGED <<image, cog, sidecar, draft, bucket, registered>>

Settles(t, how) == task[t] = "running" /\ task' = [task EXCEPT ![t] = how]

(* A container that fails is started again, validate's and cleanup's not: their
   exit codes are answers. *)
Fail(t) ==
  /\ task[t] = "running"
  /\ IF t \notin {"validate", "cleanup"} /\ tries[t] < MaxTries
     THEN tries' = [tries EXCEPT ![t] = @ + 1] /\ UNCHANGED task
     ELSE Settles(t, "failed") /\ UNCHANGED tries
  /\ UNCHANGED <<image, cog, sidecar, draft, bucket, registered>>

Validate ==
  /\ Settles("validate", IF Accepts(image) THEN "ok" ELSE "failed")
  /\ UNCHANGED <<image, tries, cog, sidecar, draft, bucket, registered>>

Written == cog # Nothing /\ cog.by = tries["convert"]

(* The copy; what an earlier attempt left is written over. *)
WriteCog ==
  /\ task["convert"] = "running"
  /\ ~Written
  /\ cog' = Cog(image, tries["convert"])
  /\ UNCHANGED <<image, task, tries, sidecar, draft, bucket, registered>>

(* The sidecar is written when the verification is through. *)
VerifyCog ==
  /\ Written /\ Verifies(image, cog)
  /\ sidecar' = [lossy |-> cog.lossy, by |-> cog.by]
  /\ Settles("convert", "ok")
  /\ UNCHANGED <<image, tries, cog, draft, bucket, registered>>

BuildItem ==
  /\ Settles("metadata", "ok")
  /\ draft' = Item(image, cog, tries["metadata"])
  /\ UNCHANGED <<image, tries, cog, sidecar, bucket, registered>>

UploadCog ==
  /\ Settles("upload-cog", "ok")
  /\ bucket' = [bucket EXCEPT !["cog"] = cog]
  /\ UNCHANGED <<image, tries, cog, sidecar, draft, registered>>

(* The item, then the thumbnail. *)
UploadItem ==
  /\ task["upload-meta"] = "running" /\ bucket["item"] # draft
  /\ bucket' = [bucket EXCEPT !["item"] = draft]
  /\ UNCHANGED <<image, task, tries, cog, sidecar, draft, registered>>

UploadThumbnail ==
  /\ Settles("upload-meta", "ok") /\ bucket["item"] = draft
  /\ bucket' = [bucket EXCEPT !["thumbnail"] = draft.by]
  /\ UNCHANGED <<image, tries, cog, sidecar, draft, registered>>

(* The answer may be lost: then the task fails, and the item is there. *)
Register ==
  /\ task["register"] = "running"
  /\ registered' = draft
  /\ Settles("register", "ok") \/ UNCHANGED task
  /\ UNCHANGED <<image, tries, cog, sidecar, draft, bucket>>

(* The upload's prefix goes; the task then fails the workflow. *)
Cleanup ==
  /\ Settles("cleanup", "failed")
  /\ bucket' = [o \in DOMAIN bucket |-> Nothing]
  /\ UNCHANGED <<image, tries, cog, sidecar, draft, registered>>

ProcessNext ==
  \/ Fetched \/ Validate \/ WriteCog \/ VerifyCog \/ BuildItem \/ UploadCog
  \/ UploadItem \/ UploadThumbnail \/ Register \/ Cleanup
  \/ \E t \in Tasks : Start(t) \/ Fail(t)

ProcessSpec == ProcessInit /\ [][ProcessNext]_processVars
-----------------------------------------------------------------------------
(* The map. *)

(* The render query the coverage job writes of the item, which the browser
   passes on as it is: it always names bands. *)
RenderQuery(item) == [shown |-> item.shown, nodata |-> item.nodata]

(* The tile server (external): a nodata value of the query replaces the mask. *)
TilePixels(i, item, c) ==
  LET q == RenderQuery(item)
  IN  IF q.nodata = Nothing THEN c.opaque
      ELSE Pixels(i) \ AllAt(q.nodata, q.shown > 1)
-----------------------------------------------------------------------------
(* The conversion of an accepted image fits its volume: the input, the COG and
   the overviews GDAL sets aside are 1.5 times the decoded size when lossless
   and 0.9 times when lossy. *)
FitsWorkspace ==
  task["convert"] # "waiting" =>
    image.size * 100 + image.decoded * (IF LossyVisual(image) THEN 90 ELSE 150)
      <= Volume(image) * 95

(* The verification never refuses a COG the conversion made of a good file. *)
ConversionVerifies == cog # Nothing => Verifies(image, cog)

(* No band of data is lost on the way to the display COG. *)
DataBandsSurvive == cog # Nothing => cog.bands >= DataBands(image)

(* An item in the catalogue describes the very files beside it: the COG whose
   checksum and lineage it gives, its own copy, and the original. *)
RegisteredIsStored ==
  registered # Nothing =>
    /\ bucket["cog"] # Nothing /\ bucket["cog"].by = registered.checksum
    /\ registered.lineage = [lossy |-> bucket["cog"].lossy, by |-> bucket["cog"].by]
    /\ bucket["item"] = registered /\ bucket["thumbnail"] = registered.by
    /\ bucket["input"] # Nothing

(* The map draws the valid pixels of the original, no more and no fewer; only a
   visual image without a mask loses its black, taken for a border. *)
DrawsWhatIsValid ==
  registered # Nothing /\ (registered.type = "visual" => cog.mask)
    => TilePixels(image, registered, cog) = Valid(image, registered.shown)

(* Read as RFC 7946 reads it, the box of an item holds its footprint, spans no
   more than half the globe, and the footprint is where the image is. *)
BoxHoldsFootprint ==
  draft # Nothing =>
    LET p    == draft.place
        w    == p.box[1]
        e    == IF w < p.box[2] THEN p.box[2] ELSE p.box[2] + Turn
        held == {k % Turn : k \in w..(e - 1)}
    IN  /\ p.cells \subseteq -6..5 /\ e - w <= 6
        /\ {k % Turn : k \in p.cells} = {k % Turn : k \in image.cells}
        /\ {k % Turn : k \in p.cells} \subseteq held

(* A file that was accepted is converted: within its volume, to a COG that passes
   the verification, with every band of data. *)
ConversionHolds == FitsWorkspace /\ ConversionVerifies /\ DataBandsSurvive

(* An item is true of its files and of where they are, and makes the map draw
   what they hold. *)
ItemDescribesFiles == RegisteredIsStored /\ DrawsWhatIsValid /\ BoxHoldsFootprint
=============================================================================
