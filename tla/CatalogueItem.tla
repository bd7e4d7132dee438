--------------------------- MODULE CatalogueItem ---------------------------
(***************************************************************************)
(* What the catalogue says of an image: the way from what its source       *)
(* states to a STAC Item, on each of the four roads there are.             *)
(*                                                                         *)
(*   legacy    an entry of the old API: parsed, sanitised, created         *)
(*   provider  an open data provider's own Item, rewritten                 *)
(*   form      an upload: checked by the API, read back by the pipeline,   *)
(*             built by the metadata step, checked again and registered    *)
(*   import    metadata handed to the pipeline past the API                *)
(*                                                                         *)
(* Each behaviour follows one image, whose steps may be taken again: a     *)
(* provider's Item is rebuilt, a pipeline step is retried.  Whoever        *)
(* uploads it signs in more than once, with sessions that carry more or    *)
(* less about them.                                                        *)
(***************************************************************************)
EXTENDS Integers, Sequences, FiniteSets, SequencesExt

CONSTANTS
  Legacies,  \* what an entry of the old API may state
  Offers,    \* what a provider's Item may state
  Forms,     \* what the form of an upload may hold
  Imports,   \* metadata handed to the pipeline
  Sessions,  \* what a session may carry
  MaxSignIns, \* bound: sessions
  MaxClock   \* bound: the last ingest time

CC        == {"by", "sa", "nc"}   \* the licences the extension allows
Platforms == {"uav", "satellite"}
None      == "none"

(* The schemas an Item may declare: "proj" is any of no concern here. *)
Extensions == {"oam", "oam-old", "alternate", "render", "eo", "file", "proj"}

Dates    == [is : {None, "naive", "zoned", "bad"}, at : Int, off : Int]
Contacts == SUBSET (SUBSET {"name", "mail"})

ASSUME EntriesState ==
  Legacies \subseteq
    [road : {"legacy"}, start : Dates, end : Dates, user : {None, "bare", "named"},
     contact : Contacts, platform : STRING, licence : STRING, sensor : STRING, image : BOOLEAN]
ASSUME ProvidersState ==
  Offers \subseteq
    [road : {"provider"}, catalog : {"maxar", "vantor"}, parent : BOOLEAN, gsd : STRING,
     panGsd : STRING, licence : STRING, rootLicence : STRING, sensor : STRING,
     instrument : STRING, platform : STRING, vehicle : STRING, constellation : STRING,
     exts : [Extensions -> Nat], size : STRING]
ASSUME FormsState ==
  Forms \subseteq
    [road : {"form"}, start : Dates, end : Dates, contact : Contacts, anonymous : BOOLEAN,
     licence : STRING, platform : STRING, sensor : STRING, backlink : STRING, tags : Dates,
     camera : STRING]
ASSUME ImportsState ==
  Imports \subseteq
    [road : {"import"}, start : Dates, end : Dates, contact : Contacts, licence : STRING,
     platform : STRING, sensor : STRING, backlink : STRING, uploader : STRING, tags : Dates,
     camera : STRING]

VARIABLES
  stated,  \* what the source states, and its road
  meta,    \* dataset_meta of the upload, or the metadata handed over
  built,   \* metadata.json on the workspace
  item,    \* the Item in the catalogue
  accounts,  \* the table users
  told,      \* history: the sessions that were mirrored
  clock

userVars == <<accounts, told>>
itemVars == <<stated, meta, built, item, userVars, clock>>

Nothing == [road |-> None]
NoItem  == [window |-> <<>>]

ItemInit ==
  /\ stated = Nothing /\ meta = Nothing /\ built = NoItem /\ item = NoItem
  /\ accounts = {} /\ told = {} /\ clock = 10

(* A source has an image. *)
Describe ==
  /\ stated = Nothing
  /\ stated' \in Legacies \cup Offers \cup Forms \cup Imports
  /\ UNCHANGED <<meta, built, item, userVars, clock>>
-----------------------------------------------------------------------------
(* Dates: a time, and the offset it is written with if any. *)
NoDate     == [is |-> None, at |-> 0, off |-> 0]
Usable(d)  == d.is \in {"naive", "zoned"}
Naive(d)   == d.is = "naive"
AsUtc(d)   == IF Naive(d) THEN d.at ELSE d.at - d.off
Zoned(d)   == [is |-> "zoned", at |-> AsUtc(d), off |-> 0]
UtcAt(t)   == [is |-> "zoned", at |-> t, off |-> 0]

(* A contact is of parts, each a name, an address or both run together. *)
NameParts(c) == {p \in c : "mail" \notin p}

(* What OamMetadata carries of the description. *)
LegacyMetadata(r) ==
  [start |-> r.start, end |-> r.end, contact |-> r.contact, platform |-> r.platform,
   sensor |-> r.sensor, licence |-> r.licence, producer |-> "stated",
   uploader |-> IF r.user = None THEN None ELSE "oam-legacy",
   owner |-> IF r.user = None THEN None ELSE "oam-legacy",
   uploaderName |-> IF r.user = "named" THEN "account"
                    ELSE IF NameParts(r.contact) # {} THEN "contact" ELSE None]

(* Only times both written with an offset, or both without, can be compared. *)
Sanitisable(m) == m.platform # None /\ Naive(m.start) = Naive(m.end)

InOrder(m) ==
  IF AsUtc(m.start) > AsUtc(m.end) THEN [m EXCEPT !.start = m.end, !.end = m.start] ELSE m

Sanitized(m) ==
  [InOrder(m) EXCEPT !.licence = IF @ = "by spaced" THEN "by" ELSE @,
                     !.platform = IF @ = "UAV" THEN "uav" ELSE @,
                     !.sensor = IF @ = "unknown" THEN None ELSE @,
                     !.contact = NameParts(@)]

IsOam(e) == e \in {"oam", "oam-old"}

(* How often an Item declares each extension. *)
SetOamExtension(exts) ==
  [e \in Extensions |-> IF e = "oam" THEN 1 ELSE IF IsOam(e) THEN 0 ELSE exts[e]]

Declares(exts, e) == IF exts[e] > 0 THEN exts ELSE [exts EXCEPT ![e] = 1]

Own == [e \in Extensions |-> IF e \in {"file", "proj"} THEN 1 ELSE 0]

(* The core schema wants each extension once; the OAM schema these fields. *)
Valid(i) ==
  /\ \A e \in Extensions : i.exts[e] <= 1
  /\ i.exts["oam"] = 1 /\ i.exts["oam-old"] = 0
  /\ i.gsd # None /\ i.platform \in Platforms /\ i.licence \in CC \cup {None}

Created(m) ==
  [window |-> IF AsUtc(m.start) = AsUtc(m.end) THEN <<AsUtc(m.start)>>
              ELSE <<AsUtc(m.start), AsUtc(m.end)>>,
   producer |-> m.producer, platform |-> m.platform, gsd |-> "stated",
   contact |-> m.contact, licence |-> m.licence, sensor |-> m.sensor, owner |-> m.owner,
   uploader |-> m.uploader, uploaderName |-> m.uploaderName,
   exts |-> SetOamExtension(Declares(Own, "alternate")), links |-> {}, size |-> "stated",
   estimated |-> None]

-----------------------------------------------------------------------------
(* An entry without dates is not parsed, an image that is gone not opened. *)
SyncLegacy ==
  /\ stated.road = "legacy"
  /\ Usable(stated.start) /\ Usable(stated.end)
  /\ LET m == LegacyMetadata(stated) IN
     /\ Sanitisable(m)
     /\ stated.image /\ Valid(Created(Sanitized(m)))
     /\ item' = Created(Sanitized(m))
  /\ UNCHANGED <<stated, meta, built, userVars, clock>>

FirstStated(s) ==
  IF \A k \in DOMAIN s : s[k] = None THEN None
  ELSE s[CHOOSE k \in DOMAIN s : s[k] # None /\ \A j \in 1..(k - 1) : s[j] = None]

(* prepare_item of Vantor; Maxar's takes its parents for the title alone. *)
Prepared(o) ==
  IF o.catalog = "vantor"
    THEN [o EXCEPT !.gsd = FirstStated(<<@, o.panGsd>>), !.platform = FirstStated(<<@, o.vehicle>>)]
    ELSE o

(* The Item's own field, its root-level field, the provider's Collection. *)
LicenceOf(o) == FirstStated(<<o.licence, o.rootLicence, "nc">>)

SensorOf(o) == FirstStated(<<o.sensor, o.instrument, o.platform, o.constellation>>)

(* One HEAD, for Vantor, when the asset has no size: it may not tell. *)
SizeOf(o, answer) ==
  IF o.catalog = "vantor" /\ o.size = None THEN answer ELSE o.size

Rewritten(o, answer) ==
  LET p == Prepared(o) IN
  [window |-> <<1>>, producer |-> o.catalog, platform |-> "satellite", gsd |-> p.gsd,
   contact |-> {}, licence |-> LicenceOf(p), sensor |-> SensorOf(p), owner |-> None,
   uploader |-> None, uploaderName |-> None,
   exts |-> SetOamExtension(Declares(o.exts, "alternate")),
   links |-> {"derived_from"}, size |-> SizeOf(p, answer), estimated |-> None]

(* Also the rebuild of an Item that is there. *)
SyncProvider ==
  /\ stated.road = "provider" /\ stated.parent
  /\ \E answer \in {"stated", None} :
       /\ Valid(Rewritten(stated, answer))
       /\ item' = Rewritten(stated, answer)
  /\ UNCHANGED <<stated, meta, built, userVars, clock>>
-----------------------------------------------------------------------------
(* Who signs in.  A session writes the id with this provider, with another, bare,
   or as a number; a "custom" one is a user of its own.  The shared account's id is
   nobody's. *)

SharedId(s) == s.way = "anonymous"

(* get_user_sub, up to the id. *)
UserSub(s) == IF s.way = "custom" THEN "custom" ELSE "hotosm"

Localpart(s) == IF s.mail = None THEN None ELSE "local part"

(* get_user_username: there always is one. *)
Username(s) == FirstStated(<<s.username, s.name, Localpart(s), "unknown">>)

DisplayName(s) == IF s.name = None THEN {} ELSE {{s.name}}

AccountsOf(sub) == {a \in accounts : a.sub = sub}

(* Mutant: a session that carries less erases what an earlier one said. *)
UpsertWhole(s) ==
  {a \in accounts : a.sub # UserSub(s)}
    \cup {[sub |-> UserSub(s), username |-> Username(s), name |-> s.name, mail |-> s.mail]}

(* DbUser.upsert: COALESCE with the row that is there. *)
Upserted(s) ==
  LET known(field) == {a[field] : a \in AccountsOf(UserSub(s))}
      Coalesce(value, field) ==
        IF value = None /\ known(field) # {} THEN CHOOSE v \in known(field) : TRUE ELSE value
  IN {a \in accounts : a.sub # UserSub(s)}
       \cup {[sub |-> UserSub(s), username |-> Username(s),
              name |-> Coalesce(s.name, "name"), mail |-> Coalesce(s.mail, "mail")]}

MirrorUser(s) ==
  /\ ~SharedId(s)
  /\ Cardinality(told \cup {s}) <= MaxSignIns
  /\ accounts' = Upserted(s) /\ told' = told \cup {s}

(* profile_sync and profile_page. *)
SignIn ==
  /\ stated.road = "form"
  /\ \E s \in Sessions : MirrorUser(s)
  /\ UNCHANGED <<stated, meta, built, item, clock>>

Acceptable(f) ==
  /\ Usable(f.start)
  /\ f.end.is # None => Usable(f.end) /\ AsUtc(f.end) >= AsUtc(f.start)
  /\ f.backlink # "script"

(* clean_metadata and clean_external; the contact defaults to the session's
   display name, and an anonymous upload has none. *)
Cleaned(f, s) ==
  [road |-> "form", start |-> Zoned(f.start),
   end |-> IF f.end.is = None THEN NoDate ELSE Zoned(f.end),
   contact |-> IF f.anonymous THEN {}
               ELSE IF f.contact # {} THEN f.contact
               ELSE DisplayName(s),
   licence |-> f.licence, platform |-> f.platform, sensor |-> f.sensor,
   backlink |-> f.backlink,
   uploader |-> IF f.anonymous THEN "custom|anonymous" ELSE UserSub(s)]

Accept ==
  /\ stated.road = "form" /\ meta = Nothing
  /\ Acceptable(stated)
  /\ \E s \in Sessions : MirrorUser(s) /\ meta' = Cleaned(stated, s)
  /\ UNCHANGED <<stated, built, item, clock>>

HandOver ==
  /\ stated.road = "import" /\ meta = Nothing
  /\ meta' = stated
  /\ UNCHANGED <<stated, built, item, userVars, clock>>

(* _uploader_meta: the account as it is mirrored now, which an anonymous upload
   and one handed over have none of. *)
UploaderName(m) ==
  IF AccountsOf(m.uploader) = {} THEN None
  ELSE (CHOOSE a \in AccountsOf(m.uploader) : TRUE).username

(* Where the acquisition date comes from, when the uploader gave none. *)
AcquisitionSource(m, tags) ==
  IF Usable(m.start) THEN None ELSE IF Usable(tags) THEN "file-tags" ELSE "ingest"

Acquired(m, tags) ==
  IF Usable(m.start) THEN m.start ELSE IF Usable(tags) THEN Zoned(tags) ELSE UtcAt(clock)

PipelineMetadata(m, tags, camera) ==
  [start |-> Acquired(m, tags),
   end |-> IF Usable(m.end) THEN m.end ELSE Acquired(m, tags),
   contact |-> IF m.contact # {} THEN m.contact ELSE {{"producer"}},
   platform |-> FirstStated(<<m.platform, "uav">>), producer |-> "stated",
   sensor |-> FirstStated(<<m.sensor, camera>>), licence |-> m.licence,
   uploader |-> m.uploader, uploaderName |-> UploaderName(m), owner |-> None]

(* The metadata step; a retry reads the account, the tags and the time again. *)
BuildItem ==
  /\ meta # Nothing
  /\ LET m == PipelineMetadata(meta, stated.tags, stated.camera)
         i == Created(Sanitized(m))
     IN /\ Sanitisable(m) /\ Valid(i)
        /\ built' = [i EXCEPT !.estimated = AcquisitionSource(meta, stated.tags),
                              !.exts = Declares(Declares(@, "render"), "eo"),
                              !.links = IF meta.backlink = "http" THEN {"via"} ELSE {}]
  /\ UNCHANGED <<stated, meta, item, userVars, clock>>

(* validate_item: the two links a member of a collection needs. *)
Member(i) == [i EXCEPT !.links = @ \cup {"collection", "parent"}]

(* POST /register; after an answer that was lost, again. *)
Register ==
  /\ built # NoItem
  /\ item' = Member(built)
  /\ UNCHANGED <<stated, meta, built, userVars, clock>>

TimePassesBy ==
  /\ stated.road \in {"form", "import"} /\ clock < MaxClock
  /\ clock' = clock + 1
  /\ UNCHANGED <<stated, meta, built, item, userVars>>

ItemNext ==
  \/ Describe \/ SyncLegacy \/ SyncProvider
  \/ SignIn \/ Accept \/ HandOver \/ BuildItem \/ Register \/ TimePassesBy

ItemSpec == ItemInit /\ [][ItemNext]_itemVars
-----------------------------------------------------------------------------
Published(i) == i # NoItem

(* The acquisition an Item shows is the one its source stated, in order and in
   one time zone, however it was written and however often it was rebuilt; a
   date nobody stated is marked as an estimate. *)
WindowAsStated ==
  Published(item) /\ stated.road # "provider" =>
    /\ \A n \in 1..Len(item.window) - 1 : item.window[n] < item.window[n + 1]
    /\ IF Usable(stated.start)
         THEN /\ item.estimated = None
              /\ ToSet(item.window) = {AsUtc(stated.start)}
                   \cup (IF Usable(stated.end) THEN {AsUtc(stated.end)} ELSE {})
         ELSE item.estimated # None

(* No address is published as a contact, and of an anonymous upload neither a
   contact nor the name of an account: across the form's defaults, the
   pipeline's own and every retry. *)
NobodyNamed ==
  Published(item) =>
    /\ \A p \in item.contact : "mail" \notin p
    /\ stated.road = "form" /\ stated.anonymous =>
         item.uploaderName = None /\ \A p \in item.contact : "name" \notin p

(* What a provider says of an Item is not lost under what its catalogue says of
   all of them: its own licence, and its craft in whichever of five fields it is
   named.  Every Item of a provider can be filtered by licence, and declares each
   extension once, in its present version. *)
ProviderHeard ==
  Published(item) =>
    /\ Valid(item)
    /\ stated.road = "provider" =>
         /\ item.licence \in CC
         /\ stated.licence # None => item.licence = stated.licence
         /\ stated.licence = None /\ stated.rootLicence # None =>
              item.licence = stated.rootLicence
         /\ {stated.sensor, stated.instrument, stated.platform, stated.constellation} # {None}
              => item.sensor # None
         /\ stated.catalog = "vantor" /\ stated.vehicle # None => item.sensor # None

(* The sessions that were of one account. *)
ToldBy(sub) == {s \in told : (s.way = "custom") = (sub = "custom")}

(* However their sessions write the id, a person has one account, which does not
   forget a name or an address one of them stated; and their Item names them as one
   of those sessions did, whoever else signs in and however often it is built. *)
OwnerKnown ==
  /\ Cardinality({a \in accounts : a.sub # "custom"}) <= 1
  /\ \A a \in accounts, f \in {"name", "mail"} :
       LET said == {s[f] : s \in ToldBy(a.sub)} \ {None} IN said # {} => a[f] \in said
  /\ Published(item) /\ stated.road = "form" /\ ~stated.anonymous =>
       /\ item.uploader \in {a.sub : a \in accounts}
       /\ item.uploaderName \in {Username(s) : s \in ToldBy(item.uploader)}

(* An Item says what its source stated: when it was taken, from what, under which
   licence, and by whom, unless they asked not to be named. *)
ItemAsStated == WindowAsStated /\ ProviderHeard /\ OwnerKnown /\ NobodyNamed
=============================================================================
