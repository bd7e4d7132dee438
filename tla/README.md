# OpenAerialMap in TLA+

TLA+ modules, TLC configurations and TLAPS proofs for OpenAerialMap, along the
way an image takes: the upload page and the uploader API, the processing
workflow and its programs, the reconciler, the catalogue and what else writes to
it, the tile archives, the coverage layer and the browse map.  Source paths below
are relative to the repository; `uploader-api/` stands for
`backend/uploader-api/`, `tilepack-api/` for `backend/tilepack-api/`.

## The system

| Component | State it keeps | Operations | Modelled in |
|---|---|---|---|
| Upload status rule (`uploader-api/app/db/models.py`) | none | `status_transition` | `UploadStatus` |
| Uploader API (`app/uploads/upload_routes.py`, `service.py`) | the `uploads` row: status, callback token, source URL, workflow name, `updated_at` | create, sign and list parts, complete, abort, submit to Argo | `UploadLifecycle` |
| Pipeline callbacks (`app/uploads/pipeline_routes.py`, `pgstac.py`) | the row, and the item in pgstac | `workflowstatus`, `checksum`, `register` | `UploadLifecycle` |
| Reconciler (`app/uploads/reconcile.py`, `argo.py`) | an advisory lock, a copy of the candidates | sweep: read, ask Argo, decide, finalise | `UploadLifecycle` |
| Workflow (`pipeline/workflow-template.yaml` and its steps) | Argo's phase, the workspace volume | fetch, validate, convert, upload, register, clean up, report | `UploadLifecycle` |
| Admission (`service.py`, quota and external id) | counts and keys over all rows, row locks | create | `Admission` |
| Fetch step (`pipeline/fetch/fetch.py`) | files on the shared volume, the archived object, the row's source URL and checksum | run, retried and overlapping | `FetchStep` |
| Tilepack API and worker (`tilepack-api/internal`, `worker/generate.py`) | lock objects, archives, Kubernetes Jobs, item assets | post (trigger and poll), render, store, register | `Tilepack` |
| Reconciler over many rows, in two replicas | the batch, the advisory lock | sweep | `Sweep` |
| Fetch by link (`source_links.py`, `url_guard.py`, `fetch.py`) | the row's source URL | normalise, check, follow redirects, unpack | `SourceLink` |
| Validate, convert, metadata, register (`pipeline/*`, the template's graph) | the files on the volume, the objects, the item | each program, tried again | `ProcessImage` |
| What an item says (`stac.py`, `opendata.py`, `schemas.py`, `metadata.py`, `auth_deps.py`) | the account, `dataset_meta`, `metadata.json`, the item | sign in, accept, build, register, sync | `CatalogueItem` |
| Catalogue ingestion (`backend/stactools-hotosm`) | items in pgstac, a run's findings | dump, sync, rebuild, page | `CatalogueSync`, `Elevation` |
| Catalogue seeding (`uploader-api/scripts/seed_catalog.py`, a Job of the chart) | copied objects, items in pgstac | plan, copy, load | `Seed` |
| Tilepack worker (`tilepack-api/worker/generate.py`) | threads, futures, the local archive, lock and note | plan, render, retry, store, register, stop | `TileWorker` |
| Upload page (`app/static/js/uploader.js`) | localStorage, the form, timers | upload, resume, track, poll | `UploadPage` |
| Coverage job (`global-mosaic/scripts/gen_coverage_vector.py`) | archives, output directory | three stages, publish | `Coverage` |
| Mosaic script (`global-mosaic/scripts/archive/gen_mosaic_manual.py`) | caches shared by threads, the archive | check, list, draw, write | `Mosaic` |
| Browse map (`frontend/src`: `Map.tsx`, `Browse.tsx`, `filters.ts`, ...) | layers, selection, address bar | effects of the page | `MapImages`, `MapView`, `Coverage` |

Components that are not modelled are at the end.

How they interact: the browser talks to the uploader API and sends the parts
straight to the object store; the API creates the S3 session, completes it, and
submits an Argo workflow named after the upload.  The workflow's pods call the
API back with a per-upload token; the API writes the row in its own database and
the item in pgstac, another one.  The reconciler, a task of each API replica
behind an advisory lock, asks Argo about rows nothing has been heard of.

The tilepack service is apart from the uploader and meets it in the catalogue
only: it reads an item, creates a Kubernetes Job named after the variant asked
for, and its worker puts the archive in the bucket and has the API add an asset
to the item.  Catalogue ingestion writes items of other providers to the same
pgstac, a coverage job reads all of it to draw the map's lower zooms, and the
browse map takes its footprints from that job's archives and its imagery from the
items.

### What is hard about it

* Requests interleave at every `await`; only row locks order them.
* Two databases and an object store are written one after the other, with no
  transaction across them; a replica may die in between.
* Every callback of a pod is best effort: retried by curl and by Argo, so it may
  be lost, repeated or overtaken.
* A submission that times out may have created the workflow.
* The reconciler acts on a copy of the row and on an answer of Argo, both of
  which may be stale when it writes.
* A limit is counted in one statement and used up in a later one, by several
  requests at once.
* A pod its controller gave up on may run on beside the one that replaces it, on
  the same volume.
* The tilepack API keeps nothing itself: what it does follows from an item, an
  object, a Job and a lock read one after the other, each of which may change
  before the next is read.
* A signal may reach the worker in a call that swallows every exception, or while
  its threads are at work.
* Sources are paged while they change, and next links come in two forms.
* The seeding Job starts anew each time, with a plan made from a source that has
  changed, two limits on it, and whatever the run before it left.
* Two programs apply one rule, each in its own words: to a share link, to a date,
  to a filter of the map, to a band of an image.
* The effects of the browse map read what the effects before them left on it, and
  answers of fetches come in any order.

### What makes it correct

* An upload ends once, and its first result stands.
* It says Succeeded only when its item and its object are there.
* The callback token and the source URL do not outlive it.
* The pipeline never runs twice for one upload at the same time.
* Every upload that is handed to processing, or abandoned, ends.
* An external id names one upload that has not failed, and nobody exceeds their
  own quota.
* A step that reads the imagery reads all of one file, and a retried fetch can
  always start again.
* The catalogue announces only archives that are in the bucket, never loses one
  it announced, and a client that keeps asking gets its archive.
* What is stored is whole: every tile that has data, every page that was to be
  read, every entry that could be built.
* An item says what its source stated, and names nobody who asked not to be; its
  files are the ones it describes, and the map draws what they hold.
* Every quiet upload is looked up in the end, however many others are spared.
* The map at rest shows what was chosen, within its caps, and its link says so.

## Modules

### `UploadStatus`

The thirteen statuses, their order, and `status_transition` as `Applies` and
`Expires`.  No state.

### `UploadPromise`

The abstract specification: what the uploader promises of an upload, with no
database, cluster or reconciler.  Statuses move forward and end once; Succeeded
is only said of an upload whose item is published.  Publishing itself is free:
the catalogue is another database, and the code really may publish an item whose
row ends otherwise (see *Findings*).

### `TilepackPromise`

The abstract specification of the tilepack service, with no Jobs, pods, locks,
retries or transactions: which archives there are, what the item names, who was told
"ready".  An archive is made only for someone who asks for it, PMTiles after the
MBTiles they are converted from; the item names it once it is there, and never one with
zooms of the client's own; "ready" comes after both and is not taken back.  Only the
bucket may lose something.

### `UploadLifecycle`

| Variable | Code |
|---|---|
| `row` | the `uploads` table as committed: `status`, whether `callback_token`, `source_url` and `workflow_name` are set, and `updated_at` as an age |
| `session`, `object` | the S3 multipart session and the object at the upload's key |
| `catalog` | the item in pgstac |
| `req` | the requests being served, each at the await it has reached |
| `wf` | the Argo workflow: phase, stage, register pods started |
| `reports` | calls of the pods on their way to the API |
| `sweep` | the reconciler's copy of the row it is looking at |

One action is one stretch of a handler between two awaits that others can see:
`Create` commits the row; `OpenSession` or `SessionRefused` is S3's answer;
`Claim`, `Assemble`, `Submit`, `Submitted` are `completemultipart` up to its
commit, and `CompleteRefused`, `SubmitFailed`, `RequestDies` its ways out;
`AbortSession`, `AbortRow` are `abortmultipart`; `RegisterAuthorized`, `Upsert`,
`Registered` are `register`.  The claim is uncommitted until `Submitted`: in the
model the committed row stays Initiated and the lock is the slot itself
(`Claimed`), which every writer waits for.

`Submit` and `SubmitFailed` are separate, so a submission may land and fail.
`Report` may leave the call in flight (curl repeats it), `ReportLost` drops it.
`SweepRead`, `SweepDecide`, `SweepFinalize` are one row of a sweep; between any
two of them everything else may happen.

Abstractions: the token is the upload's own, so a call either carries it or is
refused; `updated_at` is one of fresh, quiet, abandoned; the DAG is a line of
stages (metadata and the COG upload run beside each other in the template, and
nothing in the row tells them apart).  `GrowOld` does not age a row past the
maximum age while a request works on it: `RECONCILE_MAX_AGE_HOURS` is a day, and
requests last minutes.  `WorkflowCollected` deletes a failed workflow only when
no request or report of it is left: its ttl is a day.

Uploads differ in kind and in the deployment they are served by: `Remote` holds
those fetched from a URL, `Clustered` those served with `ARGO_ENABLED`.

### `UploadLifecycleInv`, `UploadLifecycleProofs`

The inductive invariant and the proofs, below.  `MCUploadLifecycle` adds what
TLC needs: symmetry of the request slots, one upload to a behaviour, and the
deadline.  The proofs also have the half of `Sweep` that is no liveness.
Of the other modules with proofs `UploadPageProofs` extends the module it
is about; `AdmissionProofs` is about `Admission`, `SourceLink` and `CatalogueItem`,
`FetchStepProofs` about `FetchStep` and `ProcessImage`, `SeedProofs` about `Seed`,
`Coverage` and `Mosaic`,
`TilepackProofs` about `Tilepack` and `TileWorker`,
`CatalogueSyncProofs` about `CatalogueSync` and `Elevation`, `BrowseProofs` about
`MapView` and `MapImages`.

### `Admission`

`create_upload_row` with several calls in flight.  `call` is a request and the
point it has reached, `row` what it has committed, `lock` who holds each user's
row: `mirror_user` upserts it at the start of the transaction, so one user's
requests queue there (`Mirror`), and a user's anonymous upload takes the same
lock, its owner's, and is counted under the account all of them share.  `Count`
and `Look` are the two reads, at read committed; `Insert` waits for an
uncommitted insert of the same external id and then succeeds or meets the unique
index (`UniqueViolation`, `Conflict`).  `End`, `Stale` and `Resume` are what
becomes of a row later, as far as the count and the index see it: the count only
takes rows heard of within a day.

### `FetchStep`

The pods that run `fetch.py` in one workflow, one attempt after another.  `part`,
`input` and `archive` are the files on the volume and the object: which version
of the imagery, and whether all of it.  `open`, `source`, `checksum` are the
parts of the row the step reads or writes through the API; `attempt`, `lost`,
`step` are Argo's view.  Actions follow `run` from top to bottom, with every way
out: `Transient` (exit 75), `Permanent` and `NothingToFetch` (another exit code,
reported if the report arrives), `Killed`.  `Lose` is Argo deeming the running
pod lost, which may go on all the same; `Retry` starts the next attempt beside
it.  Both kinds of upload start here: one in the bucket already (`mode` "s3"), and
one to be fetched (`mode` "url").

Argo itself is outside the repository and is modelled from what the template
asks of it.  The template's retry expression names the status Error while its
`retryPolicy` is OnFailure, so a lost pod may be retried or end the step Errored,
as the model leaves open.  A question to the object store that fails reads as "no
object" (`_object_size`), which is why `FetchAgain` and `NothingToFetch` are
always possible.  A restored object is read under `If-Match` by the S3 client, so
it is one version or an error.

### `Tilepack`

One item, its variants ("custom" stands for any pair of zooms), and clients who
post the same request again until they are told "ready".  `req` is a request and
what it saw of the item; `job`, `pod` the variant's Job and its worker; `lock`,
`stored` the bucket; `assets` the item; `txn` an `AddAsset` in progress, of a
request or of a worker through the internal endpoint.  `postTilepack` is one
action per call it makes, in the code's order.  `AddAsset` is a serializable
transaction: the first to commit overtakes the others that read before it
(`Commit`), which start again up to three times (`Again`).  A Job has two pods
(`BackoffLimit` 1), and is absent again once its TTL has passed (`Collect`).
What goes wrong is counted in `faults`: a lookup that fails, a request or pod
that dies, a lock that cannot be deleted, a creation that fails after the Job was
created, an archive deleted from the bucket.

Abstractions: a worker takes its lock away, or fails to (`Exit`), and its Job finishes in
one step, since a request that finds the Job active goes no further; a client that asks
again is the user clicking again, there is no polling loop in the front end.

`Service` maps this to `TilepackPromise`: the bucket and the item are themselves, and
told are the clients whose answer is "ready".  The other variables do not appear, so
whatever Jobs, locks and transactions do is a stutter of the promise, or one of its
steps.

### `TileWorker`

`generate.py` from inside: `main` is the main thread, `pool` its futures, `stop`
the event its threads look at, `pack` the local archive, `shelf` the bucket, and
`listed` the item's assets.  The tiles are computed: a picture is a row of pixels
on a grid that zooms divide, and `Row`, `Pooled`, `Warped`, `Grown`, `Intersects`
are the code's integer arithmetic along one axis (the other is treated the same).
Actions follow `main` and `generate_mbtiles`; `Signalled` and `CallFails` may come
at any of its calls, and a signal inside `clear_error` or `build_coverage` is
swallowed there, as the code's `except` does.  `BackoffLimit` is `RetryPod`.

### `Sweep`

The reconciler over a table in the order of `updated_at`: `open` is the rows not
ended, `quiet` how many of them are quiet.  Two replicas, the advisory lock and the
connection that holds it; the batch, the three lookups in a row that end a sweep,
the rows Argo never answers about.  `UploadLifecycle` decides a row, `Sweep` asks
whether every row is decided.

### `UploadPage`

`uploader.js` in one browser: `tab` is each page with its form, its timers and its
polls in flight, `saved` and `kept` are localStorage, `upload` the server's rows and
the parts in the object store.  Each call has four outcomes: answered, refused,
never sent, carried out with its answer lost.  Pages open, close and are left at any
time.

### `SourceLink`

A share link from its submission (`Normalise`, the rules of `source_links.py`, and
`Permitted`, those of `url_guard.py`) through the fetch step's redirects to what is
archived.  `dns` is what names resolve to, which may change between the check and
the fetch, and between attempts.

### `ProcessImage`

The template's graph after the fetch, on one image: `task` and `tries` are Argo's
view, `cog`, `sidecar`, `draft` the files, `bucket` the objects, `registered` the
item.  An image is what the programs tell apart: bands, type, mask, nodata, declared
type, size, footprint.  Volume sizing (`argo.py`), the checks of `validate.py`, the
conversion's options and its verification, the footprint across the antimeridian,
the render hints and what the map's tiles make of them are operators.

### `CatalogueItem`

One image on one of four roads to an item: the old API's entry, a provider's item,
an upload's form, metadata handed over.  `stated` is what the source says, `meta`
the upload's `dataset_meta`, `built` the metadata step's file, `item` the catalogue's.
`accounts` is the table `users`: sessions of a person come in several forms and carry
more or less about them, and `Upserted` is the upsert with its COALESCE.  A date has a
time and, maybe, an offset; a contact is a set of parts, each a name, an address or
both; of the extensions an item declares, it is counted how often it declares each.

### `CatalogueSync`

`hotosm sync-*` and the dumps: `record` is the catalogue, `sync` a run with what it
has found, built and failed at, and the source changes meanwhile.  `source` says
which of the four readers a behaviour has: the old API page by page (`Page`,
`PageEnds`), Maxar's events (`OfEvent`), Vantor's (`OfPublished`), and the walk of a
bucket (`OfWalk`).  `PatchTiles` is the tilepack service adding an asset.  Any number of
runs may be under way: nothing in the code or the charts keeps the jobs of a source
apart, and the runbook for backfills makes a second one beside the CronJob's.  `there`
and `listed` are history: what was in the catalogue, and in the listing, when a run
began.

### `Seed`

`seed_catalog.py`, one run after another: `run` is the latest, with its place in the
source's listing, its plan, what it copied and its exit code; `store` the objects in
this bucket, `collection` and `items` pgstac.  A run reads what is loaded
(`StartRun`), plans item by item under both limits (`PlanItem`), upserts the
collection before any imagery (`UpsertCollection`), copies in any order
(`CopyOne`, `CopyFails`) and loads what has its required assets (`Load`).
`Arrives` is the source listing a new item, anywhere in its order, and `AddTiles` the
tilepack API's asset.  A mishap is a size that cannot be had in three tries
(`PlanUnsized`), a copy that fails, even one of an object that is there and could not be
checked, or a pod that dies (`RunDies`).

### `Elevation`

The harvest of the elevation tiles: `harvest` is a run with the request it sends
next, whose body comes from the link of the page before, whole or as a patch
(`NextBody`), `tiles` the catalogue.

### `Coverage`

The coverage job in its three stages, its output directory and its uploads, and the
filters of the browse page.  The bins of the grid, the buckets of the footprints and
the filters are written as the two languages have them; `Facts` gives the images, on
both sides of every bound.

### `Mosaic`

The script that draws the mosaic from the images: `counts` and `failures` are its two
caches, `thread` the pool, `render` the main thread, `archive` the tiles written.  A
read may fail at any time, and what failed once is not read again in the run.

### `MapImages`, `MapView`

The browse page.  An action is an event (of the map, the user or a fetch) with the
effects React runs after it, in their order.  `MapImages` has the thumbnails and tile
layers, their caps, the selection and its link; `MapView` the view, the debounced
report, the basemap and the flights that moves cut short.

### The MC modules

`MCPipeline`, `MCCatalogue` and `MCPrograms` put several of these programs into one run.  They do not interact within a run: what one leaves is the other's input, so a
behaviour follows one of them (`program`), the others stand still, and all their
properties are checked together.
`MCUploadLifecycle`, `MCFetchStep`, `MCTilepack` and `MCSync` have one each; the run
`pool_quota` takes `Admission` as it is.

## Runs

| Run | Instance | Shows |
|---|---|---|
| `uploads` | one upload to a behaviour: browser or URL, with a cluster or without; two requests, two register pods, three kinds of message followed | all safety properties of `UploadLifecycle`, the inductive invariant, and the refinement of `UploadPromise` |
| `uploads_liveness` | browser or URL, two requests, failures followed | `ProcessingEnds`, `AbandonedEnds` |
| `fetch` | two tabs, three uploads and a lost call; two fetch attempts, two versions, both modes; two tries of each program on images of every shape; two coverage jobs over five images, a change and a day; three runs of the seeding Job, ordinary, dry or to seed again, over five items, one of which comes late, one without its imagery, one with an asset elsewhere, with two mishaps | `WholeFile`, `TrackedToTheEnd`; `OneWholeFile`, `InputStays`, `NeverEmptyHanded`; `ConversionHolds`, `ItemDescribesFiles`; `PicturesAgree`; `SeedIsWhole`, `RunsFillWindow`, `SeedKeepsAssets` |
| `tilepack` | two clients, PMTiles and a custom archive, two faults; one Job's syncs of nine entries, three changes; two Jobs' beside one another, from a source that stands still; three images at five places; four views and basemaps | `PromisesKept`, and `ServedAsPromised`, the refinement of `TilepackPromise`, which has `AssetsStay` in it; `RunsAccountForAll`; `OldItemsKeepAssets`; `DrawnAsChosen`; `ViewIsAsChosen`, `ReportedAtRest` |
| `tilepack_liveness` | two clients, PMTiles, one fault, which may be a lost archive | `PollingEnds` |
| `programs` | three requests, two users, one external id, one upload allowed each; four rows and two replicas; a worker on sixteen scenes with two faults; links of every rule; descriptions of every road and six sessions; five elevation tiles; four items under four tiles | `ExternalIdHeldOnce`, `OwnQuota`, `EveryCallAnswered`; `EachEndsOnce`; `ShelfTellsTruth`, `WorkerEnds`; `LinkIsSound`; `ItemAsStated`; `HarvestIsExact`; `MosaicIsWhole` |
| `unnamed`, `abort_registers`, `pool_quota`, `fetch_purge`, `tilepack_cap`, `sync_overlap` | the smallest that shows it | the findings |

Many of these are conjunctions of parts with names of their own, which the modules
state and comment one by one: `TrackedToTheEnd` is `StillTracked` and
`PollsWhilePending`, `ItemAsStated` is `WindowAsStated`, `ProviderHeard`,
`OwnerKnown` and `NobodyNamed`, and so on.

No run checks for deadlock: an upload that has ended, a step that is over, a program
that has run and a client that was served really stop.

### Bounds, and why they are enough

* Two requests in flight on one upload.  Each hazard of the lifecycle is between
  two parties: two completions, an abort and a registration, a request and the
  sweep.  The proofs hold for any number of requests and uploads.
* `Followed` names the messages whose lateness matters to a run; the others are
  lost on the way, which the code allows of every message.  The first
  stage report, the checksum and the failure report are followed.
* `MaxAttempts` 2 of `uploads`: a register pod, and one that repeats it.
* One upload to a behaviour: uploads meet only in the request slots, and in the
  sweep, which `Sweep` has by itself: four rows, batches of three, two rows that are
  never answered about and so one fewer than end a sweep.
* Three create requests of two users: two compete for one quota or one id, and
  the third is another's, or comes after; of arrangements that differ in the names of
  users or requests alone one is enough (`Arranged`).  Two versions of a source: one that
  changed.  Two fetch attempts: a pod that runs on, and one that replaces it and finds
  what it left.  The proofs have any number of requests, users, ids and attempts.
* `MaxFaults`: two independent failures for the safety of `Tilepack`, and one where
  the clients want different variants (`FewerFaults`); for liveness one, since what
  each leaves behind is cleared independently, and after the last one things go
  well, which is the premise of the property; `TilepackProofs` has any clients,
  variants and number of faults.  `MaxHits` 2: a tile that fails twice,
  or a failure and a signal on top of it.
* `UploadPage`: `AnonMax` 2 with three uploads, so that one is displaced; two parts,
  so that one may be there; one lost call.  Once two tabs were open no second upload
  is started (`MaxCrowded`): the tabs are then two readers of one list.
* `CatalogueSync`: pages of two with five entries, of which two are listed later, so
  that pages shift; an entry that cannot be read, one that cannot be built, two that
  become one item.  One Job syncs again and again (`OneJob`), which is what
  `RunsAccountForAll` is about: runs meet in the catalogue only, to which each adds.
  Two Jobs run beside one another for `OldItemsKeepAssets` (`StandsStill`: it is about
  what Jobs load, not about what is listed) and in `sync_overlap`: one to load an item,
  and one that has looked before.  The proofs have any number.
* `ProcessImage`, `Coverage`, `MapImages`: images on both sides of each bound the
  code names (volume sizes, days and resolutions, zooms).  Behaviours of `MapImages`
  start at one place and one filter, from which every other is a step away, and the
  raster bounds of one of its images may fail to come (`OneFails`).  The place at
  zoom 16, where images of any size are drawn as tiles, is visited from "far" and
  "high" alone; the proofs have every way.
* `SourceLink`: one redirect more than is allowed; a name comes to point elsewhere
  once.  `CatalogueItem`: two sessions, a full one and one that carries less, or
  another's; one hour passes between two builds.
* `Seed`: `MaxItems` 3 and `MaxBytes` 10 over items of 3 or 4 bytes, so that either
  limit may be the one that ends the plan.  Three runs: one that leaves something
  undone, one over a source that has changed, and one after both.  Two mishaps.
* `Mosaic`: two threads, batches of two, `MaxCogs` 2 under tiles over three images.

### Fairness

`uploads_liveness`: a request is served or dies (its client and the server both
time out); a workflow ends (`activeDeadlineSeconds`), and so does its exit
handler; a pod stops repeating a call (`curl --retry` is bounded); the reconciler
keeps sweeping (`reconcile_forever`), which is strong fairness of its three steps
because a sweep may be cut short, and a row may be locked, any number of times
but not always; time passes for a row nobody touches.  Nothing is assumed to
arrive: all reports may be lost, which is the point of `ProcessingEnds`.
`AbandonedEnds` is about uploads whose owner has really left.

`tilepack_liveness`: clients ask again, requests are served (they have a deadline
of 20 seconds), Jobs run (`activeDeadlineSeconds`), and TTLs pass.

`programs`: a create request that could go on again and again does (`SF`): Postgres
grants a row lock to its waiters in turn, and every statement and connection has
a timeout; the reconcilers keep sweeping and rows go quiet (`SweepFairness`); a
worker's main thread and its pool take their steps (`WorkerFairness`).  A program
that has not been started owes nothing.

## Findings

Where a comment or a document says more than the code does.

* `unnamed`: the reconciler takes a row that names no workflow for one that has
  none ("Nothing was ever handed to a cluster", `reconcile.py:102`).  A
  submission that landed but was not answered is rolled back, so the workflow
  runs for a row without its name, and a later sweep may end the row by age while
  it does.
* `abort_registers`: "an aborted upload's workflow cannot go on to register the
  item the user just cancelled" (`models.py:296`).  `register_item` checks its
  token before it validates and publishes; an abort committed in between is
  followed by the publication.  The workflow was submitted, unanswered, as above.
* `pool_quota`: anonymous uploads "share the limit as a pool"
  (`uploader-api/README.md:191`), but their requests hold their own users' rows,
  so two of them may be counted at once and both let in.
* `fetch_purge`: rejected bytes "must not sit in a world-readable bucket"
  (`workflow-template.yaml:178`).  The purge depends on `fetch.Failed`: a step that
  ended Errored is not purged, and `purge-objects` itself is not retried.
* `tilepack_cap`: `MaxConcurrentJobs` "caps cluster-wide in-flight worker Jobs"
  (`config.go:42`).  The count and the creation are two calls, and a Job whose pod
  has not been created yet is not counted.
* `sync_overlap`: "A normal sync never updates an Item already in PgSTAC"
  (`docs/dev/ingest/index.md:67`), and "using a wide date range is safe"
  (`backfill.md:59`) of a Job made beside the CronJob's.  A sync asks once which items
  are there, builds the others and upserts them whole (`cli.py:264`), and nothing keeps
  two jobs apart: an item that the other loaded in between, and that a tilepack was
  added to, loses the tilepack.  Items that were there when a run began are safe from
  it (`OldItemsKeepAssets`).

Seen in the models, and left without a run of their own:

* A published item does not always mean success: the item is committed before the
  row, and a failure report, or a crash, may come between; the converse is what
  holds (`SucceededIsPublished`).
* The fetch step's check for a complete input compares sizes only: with versions of
  one size, a source that changes between two attempts can leave an input that is not
  what was archived (`OneWholeFile` asks for `SizesTell`).
* `auth_deps.py:92` says no session can "narrow an earlier, fuller session", and
  `models.py:125` that one "that omits a field must not erase" what is stored.  This
  holds of the name and the address (`OwnerKnown`); a username is never omitted, since
  `get_user_username` falls back on the address and then on "unknown", so a session
  without one replaces the one that is there, and the next item shows it.
* `source_links.py` tells an assets archive by a path in lower case, `fetch.py` by one
  in any: an oddly cased `all.zip` is named as an archive though a TIFF is stored.
* An uploaded item's `visual` asset gets no S3 alternate: `add_alternate_assets` runs
  while its href is still the local path.
* An entry of the old API that parses but cannot be sanitised (no platform, one date
  with an offset and one without) ends the whole sync, `--handle-exceptions IGNORE`
  or not (`cli.py:466`, `:534`).
* Two tabs write over each other's list of anonymous uploads, and a `listparts` that
  fails once forgets the saved session (`uploader.js:453`), where the comment at 617
  expects a later try to pick the parts up.
* A tile layer that was drawn before its image was selected keeps its minzoom of 12,
  and a selected image out of sight still takes one of the thumbnails' places.
* `maxGiB` of the seeding Job is "A ceiling on copied bytes, not a target"
  (`chart/values.yaml:243`).  Each run budgets the listing from its front and nothing
  is evicted, so an item that appears ahead of those already seeded is copied beside
  them: the ceiling is one of each run's plan, not of the bucket.
* The seeding Job fails for the required assets it could not copy.  An optional one is
  left out and stays so, as the item now counts as loaded (`seed_catalog.py:299`), and an
  item of which no size could be had is left out of the plan; either run exits 0.  A run
  with `RESEED` writes items whole and so takes the tile archives registered since.
* Footprints and imagery disagree about images without a date or a platform and about
  BY-NC-SA (`FiltersAgree` leaves them out), where `filters.ts:4` says they agree; and a
  coverage job that finds an output directory publishes the archives in it.
* An image with an alpha band and a nodata value as well is left out of
  `ProcessImage`: which of the two GDAL's mask follows is not the code's to say.
* An image the mosaic script could not read once, or that only touches a tile it was
  tried for, is left out of every tile after it; and the order of its index, not of
  the query, decides which images are on top.

## Proofs

`UploadLifecycleProofs` proves of `UploadLifecycle`, for any sets of uploads and
requests, any retry limit and any mixture of kinds:

| Theorem | Property |
|---|---|
| `Invariant` | `IInv`, inductive |
| `TypeCorrect` | `TypeOK` |
| `SecretsEndSafe` | `SecretsEndWithUpload` |
| `SucceededSafe` | `SucceededIsPublished` |
| `SuccessfulWorkflowSafe` | `SuccessfulWorkflowEndedRow` |
| `ProcessingSafe` | `ProcessingHasWorkflow` |
| `EndSafe` | `EndIsFinal` |
| `RunsSafe` | `RunsStartFromInitiated` |
| `Refinement` | `KeepsPromise`: `UploadLifecycle` implements `UploadPromise` |

Assumptions: those of the module, that the remote and the clustered uploads are
uploads, that the retry limit is a positive number, and that `NoUpload` is none
of them.

The properties are not inductive.  That a Succeeded row has its object, for one,
rests on the cleanup never running after the register call was let in; that on
the stage the workflow has reached; and that on no second run being started under
it, for which the claim must be the only one.  `IInv` says, of one upload, what
each point of a request may rely on (`SessionAlone`, `ClaimHolds`, `SubmitSound`,
`RemoteOnce`, `RegisterLate`) and what each stage of the workflow says of the row
(`StageMeans`, `SucceededLate`).

The argument has three layers.  Types come first (`StepType`).  Then a step on an
upload leaves the part of the invariant that speaks of any other alone
(`SameKeeps`, `StepOfOne`), so that each action has only to be followed on the
upload it works on.  Last, what the requests do to one upload is summed up as an
abstract change of its row, its slots and its workflow (`DoingKeeps`,
`DoingLawful`), and each action is shown to be one (`StepKept`, `SweepKept`).  The
same summary gives the action properties and the refinement.

The last part extends this to the reconciler: `SweepSpares` proves
`SweepSparesRunning`, that a sweep which ends a row that names its workflow finds the
workflow not running.  The sweep decides from a copy of the row and acts later, and
the row may have moved between the two.  `SweepInv` says what is left of the copy:
the row's status is the one that was read or a later one, and a name that was not
read was not there, or came with a later status (`CopyFollows`); a named row was
handed over and its workflow created (`NamedRuns`); nobody still submits a remote
upload that was given up (`LeftRemote`); and what was decided rests on the age of a
row with no workflow, or on a workflow that is over (`DecidedFairly`).

It proves of `Sweep` that `EndedOnce` (`RowsEndOnce`), the half of `EachEndsOnce` that
is no liveness, for any finite table, any replicas, of which there is one at least
(`SomeoneSweeps`), and any number of faults: two replicas may be sweeping at a time.
`SweepsInv` says that a row on the list has not ended and is on it once, which
`EndRowKeeps` and `Removed` preserve when one ends or is heard of again, and that before
the servers start nothing has ended: otherwise their start would open the rows again.

`AdmissionProofs` proves of `Admission`, for any finite set of requests and any users,
external ids and limit:

| Theorem | Property |
|---|---|
| `KeyHeldOnce` | `ExternalIdHeldOnce` |
| `QuotaKept` | `OwnQuota` |

What is counted is not what is bounded: between its count and its commit a request is
on its way.  `WithinLimit` bounds both together, the rows in progress and the requests
the limit has let in, and it is kept since only the holder of the user's row counts
(`HoldsOwnRow`).  That is what anonymous requests lack, and so `OwnQuota` leaves their
pool out.  `ClaimedOnce` counts an uncommitted insert as a claim to its external id.

It proves of `SourceLink` that `LinkIsSound` (`LinkSound`), for any links, redirects
and answers.  `LinksAssumption` says what a link is, and that the rules for the assets
of a WebODM or a NodeODM are for hosts no rule knows by name, as the order of the
rewriters has it.  `NormalisedIsStored` is what the property rests on: what is
normalised once stays as it is when it is normalised again.

It proves of `CatalogueItem` that `ItemAsStated` (`ItemStated`), for any entries,
provider's items, forms, metadata and sessions, and any clock.  The assumptions
(`EntriesState`, `ProvidersState`, `FormsState`, `ImportsState`) say which fields a source
has; what is in them may be anything but where the code itself looks.  `Says` is what the
properties ask of an item, asked of the built file as well as of the published one.  It
rests on `AccountsKnown`: there is one account for each who signed in, which has of a
session of theirs the name it goes by, and the other fields if any of them stated these.
`MirrorKeeps` is the upsert, `MetaRead` what the metadata step finds of the form in
`dataset_meta`, `CreatedFields` that the window is in order whichever way the dates were
stated.

`FetchStepProofs` proves of `FetchStep`, for any versions and number of attempts:

| Theorem | Property |
|---|---|
| `FetchWhole` | `OneWholeFile` |
| `FetchNeverEmptyHanded` | `NeverEmptyHanded` |
| `FetchInputStays` | `InputStays` |

It assumes that no file is `None` (`NoneIsNoFile`).  `FilesInv` says, of any number of
pods at work on one volume, that every file is whole (a partial one has its pod's
name), and that whoever is past the archive leaves an object or an input to go on from.
`OneFileInv` follows the single pod of a step that was never deemed lost: what it
reads, places, hashes and reports is one version (`Following`), provided sizes tell
versions apart.

It proves of `ProcessImage`, for any images and number of tries:

| Theorem | Property |
|---|---|
| `ConversionKept` | `ConversionHolds` |
| `ItemDescribed` | `ItemDescribesFiles` |

`VolumesHoldUploads` assumes of the settings that the largest volume has room for the
largest upload and a GiB of pixels beside it: `max_decoded_gb` never says less than one,
and with less room it would promise what is not there (`config.py` has 1024 GiB for
100).  `FootprintsAreWhole` is what `metadata.py:372` takes for granted, that longitudes
half a turn apart are of a geometry torn at the antimeridian.  `ProcessInv` says what each
task has left once it is through, and that a task starts when those it depends on are
settled, which they stay (`InGraphOrder`); so nothing an item names is written again
after it was read.  The rest is about the programs themselves: `AcceptedFits` compares what
`validate` asks with what the conversion takes, `DrawnAsValid` the render hints with the
original's mask, `RunOfLongitude` and `PlaceHolds` the box with the footprint, which
lies west or east of Greenwich, or across, or was torn.

`UploadPageProofs` proves of `UploadPage`, for any tabs, parts, uploads, visits and lost
calls:

| Theorem | Property |
|---|---|
| `UploadWhole` | `WholeFile` |
| `TrackedToEnd` | `TrackedToTheEnd`, while `AnonMax <= MaxTracked` (both are 20, `uploader.js:134` and `page_routes.py:26`) |

`WholeFile` rests on every part a tab counts as sent or listed being stored under its
session (`SentIsStored`), whose row is not replaced by another (`RowsInOrder`,
`NamedExist`).  `PageInv` adds that a row whose creation has not been answered is known
to its tab alone (`OnlyItsTab`), which is why the lists never name an id twice.  That a
page goes on asking is `NewsIsDue`: for each upload it knows that has not ended there
is a timer, or a poll under way that asks about it.  A poll is small enough for the
server to look at all of it (`LooksAtAll`), so its answer sets a timer unless all of it
has ended.  `OneByOneInv` is the list itself while one tab is open at a time: newest
first (`KeptInOrder`), the same in storage as in the tab (`SameList`), with every
upload of which a byte was sent on it, or displaced (`ToldIsListed`).

`SeedProofs` proves of `Seed`, for any source, assets, limits and number of runs:

| Theorem | Property |
|---|---|
| `SeedWhole` | `SeedIsWhole` |
| `SeedKeeps` | `SeedKeepsAssets` |
| `WindowFilled` | `RunsFillWindow` |

It assumes that "tiles" is no name of the source's assets (`TilesApart`), that an item
has finitely many (`AssetsFinite`), that the limits and the sizes are natural numbers
(`BudgetCounts`), and that what is listed are items of the source (`SourceKnown`).  None
of the three properties is inductive.  That what is loaded is in the bucket rests on
nothing being taken from it, on the run counting as landed only what is there
(`LandedIn`), and on every planned item having what is required (`Planned`).  That no item is overwritten
rests on the run having asked for all the ids before it chose, on nobody else adding
items while it lasts, and on none of the chosen being among them (`FoundThere`).
`PlanKeeps` follows one item into the plan; `SeedInvNext` has one step per action.

`RunsFillWindow` compares a total that a run adds up item by item with sums over the
listing as it is, of the sizes of the assets to be copied.  Those sums are folds, of
which the library has no theorem that a prover here can use: it takes the operation
folded as a parameter.  `SumIs` says instead what a sum over a finite set is,
element by element; that there is one function that does so (`SumsExist`, `SumsAgree`)
and what adding or leaving out an element does to it (`SumTake`, `SumOfPart`) follow by
the least subset for which they would fail (`LeastSubset`).  `UpToAdds` is then what one
more item adds.  `Filling` says of a run nothing has happened to that what it has
counted is the part of the window it looked at; `WindowThere` that it stops only where
the window ends, at the end of the listing, at `MAX_ITEMS` or before an item that does
not fit, so that later items that would fit are left out by both.  `Accounted` and
`Told` carry that to the end: what was counted is loaded already or chosen to be, and a
run that exits 0 has loaded what it chose.  The window is a function of the listing
alone (`ListingOnly`); an item that arrives while a run lasts, or after it, is something
that happened to it, and the claim about the window is not made of that run any more.

It proves of `Coverage` that `PicturesAgree` (`PicturesAgreed`), for any finite set of
images and any number of runs of the job.  The assumptions say that days and resolutions
are natural numbers and that a filter is one the page offers.  `DrawnBinned` is what the
grid's bound rests on: an image drawn under some filters is in the bucket of each of them,
which compares two sets of intervals, the job's and the browser's, bound by bound; the
least of the counts is then no less than what is drawn (`GridBounds`).  `BothShow` is the
same of the footprints and the imagery.  That no run leaves a downstream archive fresher
than one it was made from is `Ordered`: each upload follows that of the stage before it in
the same run, so the archives in the bucket are from runs in the order of the stages.

It proves of `Mosaic` that `MosaicIsWhole` (`MosaicWhole`), for any items and images, any
pyramid of tiles, any set of threads, and any positive length of a batch and number of
images to a tile (`ItemsAreNumbered`, `PyramidOfItems`, `TilesHaveRoom`).  `InListOrder`
says that the tiles written, those of the batch in the pool and those still to come are,
in this order, the list; `ThreadsSound` that a thread's items that are neither kept nor
to come could not be read, which `Explained` then says of each finished tile, in the pool
(`ResultsSound`) or written (`ArchiveSound`).  `PoolKeeps` has what every step of a thread
leaves as it is.  `BatchHasLength` says that a batch takes at least one tile of those
there are, and `TilesListed` that the list has each tile once, for which `InOrderOf`
shows that any finite set of numbers can be listed in ascending order (by the least
bound for which that would fail).

`TilepackProofs` proves of `Tilepack`, for any clients, variants, limit of Jobs and number
of faults:

| Theorem | Property |
|---|---|
| `PromisesHold` | `PromisesKept` |
| `AssetsKept` | `AssetsStay` |
| `ServiceRefines` | `ServedAsPromised`: `Tilepack` implements `TilepackPromise` |

It assumes that clients are told from variants (`ClientsApart`): both are owners of
transactions.  `TilepackInv` says what each party may rely on after the calls it has
made: a client on what it saw of the item (`ClientSound`), a worker on having stored
its archive before it registers it (`WorkerSound`), and a transaction that was not
overtaken on the item being what it read (`WriteSound`), so that to commit it adds one
asset and drops none.

The refinement needs what these leave open, who is behind what is done
(`ServiceInv`): a Job or a pod is of a variant that some client asked for, a transaction
writes a canonical key, and who was told "ready" has no request under way, so no
later answer replaces that one (`AnswersStay`).  `ShelfPromised` shows of every step that
the bucket changes as the promise lets it, `ItemPromised` the same of the item,
`AnswersPromised` of the answers; no step of the code changes two of them (`ServiceStep`
and `ServiceInit` have the induction).

It proves of `TileWorker` that `ShelfTellsTruth` (`ShelfTrue`), for any pictures, zooms,
coverage factor, batches, limits and number of failures and signals; a picture has a
positive width and its valid pixels are within it (`ScenesArePictures`).  `WorkerInv` has
four parts.  `Drawn` says that a tile with data, of the zooms reached so far, is in the
archive, still to be submitted, in the pool, or the one that is tried again.  It rests on
`PrefilterKeeps`, which is about the arithmetic of `build_coverage` and `intersects`: the
target cell that a valid pixel falls into is set, and is among those looked at for every
tile the pixel is in, however the pooling, the warp and the two divisions round.
`Noted` follows the failure note and the lock, `Listed` says what is stored and listed by
the point the run has reached, and `GivesUpKeeps` is every way of ending with a reason.

`CatalogueSyncProofs` proves of `CatalogueSync`, for any sources, page size and number of
runs:

| Theorem | Property |
|---|---|
| `RunsAnswer` | `RunsAccountForAll`, while fewer of the old API's entries cannot be read than a page holds (`FewUnreadable`) |
| `ArchivesSurvive` | `OldItemsKeepAssets`, of overlapping runs as well |

The hypothesis of the first is the code's own: a page of which nothing can be read
looks like the end of the listing.  `NewestFirst` is the order the old API lists in
(newest upload first).  `PagesInv` says of an entry that was listed when the run began
that it is found or on a page still to come: new entries come in front and push
the others back, never forward.  Under `FewUnreadable` no page is empty by mistake (a
pigeonhole argument).  `BuiltSoundly` follows what was found to the item it became, the
error it was counted as, or the item that was there.  `ArchivesSurvive` has no hypothesis:
`OldItemsInv` says that what was there when a run began is there still, whoever else
loads, and so among what the run finds existing when it asks.

It proves of `Elevation` that `HarvestIsExact` (`HarvestExact`), for any finite set of
tiles, any box, page size and number of runs.  `PagesRead` says that what a run has read
is the first pages of what it asked for, and `OnOnePage` and `LastPage` that a tile is on
one page, which comes before the one that has no next.

`BrowseProofs` proves of `MapView` and `MapImages`, for any views, images, places, filters
and positive caps:

| Theorem | Property |
|---|---|
| `ViewChosen` | `ViewIsAsChosen` |
| `ViewReported` | `ReportedAtRest` |
| `ImagesDrawn` | `DrawnAsChosen` |

`ViewInv` adds that a style that is waited for is waited for by the effect of the basemap
chosen (`BaseSound`) and that a report waits only while the map is at rest
(`ReportWaits`).  That the imagery settles takes two idles, and so two claims: after one
(`TilesSettled`) the tile layers are those the page asks for, after another
(`PreviewsSettled`) the thumbnails are, which were decided on the layers of the idle
before.  `FirstOnes` says of the ones that fit that they are as many as there is room
for, or all there are; `Laid` that a layer with an item's bounds was drawn for the image
selected.

Only model-checked, as out of the provers' reach: liveness under fairness
(`ProcessingEnds`, `AbandonedEnds`, `EveryCallAnswered`, `PollingEnds`, `WorkerEnds`)
and the other half of `EachEndsOnce` (`OthersEnd`).

## Plan

Models: the upload page composed with `UploadLifecycle` in one behaviour, in place of
the open, queued and ended rows it has now; `FetchStep` and `ProcessImage` as the
implementation of `UploadLifecycle`'s line of stages; a browse page with `MapImages`
and `MapView` as one state.

## Not modelled

* The tilepack rate limiter: a token bucket behind a mutex, in memory.  A request
  it refuses changes nothing else.
* Rendering of the HTML pages, the third-party sessions themselves, settings and
  monitoring of the uploader; the read-only routes (`get_upload`, `lookup_upload`),
  which return a row as it is; signed part URLs.
* What GDAL does to pixels: resampling, compression, the scaling of thumbnails; file
  tags and the texts of lineage and titles.
* Links the URL parser refuses, and the documents of the collections.
* The archived scripts of the global mosaic that nothing runs, other than the one that
  reads the images: `gen_mosaic_hybrid.py` says of itself that it is not used, and
  `gen_coverage_raster.py` and `gen_density_vector.py` are earlier forms of the coverage
  job.  `benchmark_tilepack_size.py` measures and keeps nothing.
* `stac-api`, `stac-browser`, `stac-ingester`, `global-tms`, `stac-map`: deployments of
  third-party servers.
* Cards, forms, progress bars and prefilled links of the front ends; notebooks, Helm
  charts and tasks: presentation and operations.
