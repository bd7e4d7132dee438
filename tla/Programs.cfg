SPECIFICATION ProgramsSpec
CONSTANTS
  Calls = {1, 2, 3}
  Callers = {p1, p2}
  Anonymous = anon
  Keys = {k1}
  NoKey = nokey
  MaxActive = 1
  NoCall = nobody
  Table = {1, 2, 3, 4}
  HasWorkflow = {1, 2, 3}
  Unreadable = {1, 2}
  Talking = {3}
  Replicas = {a, b}
  Batch = 3
  MaxFailures = 3
  MaxReports = 1
  MaxFaults = 1
  Nobody = nobody
  Scenes <- MCScenes
  MaxZoom = 1
  Factor = 2
  TileBatch = 2
  MaxTiles = 6
  MaxBytes = 3
  MaxHits = 2
  Submitted <- MCLinks
  Targets <- MCTargets
  Bodies <- MCBodies
  AllowPrivate = FALSE
  MaxRedirects = 2
  MaxAttempts = 2
  MaxResolves = 1
  Legacies <- MCLegacies
  Offers <- MCOffers
  Forms <- MCForms
  Imports <- MCImports
  Sessions <- MCSessions
  MaxSignIns = 2
  MaxClock = 11
  Tiles = {1, 2, 3, 4, 5}
  Boxed = {2, 3, 5}
  Foreign = {6, 7}
  PageLimit = 2
  MaxHarvests = 2
  Catalogued = {1, 2, 3, 4}
  HrefOf <- MCHrefOf
  NoHref = "none"
  Pyramid <- MCPyramid
  Threads = {t1, t2}
  MaxCogs = 2
  BatchOf = 2
INVARIANTS
  ExternalIdHeldOnce
  OwnQuota
  ShelfTellsTruth
  LinkIsSound
  ItemAsStated
  HarvestIsExact
  MosaicIsWhole
PROPERTIES
  EveryCallAnswered
  EachEndsOnce
  WorkerEnds
CHECK_DEADLOCK FALSE
