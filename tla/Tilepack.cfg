SPECIFICATION CatalogueSpec
CONSTANTS
  Clients = {c1, c2}
  Variants = {"pmtiles", "custom"}
  MaxJobs = 1
  MaxFaults = 2
  Loses = FALSE
  Legacy = {"e1", "e2", "e3", "e4", "e5"}
  Provided = {"p1", "p2", "p3", "p4"}
  Items = {"i1", "i2", "i3", "i4", "i5", "q1", "q2", "q3"}
  TargetId <- MCTarget
  AtFirst <- MCAtFirst
  Events <- MCEvents
  Unparsed = {"e3"}
  Unbuildable = {"p3"}
  Early = {"e4", "p4"}
  Undated = {"p4"}
  PageSize = 2
  Runs = {r1, r2}
  MaxChanges = 3
  NoEntry = "none"
  Images = {1, 2, 3}
  Large = {1, 2}
  Thumbed = {1, 2}
  Tight = {1}
  Places <- MCPlaces
  ZoomAt <- MCZoomAt
  Near <- MCNear
  FilterSets = {"all", "week"}
  Drawn <- MCDrawn
  Matching <- MCMatching
  MAX_TMS = 2
  MAX_PREVIEWS = 1
  MaxViews = 4
  MaxFetches = 3
  MaxSwitches = 4
SYMMETRY Symmetric
INVARIANTS
  PromisesKept
  RunsAccountForAll
  DrawnAsChosen
  ViewIsAsChosen
PROPERTIES
  ServedAsPromised
  OldItemsKeepAssets
  ReportedAtRest
CHECK_DEADLOCK FALSE
