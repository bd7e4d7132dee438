SPECIFICATION PipelineSpec
CONSTANTS
  Limit = 2
  Versions = {v1, v2}
  SizesTell = TRUE
  None = none
  Tabs = {t1, t2}
  Parts = 2
  AnonMax = 2
  MaxTracked = 2
  MaxUploads = 3
  MaxCrowded = 1
  MaxLosses = 1
  MaxOpened = 2
  Images <- MCImages
  MaxTries = 2
  Multiplier = 17
  MinVolume = 64
  MaxVolume = 1024
  MaxUpload = 100
  Nothing = nothing
  Shots = {1, 2, 3, 4, 5}
  Facts <- MCFacts
  Selections <- MCSelections
  Midnight = 200
  YearStart = 80
  MaxClock = 1
  MaxAdded = 1
  MaxJobs = 2
  Listed <- MCListed
  Late = {"n"}
  Assets = {"visual", "thumb", "doc"}
  Required = {"visual"}
  Has <- MCHas
  Foreign <- MCForeign
  Gone <- MCGone
  Size <- MCSize
  MaxBytes = 10
  MaxItems = 3
  Modes = {"seed", "reseed", "dry"}
  MaxRuns = 3
  MaxMishaps = 2
SYMMETRY Symmetric
INVARIANTS
  WholeFile
  TrackedToTheEnd
  OneWholeFile
  NeverEmptyHanded
  ConversionHolds
  ItemDescribesFiles
  PicturesAgree
  SeedIsWhole
  RunsFillWindow
PROPERTIES
  InputStays
  SeedKeepsAssets
CHECK_DEADLOCK FALSE
