SPECIFICATION SyncSpec
CONSTANTS
  Legacy = {"e1", "e2", "e3"}
  Provided = {"p1", "p2"}
  Items = {"i1", "i2", "i3", "q1"}
  TargetId <- MCTarget
  AtFirst <- MCAtFirst
  Events <- MCEvents
  Unparsed = {}
  Unbuildable = {"e2"}
  Early = {}
  Undated = {}
  PageSize = 2
  Runs = {r1, r2}
  MaxChanges = 2
  NoEntry = "none"
SYMMETRY JobSymmetry
PROPERTY AssetsSurvive
CHECK_DEADLOCK FALSE
