SPECIFICATION FairSpec
CONSTANTS
  Clients = {c1, c2}
  Variants = {"pmtiles"}
  MaxJobs = 1
  MaxFaults = 1
  Loses = TRUE
PROPERTY PollingEnds
CHECK_DEADLOCK FALSE
