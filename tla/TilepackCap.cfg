SPECIFICATION Spec
CONSTANTS
  Clients = {c1, c2}
  Variants = {"pmtiles", "mbtiles"}
  MaxJobs = 1
  MaxFaults = 0
  Loses = FALSE
INVARIANT JobsCapped
CHECK_DEADLOCK FALSE
