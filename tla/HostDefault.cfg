SPECIFICATION FairSpec
CONSTANTS
  MaxHosts = 2
  MaxDrives = 2
  ManyHosts = 3
  ManyLuns = 48
  Specs <- Growing
  NumDrives = {}
  Callers = {c1, c2}
  Calls = {"set", "resize", "use"}
  Served = {}
  Workers = 2
  SerialFull = {TRUE}
  NoScan = {FALSE}
  AllowHotGeom = {FALSE}
  Writes <- WritesOfDefault
  RequireNoSdevs = TRUE
  Faults = {"add_host", "probe"}
INVARIANTS PointersLive OneHostComesUp
PROPERTIES HostComesUp UnloadEnds SetReturns
CONSTRAINT UsesWhenSafe
