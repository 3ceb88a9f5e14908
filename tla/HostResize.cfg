SPECIFICATION Spec
CONSTANTS
  MaxHosts = 2
  MaxDrives = 2
  ManyHosts = 3
  ManyLuns = 48
  Specs <- SpecsUpTo2
  NumDrives = {}
  Callers = {c1}
  Calls = {"resize"}
  Served = {1, 2}
  Workers = 2
  SerialFull = {TRUE}
  NoScan = {TRUE}
  AllowHotGeom = {FALSE}
  Writes <- NoWrites
  RequireNoSdevs = TRUE
  Faults = {}
INVARIANT ScanDoneWhenOver
