SPECIFICATION Spec
CONSTANTS
  MaxHosts = 2
  MaxDrives = 2
  ManyHosts = 2
  ManyLuns = 4
  Specs <- MCSpecs
  NumDrives = {0, 2}
  Callers = {c1, c2}
  Calls = {"set", "resize"}
  Served = {1}
  Workers = 1
  SerialFull = {FALSE}
  NoScan = {FALSE}
  AllowHotGeom = {TRUE}
  Writes <- WritesOfRebuild
  RequireNoSdevs = TRUE
  Faults = {"add_host", "device", "misc"}
INVARIANTS TypeOK QuietBeforeUnregister CommandsSeeChanger HostsMatch
PROPERTY PublishedIsLive
SYMMETRY CallerSymmetry
