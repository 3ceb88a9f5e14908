SPECIFICATION Spec
CONSTANTS
  Library = {l1, l2, l3}
  NoLib = NoLib
  Gone = Gone
  MaxHosts = 2
  Full = 2
  Confs <- MCConfs
  Proc = {p1, p2}
  MaxOps = 4
SYMMETRY Symmetry
INVARIANTS TypeOK LibrariesFit SyncedMatches PulledAgrees OwnHost RecordsHaveTargets
PROPERTY NotUnderExport
CHECK_DEADLOCK FALSE
