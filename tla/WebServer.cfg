SPECIFICATION Spec
CONSTANTS
  Web = {w1, w2}
  Cli = {c1}
  Online = {l1}
  Offline = offline
  Root = root
  Orphans = orphans
  MaxName = 2
  UserShelf = {s1}
  Unused = unused
  Slot = {t1}
  MaxTapes = 2
  MaxBatch = 2
  LogDir = {d1, d2}
  Password = {pw0, pw1}
  DEFAULT_WEB_PASSWORD = pw0
  DEFAULT_INIT_LOG_DIR = d1
  MaxCaptchas = 2
  MaxOps = 3
CONSTRAINTS TwoAtATime Apart
SYMMETRY Symmetry
INVARIANTS TypeOK ImagesKept LoadsOwnImage AuthKept ConfigFresh SessionsEarned
CHECK_DEADLOCK FALSE
