SPECIFICATION Spec
CONSTANTS
  Node = {n1, n2}
  Worker = {w1}
  Inventory = {i1}
  Deleted = deleted
  Standby = standby
  Action = {"status", "stop", "standby"}
  Kind = {"delete", "setup"}
  DbFaults = TRUE
  MaxJobs = 2
  StartDelay = 1
  JOB_BUDGET = 2
  STALE_AFTER = 3
  Margin = 1
  Grace = 1
  CommandLimit = 1
  KillAfter = 0
  OpenLimit = 1
SYMMETRY Symmetry
INVARIANT TypeOK
INVARIANT PassMeansQuiet
PROPERTY PassMeansAchieved
PROPERTY LostMeansUnknown
PROPERTY KeepsPromise
