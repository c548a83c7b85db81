SPECIFICATION FairSpec
CONSTANTS
  Node = {n1}
  Worker = {w1, w2}
  Inventory = {i1, i2}
  Deleted = deleted
  Standby = standby
  Action = {"start", "unstandby"}
  Kind = {"edit"}
  DbFaults = TRUE
  MaxJobs = 1
  StartDelay = 2
  JOB_BUDGET = 6
  STALE_AFTER = 10
  Margin = 2
  Grace = 1
  CommandLimit = 4
  KillAfter = 1
  OpenLimit = 2
INVARIANT StaleMeansQuiet
PROPERTY ReservationReleased
PROPERTY ThreadEnds
PROPERTY KeepsPromise
