SPECIFICATION Spec
CONSTANTS
  Node = {n1}
  Worker = {w1}
  Inventory = {i1}
  Deleted = deleted
  Standby = standby
  Action = {"status", "stop"}
  Kind = {"edit"}
  DbFaults = FALSE
  MaxJobs = 2
  StartDelay = 1
  JOB_BUDGET = 3
  STALE_AFTER = 5
  Margin = 1
  Grace = 1
  CommandLimit = 1
  KillAfter = 0
  OpenLimit = 1
INVARIANT CertainMeansQuiet
