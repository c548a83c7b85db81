SPECIFICATION FairSpec
CONSTANTS
  MaxWrites = 3
INVARIANT NeverMixed
INVARIANT FailureUndone
INVARIANT NothingDestroyed
INVARIANT SuccessKeepsData
PROPERTY ServiceReturns
CHECK_DEADLOCK FALSE
