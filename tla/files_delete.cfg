SPECIFICATION Spec
CONSTANTS
  Worker = {w1}
  MaxEdits = 2
INVARIANT DeletionServed
