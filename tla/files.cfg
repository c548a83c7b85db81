SPECIFICATION Spec
CONSTANTS
  Worker = {w1, w2}
  MaxEdits = 4
SYMMETRY Symmetry
INVARIANT SavedTogether
INVARIANT NothingLeftBehind
INVARIANT ChangesCommitted
