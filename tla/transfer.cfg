SPECIFICATION Spec
CONSTANTS
  Worker = {w1, w2}
  Node = {n1, n2}
  Name = {x1, x2}
  Address = {a1, a2}
  Nothing = nothing
  MaxCount = 2
SYMMETRY Symmetry
INVARIANT NoConflict
 
PROPERTY ImportsAreExports
