SPECIFICATION Spec
CONSTANTS
  Node = {n1, n2}
  Worker = {w1, w2}
  Nobody = nobody
  MaxKeys = 2
  MaxRemote = 1
SYMMETRY Symmetry
INVARIANT ReplacementReady
PROPERTY ActiveAccepted
PROPERTY DeletedAfterRevocation
PROPERTY NoKeyOverwritten
