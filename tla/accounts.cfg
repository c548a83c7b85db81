SPECIFICATION Spec
CONSTANTS
  Worker = {w1, w2}
  Browser = {b1, b2}
  Account = {root, a1, a2}
  Root = root
  Nobody = nobody
SYMMETRY Symmetry
INVARIANT AdminRemains
INVARIANT InitialBlocked
PROPERTY BootstrapOnce
