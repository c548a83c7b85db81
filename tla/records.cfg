SPECIFICATION Spec
CONSTANTS
  Worker = {w1, w2}
  NodeId = {n1, n2}
  Host = {h1, h2}
  NoHost = nohost
  Step = {"00a", "00b", "08a"}
SYMMETRY Symmetry
 
INVARIANT StepsInOrder
