SPECIFICATION Spec
CONSTANTS
  Worker = {w1, w2}
  Project = {p1, p2}
  Target = {t1, t2}
  Login = {l1}
  Nobody = nobody
  MaxKeys = 2
SYMMETRY Symmetry
INVARIANT TypeOK
INVARIANT TokensReadable
INVARIANT PasswordBelongs
PROPERTY SentWhereMeant
