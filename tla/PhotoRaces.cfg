SPECIFICATION Spec
CONSTANTS
  Keys = {k1, k2, k3, k4}
  k1 = k1
  k2 = k2
  k3 = k3
  k4 = k4
  Reqs = {r1, r2, r3}
  r1 = r1
  r2 = r2
  r3 = r3
  NoKey = NoKey
  Retries = FALSE
SYMMETRY Symmetry
INVARIANTS
  PhotoIsPresent
  IInv
\* A finite supply of keys runs out.
CHECK_DEADLOCK FALSE
