SPECIFICATION Spec
CONSTANTS
  Passwords = {w1, w2}
  w1 = w1
  w2 = w2
  Tokens = {t1, t2, t3}
  t1 = t1
  t2 = t2
  t3 = t3
  Resets = {p1}
  p1 = p1
  Reqs = {r1, r2}
  r1 = r1
  r2 = r2
  Ops = {"login", "refresh", "logout", "change", "expire", "crash", "activate"}
  NoToken = NoToken
  NoReset = NoReset
SYMMETRY Symmetry
INVARIANTS
  RotationIsLinear
  IInv
PROPERTIES
  SessionsNeverResume
\* A finite supply of tokens runs out.
CHECK_DEADLOCK FALSE
