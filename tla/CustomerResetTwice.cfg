SPECIFICATION Spec
CONSTANTS
  Passwords = {w1, w2}
  w1 = w1
  w2 = w2
  Tokens = {t1, t2}
  t1 = t1
  t2 = t2
  Resets = {p1}
  p1 = p1
  Reqs = {r1, r2}
  r1 = r1
  r2 = r2
  Ops = {"login"}
  NoToken = NoToken
  NoReset = NoReset
SYMMETRY Symmetry
PROPERTIES
  ResetTokenIsSingleUse
\* A finite supply of tokens runs out.
CHECK_DEADLOCK FALSE
