SPECIFICATION Spec
CONSTANTS
  Users = {u1, u2}
  Tokens = {t1, t2, t3}
  Reqs = {r1, r2}
  u1 = u1
  u2 = u2
  t1 = t1
  t2 = t2
  t3 = t3
  r1 = r1
  r2 = r2
  NoUser = NoUser
  NoToken = NoToken
  Ops = {"login", "refresh", "reset"}
  Patches <- NoPatches
  Seeds = {}
  Hashes = {h1, h2}
  h1 = h1
  h2 = h2
SYMMETRY Symmetry
PROPERTIES
  PasswordChangeRevokesAll
\* A finite supply of tokens and password changes runs out.
CHECK_DEADLOCK FALSE
