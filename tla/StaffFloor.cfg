SPECIFICATION Spec
CONSTANTS
  Users = {u1, u2}
  Tokens = {t1, t2}
  Reqs = {r1, r2}
  u1 = u1
  u2 = u2
  t1 = t1
  t2 = t2
  r1 = r1
  r2 = r2
  NoUser = NoUser
  NoToken = NoToken
  Ops = {"login", "create", "update", "access-expires", "token-expires", "crash"}
  Patches <- NamePatches
  Seeds = {u1}
  Hashes = {h1}
  h1 = h1
SYMMETRY Symmetry
INVARIANTS
  SuperAdminFloor
\* A finite supply of tokens and password changes runs out.
CHECK_DEADLOCK FALSE
