SPECIFICATION Spec
CONSTANTS
  Phones = {p1, p2}
  p1 = p1
  p2 = p2
  Customers = {c1, c2}
  c1 = c1
  c2 = c2
  Otps = {o1, o2}
  o1 = o1
  o2 = o2
  Vmts = {v1, v2}
  v1 = v1
  v2 = v2
  Reqs = {r1, r2}
  r1 = r1
  r2 = r2
  Purposes = {"SIGNUP", "PROFILE_MOBILE", "FORGOT_PASSWORD"}
  MaxAttempts = 2
  NoPhone = NoPhone
  NoCustomer = NoCustomer
SYMMETRY Symmetry
INVARIANTS
  PhonesAreVerified
  SpentTokenMadeAccount
  GuessesBounded
  IInv
\* A finite supply of challenges and tokens runs out.
CHECK_DEADLOCK FALSE
