SPECIFICATION Spec
CONSTANTS
  Apps = {a1, a2}
  a1 = a1
  a2 = a2
  Offers = {o1, o2}
  o1 = o1
  o2 = o2
  Keys = {k1}
  k1 = k1
  Bodies = {b1}
  b1 = b1
  Reqs = {r1, r2}
  r1 = r1
  r2 = r2
  Leads = {new, l1}
  new = new
  l1 = l1
  Limit = 2
  NoApp = NoApp
  NoOffer = NoOffer
  NoKey = NoKey
  NewLead = new
SYMMETRY Symmetry
INVARIANTS
  AnswersAgree
  IInv
PROPERTIES
  OfferChosenOnce
\* A finite supply of rows runs out.
CHECK_DEADLOCK FALSE
