SPECIFICATION CatalogSpec
CONSTANTS
  i1 = i1
  i2 = i2
  n1 = n1
  n2 = n2
  p1 = p1
  p2 = p2
  r1 = r1
  r2 = r2
  v1 = v1
  v2 = v2
  v3 = v3
  None = None
  NoValue = NoValue
  Ids = {i1, i2}
  Banks = {b1}
  Names = {n1, n2}
  Products = {q1}
  Proofs = {p1, p2}
  Reqs = {r1, r2}
  Values = {v1, v2, v3}
  Readers = {c1}
  Least = 2
  MaxVersion = 2
  Worlds = {{"retype"}}
  Sides = {"programs"}
SYMMETRY Symmetry
CONSTRAINT Small
CHECK_DEADLOCK FALSE
INVARIANTS
  QuotesItsProof
