SPECIFICATION Spec
CONSTANTS
  u1 = u1
  u2 = u2
  r1 = r1
  r2 = r2
  r3 = r3
  r4 = r4
  b1 = b1
  b2 = b2
  s1 = s1
  Reviews = {r1, r3}
  Users = {u1, u2}
  Burgers = {b1, b2}
  Shops = {}
  Ratings = {q1}
  Handlers = {h1, h2}
  Workers = {w1}
  Posted = {r1}
  Author <- MCAuthor
  BurgerOf <- MCBurgerOf
  ShopsOf <- MCShopsOf
  Rank <- MCRank
  Batch = 2
  MaxAttempts = 2
  Overlap = {u1}
  MaxOps = 3
  MaxFaults = 0
  None = None
INVARIANTS
  WithdrawnNotCounted
SYMMETRY Symmetry
