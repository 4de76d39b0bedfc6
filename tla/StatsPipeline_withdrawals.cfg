\* Two users with reviews on two burgers of one shop; nobody posts while
\* withdrawing.
SPECIFICATION Spec
CONSTANTS
  u1 = u1
  u2 = u2
  r1 = r1
  r2 = r2
  r3 = r3
  r4 = r4
  b1 = b1
  b2 = b2
  s1 = s1
  Reviews = {r1, r2, r3, r4}
  Users = {u1, u2}
  Burgers = {b1, b2}
  Shops = {s1}
  Ratings = {q1}
  Handlers = {h1, h2}
  Workers = {w1, w2}
  Posted = {r1, r2, r3, r4}
  Author <- MCAuthor
  BurgerOf <- MCBurgerOf
  ShopsOf <- MCShopsOf
  Rank <- MCRank
  Batch = 2
  MaxAttempts = 2
  Overlap = {}
  MaxOps = 2
  MaxFaults = 0
  None = None
INVARIANTS
  
  NoDeadlock

  
SYMMETRY Symmetry
