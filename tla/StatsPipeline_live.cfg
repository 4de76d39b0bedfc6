\* Two handlers, two workers, one burger, two writes, two failures; fair.
SPECIFICATION FairSpec
CONSTANTS
  u1 = u1
  u2 = u2
  r1 = r1
  r2 = r2
  r3 = r3
  r4 = r4
  b1 = b1
  b2 = b2
  s1 = s1
  Reviews = {r1, r2}
  Users = {u1, u2}
  Burgers = {b1}
  Shops = {}
  Ratings = {q1}
  Handlers = {h1, h2}
  Workers = {w1, w2}
  Posted = {r1}
  Author <- MCAuthor
  BurgerOf <- MCBurgerOf
  ShopsOf <- MCShopsOf
  Rank <- MCRank
  Batch = 1
  MaxAttempts = 2
  Overlap = {u1}
  MaxOps = 2
  MaxFaults = 2
  None = None
INVARIANTS
  TypeOK
PROPERTIES
  ChangeIsAnnounced
  
  NoRequestStarves
