\* A registered user and two people to come, two flows, two codes.
SPECIFICATION Spec
CONSTANTS
  u1 = u1
  m1 = m1
  Users = {u1, u2, u3}
  Subjects = {g1, g2}
  Mails = {m1, m2}
  Browsers = {b1, b2}
  Flows = {f1, f2}
  Codes = {c1, c2}
  Requests = {r1, r2}
  Registered = {u1}
  MailOf <- MCMailOf
  PoolSize = 2
  MaxRequests = 3
  MaxFaults = 1
  None = None
INVARIANTS
  TypeOK
  WayIn
  SessionProved
  RedeemedOnce
  
  
PROPERTIES
  CodeKept
  LoserSignsIn
  LinksGoAlong
SYMMETRY Symmetry
CHECK_DEADLOCK FALSE
