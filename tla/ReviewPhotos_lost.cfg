SPECIFICATION Spec
CONSTANTS
  r1 = r1
  r2 = r2
  Reviews = {r1, r2}
  Handlers = {h1, h2}
  Keys = {k1, k2, k3}
  NewerThan <- MCNewerThan
  MaxFaults = 1
  None = None
INVARIANTS
  NeverBroken
SYMMETRY Symmetry
CHECK_DEADLOCK FALSE
