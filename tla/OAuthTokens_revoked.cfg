\* One user and one app, two requests at a time.
SPECIFICATION Spec
CONSTANTS
  read = read
  write = write
  get_shop = get_shop
  create_review = create_review
  Users = {u1}
  Apps = {a1}
  Scopes = {read, write}
  DefaultScopes = {read}
  Tools = {get_shop, create_review}
  ToolScopes <- MCToolScopes
  Grants = {i1, i2}
  Families = {f1, f2}
  Requests = {r1, r2}
  MaxGen = 2
  MaxRequests = 4
  MaxFaults = 1
  None = None
CHECK_DEADLOCK FALSE
INVARIANTS
  RevokedStaysRevoked
SYMMETRY Symmetry
