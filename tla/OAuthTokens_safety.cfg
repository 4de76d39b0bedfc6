\* One user and two apps, two grants, two codes, two requests at a time.
SPECIFICATION Spec
CONSTANTS
  read = read
  write = write
  get_shop = get_shop
  create_review = create_review
  Users = {u1}
  Apps = {a1, a2}
  Scopes = {read, write}
  DefaultScopes = {read}
  Tools = {get_shop, create_review}
  ToolScopes <- MCToolScopes
  Grants = {i1, i2}
  Families = {f1, f2}
  Requests = {r1, r2}
  MaxGen = 3
  MaxRequests = 4
  MaxFaults = 1
  None = None
INVARIANTS
  TypeOK
  UsedOnce
  
PROPERTIES
  FamilyKept
SYMMETRY Symmetry
CHECK_DEADLOCK FALSE
