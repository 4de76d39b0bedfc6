\* Two shops, a third to come; an administrator, a creator and another member.
SPECIFICATION Spec
CONSTANTS
  admin = admin
  creator = creator
  other = other
  Users = {admin, creator, other}
  Admins = {admin}
  Shops = {1, 2, 3}
  Burgers = {1, 2, 3}
  Reviews = {1, 2, 3}
  Names = {0, 1, 2}
  Ratings = {5, 6}
  SeedShop <- MCSeedShop
  SeedBurger <- MCSeedBurger
  SeedSold <- MCSeedSold
  SeedReview <- MCSeedReview
  SeedVia <- MCSeedVia
  Averages <- MCAverages
  PerPages = {0, 2}
  Requests = {r1, r2}
  MaxRequests = 3
  MaxFaults = 1
  None = None
INVARIANTS
  TypeOK
  StatusExplained
  PostedWhereAllowed
  ShownIsVisible
PROPERTIES
  NothingUndone
SYMMETRY Symmetry
CHECK_DEADLOCK FALSE
