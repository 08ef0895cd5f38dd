CONSTANTS
  Absent = Absent
  Deleted = Deleted
  NoUser = NoUser
  NoAccount = NoAccount
  u1 = u1
  u2 = u2
  u3 = u3
  User = {u1, u2, u3}
  Root = {u1}
  Shielded = {}
  Founders = {u2}
  Client = {c1, c2}
  MaxVersion = 3
SPECIFICATION SliceSpec
SYMMETRY Interchangeable
INVARIANTS
  UserInv
PROPERTIES
  LastAdminStays
  RevokedForGood
  ChangeRevokes
CHECK_DEADLOCK FALSE
