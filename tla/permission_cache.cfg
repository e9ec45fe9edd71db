\* two roles, a check of the cache and two changes at a time
CONSTANTS
  k1 = k1  u1 = u1  u2 = u2
  MatrixRoles = {"hr", "top_management"}
  Catalog <- SmallCatalog
  InitMatrix <- Seeded
  Checks = {k1}
  Updates = {u1, u2}
  NoEntry = NoEntry
  NoCheck = NoCheck
  NoUpdate = NoUpdate
  MaxChanges = 2
SPECIFICATION FairSpec
INVARIANTS
  TypeOK
  AuditExplainsMatrix
  CopiesWereInForce
PROPERTY CacheCatchesUp
