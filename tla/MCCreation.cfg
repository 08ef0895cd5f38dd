CONSTANTS
  line = line
  c1 = c1
  t1 = t1
  NoRelease = NoRelease
  NoVersion = NoVersion
  NoKey = NoKey
  NoTarget = NoTarget
  NoCreator = NoCreator
  Release = {r1, r2, r3}
  Client = {c1, c2}
  Target = {t1, t2}
  LineOf <- OneLine
  Version = {v1, v2, v3}
  Creator = {u1, u2}
  Key = {k1}
  Audited = {"rollback_requested", "release_retried"}
  Ending = {"success", "failed", "cancelled"}
SPECIFICATION SliceSpec
SYMMETRY Interchangeable
INVARIANTS
  CreationInv
  LinkedOnItsTarget
  RetryFollowsFailure
  AuditedRollbackIsLinked
PROPERTIES
  ImplementsIdempotentKeys
  RecommendedIsTheLast
