CONSTANTS
  r1 = r1
  r2 = r2
  r3 = r3
  group = group
  single = single
  e1 = e1
  e2 = e2
  s1 = s1
  s2 = s2
  adm = adm
  usr = usr
  key = key
  NoRelease = NoRelease
  NoActor = NoActor
  Release = {r1, r3}
  Target = {group, single}
  Ref = {1, 2}
  Environment = {e1, e2}
  Service = {s1, s2}
  TargetOf <- GroupTargetOf
  EnvironmentOf <- EnvironmentPerTarget
  ServiceOf <- ServicePerTarget
  Memberships <- EditedMemberships
  Audited = {}
  Worker = {w1}
  Client = {c1}
  User = {adm, usr}
  ApiKey = {key}
  CreatorOf <- MixedCreators
  Production = {e1}
  StandingOf <- FirstStandings
  Reclassified = {e1}
  Reappointed = {adm, usr}
SPECIFICATION SliceSpec
INVARIANTS
  TargetExclusive
PROPERTIES
  ConfirmedByAuthority
  ImplementsLifecycle
