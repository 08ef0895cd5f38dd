CONSTANTS
  r1 = r1
  r2 = r2
  r3 = r3
  group = group
  single = single
  e1 = e1
  e2 = e2
  s1 = s1
  s2 = s2
  adm = adm
  usr = usr
  key = key
  NoRelease = NoRelease
  NoActor = NoActor
  Release = {r1, r2}
  Target = {group}
  Ref = {1, 2}
  Environment = {e1}
  Service = {s1}
  TargetOf <- GroupTargetOf
  EnvironmentOf <- OneEnvironment
  ServiceOf <- ServicePerTarget
  Memberships <- FixedMemberships
  Audited = {}
  Worker = {w1}
  Client = {c1}
  User = {adm}
  ApiKey = {}
  CreatorOf <- AllByAdmin
  Production = {}
  StandingOf <- FirstStandings
  Reclassified = {}
  Reappointed = {}
SPECIFICATION FairSpec
INVARIANTS
  WorkerOwnsDeploy
  StateReflectsTarget
  NewestConfirmedWins
PROPERTIES
  TerminalIsFinal
  LogsOnlyAdvance
  RunningEnds
  QueuedLeaves
