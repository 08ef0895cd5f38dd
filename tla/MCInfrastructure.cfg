CONSTANTS
  None = None
  Gone = Gone
  login = login
  kube = kube
  Client = {c1, c2}
  Credential = {login, kube}
  TypeOf <- TypesOfCredentials
  Server = {s1, s2, s3}
  Cluster = {k1}
  Target = {t1}
SPECIFICATION SliceSpec
SYMMETRY Interchangeable
INVARIANTS
  InfrastructureInv
  CredentialLostInFlight
  TargetIsDeployable
PROPERTIES
  GatewayLostInFlight
