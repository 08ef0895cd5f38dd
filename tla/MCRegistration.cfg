CONSTANTS
  NoEntry = NoEntry
  NoKey = NoKey
  NoHash = NoHash
  NoCall = NoCall
  Entry = {e1, e2}
  Client = {c1, c2}
  Service = {s1}
  Name = {n1, n2}
  Content = {a1, a2}
  Metadata = {m1, m2}
  Key = {k1, k2}
  Audited = {}
SPECIFICATION RegistrationSpec
SYMMETRY Interchangeable
INVARIANTS
  NumbersAndKeysAreUnique
  ConflictHasAReason
PROPERTIES
  ImplementsIdempotentNumbers
