CONSTANTS
  c1 = c1
  c2 = c2
  Container = {c1, c2}
  Image = {i1, i2}
  Digest = {i1}
  Shared = {c1}
  Missing <- OneMissing
SPECIFICATION RolloutSpec
PROPERTIES
  FailureIsOfThisRollout
