CONSTANTS
  c1 = c1
  c2 = c2
  c3 = c3
  v1 = v1
  v2 = v2
  v3 = v3
  NoVersion = NoVersion
  Calls = {c1}
  Versions = {v1}
  EnvVersion = NoVersion
  DefaultVersion = v1
  Supported = {c1}
  Asset <- MCAsset
  InterruptAt = {}
SPECIFICATION Spec
INVARIANT FailuresAreConduitErrors
CHECK_DEADLOCK FALSE
