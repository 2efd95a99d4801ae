CONSTANTS
  c1 = c1
  c2 = c2
  c3 = c3
  v1 = v1
  v2 = v2
  v3 = v3
  NoVersion = NoVersion
  Calls = {c1, c2, c3}
  Versions = {v1, v2, v3}
  EnvVersion = v2
  DefaultVersion = v1
  Supported = {c1, c2}
  Asset <- MCAsset
  InterruptAt = {"archive", "handover", "write", "replace", "cleanup"}
SPECIFICATION Spec
INVARIANTS TypeOK CacheWhole ReturnsInstalled
PROPERTIES CacheStable TempRemoved ImplementsCache EveryCallEnds
CHECK_DEADLOCK FALSE
