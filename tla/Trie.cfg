SPECIFICATION Spec
CONSTANTS
  va = va
  vb = vb
  nil = nil
  Keys <- MCKeys
  Values = {va, vb}
  ValuesOf <- MCValuesOf
  Nil = nil
  ValueLen <- MCValueLen
  HashLen = 21
  MaxOps = 4
  MaxVersions = 3
INVARIANTS TypeOK VersionsPersist RootIsCanonical VersionsStored
CHECK_DEADLOCK FALSE
