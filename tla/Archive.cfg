SPECIFICATION Spec
CONSTANTS
  A = A
  B = B
  k1 = k1
  k2 = k2
  v0 = v0
  v1 = v1
  code0 = code0
  code1 = code1
  Addrs = {A, B}
  Keys = {k1, k2}
  Zero = v0
  Codes = {code0, code1}
  EmptyCode = code0
  AddrWalk <- MCAddrWalk
  KeyWalk <- MCKeyWalk
  EntrySets <- MCEntrySets
  CacheSize = 2
  MaxObjects <- MCMaxObjects
  MaxCrashes = 1
INVARIANTS TypeOK RootsComplete ReturnedIsStored SkippedIsStored
PROPERTIES CommitAppliesObjects
CHECK_DEADLOCK FALSE
