SPECIFICATION Spec
CONSTANTS
  A = A
  B = B
  k1 = k1
  v0 = v0
  v1 = v1
  v2 = v2
  code0 = code0
  code1 = code1
  none = none
  Addrs <- MCAddrs
  Keys <- MCKeys
  Vals <- MCVals
  Zero = v0
  Codes <- MCCodes
  EmptyCode = code0
  Unset = none
  NoAccount = none
  NoObject = none
  Word = 1048576
  Forks <- Istanbul
  InitBases <- MCBases
  Amounts = {1}
  Nonces = {0}
  TxsPerCommit = 2
  MaxOps = 5
INVARIANTS OriginalIsTxStart
CHECK_DEADLOCK FALSE
