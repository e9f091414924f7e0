SPECIFICATION Spec
CONSTANTS
  S = S
  M = M
  C = C
  D = D
  N = N
  Q = Q
  R = R
  P = P
  k1 = k1
  v0 = v0
  v1 = v1
  code0 = code0
  code1 = code1
  code2 = code2
  code3 = code3
  none = none
  nomsg = nomsg
  create = create
  Addrs = {S, M, C, D}
  Keys <- MCKeys
  Vals <- MCVals
  Zero = v0
  Codes <- MCCodes
  EmptyCode = code0
  Unset = none
  NoAccount = none
  NoObject = none
  Word = 16777216
  Forks <- Frontier
  Base <- MCBase
  Transactions <- MintTxs
  Coinbase = M
  GasLimit = 200000
  MaxCallDepth = 1
  CodeSize <- MCCodeSize
  Precompiles <- MCPrecompiles
  CreateAddress <- MCCreateAddress
  CreateAddress2 <- MCCreateAddress2
  Creation = create
  NoMsg = nomsg
  Targets = {D}
  CallGas = {16777215}
  CallValues = {0}
  InitCodes = {}
  Computing = {3000}
  MaxTxs = 1
  MaxSteps = 3
INVARIANTS GasNeverMinted
CHECK_DEADLOCK FALSE
