SPECIFICATION Spec
CONSTANTS
  ByteBits = 2
  WordBytes = 7
  Int64Bits = 13
  StackSize = 8
  MemLimit = 7168
  QuadDivisor = 16
  GasRoot = 2048
  AddressSpan = 16
  NilValue = NilValue
  Full = TRUE
  MaxRuns = 2
  Programs <- MCPrograms
  Contracts <- MCContracts
  HostWord <- MCHostWord
  Keccak <- MCKeccak
  BlakeLen = 28
  Digest <- MCDigest
  Valid <- MCValid
INVARIANTS
  TypeOK
  MemoryPaid
  CleanBeyond
  NoForeignReturnData
PROPERTIES
  StackEffect
  PrecompiledAnswers
  JumpsLand
  Halts
CHECK_DEADLOCK FALSE
