SPECIFICATION TailSpec
CONSTANTS
  CodeSize = 8
  Programs <- TailPrograms
  Limits <- MCLimits
  Ranges <- MCRanges
  Jobs <- MCTailJobs
  MaxFunctions = 8
  MaxInstructions = 99
  MaxPasses = 2
  Declared = {}
  RequireEvidence = FALSE
  MaxBatch = 1
  MaxRefinements = 1
  Radix = 6
  MaxEntries = 20
  MaxTable = 4
  MaxImage = 40
  ImageJobs <- MCImageJobs
  ByteBits = 1
  VectorFile = 4
  GranuleSize = 16
  MaxOperations = 64
  Loadable <- MCLoadable
  Storable <- MCStorable
  TranslationJobs <- MCJobs
  LastAddress = 255
  Pages <- MCPages
  ImportNames = {f, g}
  Signatures <- MCSignatures
  StackPointers <- MCStackPointers
  TlsModules <- MCTlsModules
  MaxTls = 2
  Compiled <- MCCompiled
CHECK_DEADLOCK FALSE
PROPERTY FailureKeepsMap
