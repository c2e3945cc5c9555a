SPECIFICATION TranslationSpec
CONSTANTS
  ByteBits = 1
  VectorFile = 4
  GranuleSize = 16
  MaxOperations = 64
  Loadable <- MCLoadable
  Storable <- MCStorable
  TranslationJobs <- MCBitSelects
CHECK_DEADLOCK FALSE
INVARIANT BitSelectArchitectural
