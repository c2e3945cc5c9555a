CONSTANTS
  t1 = t1
  t2 = t2
  Threads = {t1, t2}
  MaxAddr = 4
  GranuleSize = 2
  Widths = {1, 2}
  VectorWidth = 2
  Byte = {0, 1}
  Regions <- MCRegions
  InitialBytes <- MCInitialBytes
  Orders = {"Relaxed", "Undecodable"}
  HostBytes = {0}
  MaxGeneration = 2
SPECIFICATION Spec
SYMMETRY Symmetry
INVARIANT ReservationSound
PROPERTY ExclusivePairAtomic
PROPERTY ExclusiveStoreUninterrupted
PROPERTY StaleStaysStale
