CONSTANTS
  t1 = t1
  t2 = t2
  t3 = t3
  Threads = {t1, t2, t3}
  Workers = {t1, t2}
  MaxAddr = 4
  GranuleSize = 4
  Widths = {1, 2}
  VectorWidth = 2
  Byte = {0, 1}
  Regions <- MCRegions
  InitialBytes <- MCInitialBytes
  Orders = {"Relaxed"}
  HostBytes = {}
  MaxGeneration = 8
  Cell = 0
  CellWidth = 2
  Rounds = 3
  Noise = 2
SPECIFICATION IFairSpec
PROPERTY ImplementsCounter
PROPERTY EveryIncrementLands
PROPERTY LossMeansProgress
