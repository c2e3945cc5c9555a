CONSTANTS
  m1 = m1
  Memories = {m1}
  MaxAddr = 4
  MaxRegionSize = 3
  MaxTotal = 4
  MaxRegions = 3
  Images <- MCImages
  MaxDomains = 3
SPECIFICATION Spec
INVARIANT MappingsDisjoint
INVARIANT NeighboursSuffice
INVARIANT AccountingExact
INVARIANT HeldTokenReleasable
INVARIANT NoPartialImage
PROPERTY ImplementsAddressSpace
