CONSTANTS
  MaxId = 1
  Joiners <- HostJoins
SPECIFICATION Spec
PROPERTY JoinReturnsEntryError
