CONSTANTS
  MaxId = 2
  Joiners <- AnyoneJoins
SPECIFICATION FairSpec
INVARIANT JoinedMeansReaped
INVARIANT DestructorSafe
PROPERTY LifecycleForward
PROPERTY JoinAllComplete
PROPERTY ErrorFinalOnceExited
PROPERTY CallsReturn
PROPERTY DestructionEnds
CHECK_DEADLOCK FALSE
