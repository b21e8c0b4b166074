SPECIFICATION FairSpec
CONSTANTS
  j1 = j1
  j2 = j2
  s1 = s1
  s2 = s2
  Jobs <- TwoJobs
  Stops <- TwoStops
  Buffer = 1
  MaxStarts = 2
CHECK_DEADLOCK FALSE
INVARIANT TypeOK
INVARIANT OnePlace
INVARIANT StoppedLoopIsOver
INVARIANT OverlapNeedsOpenStop
PROPERTY ImplementsService
PROPERTY StopTerminates
PROPERTY AcceptedIsSettled
