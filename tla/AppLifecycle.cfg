SPECIFICATION FairSpec
CONSTANTS
  u1 = u1
  u2 = u2
  Updates <- TwoUpdates
  MaxBoots = 2
  MaxFailures = 2
CHECK_DEADLOCK FALSE
INVARIANT TypeOK
INVARIANT CleanExit
INVARIANT RequestsKeepResources
PROPERTY ShutdownEnds
PROPERTY UpdatesHandled
