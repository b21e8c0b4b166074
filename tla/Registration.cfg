SPECIFICATION FairSpec
CONSTANTS
  r1 = r1
  moscow = moscow
  kazan = kazan
  Requests <- OneRequest
  Cities <- TwoCities
  Kinds <- AllKinds
  MaxDeletions = 1
  MaxFailures = 1
CHECK_DEADLOCK FALSE
INVARIANT TypeOK
INVARIANT RegisteredIsListed
INVARIANT KnowsCity
PROPERTY PatientGetsListed
