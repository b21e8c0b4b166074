SPECIFICATION FairSpec
CONSTANTS
  v1 = v1
  v2 = v2
  u1 = u1
  u2 = u2
  u3 = u3
  Vacancies <- OneVacancy
  Users <- ThreeUsers
  SlotChoices <- OneToTwo
  MaxActive = 1
  StalePages = TRUE
  Deletable <- ThreeUsers
INVARIANT TypeOK
INVARIANT ActiveIndex
INVARIANT FilledSettled
INVARIANT OverbookingBounded
INVARIANT SlotsCoverAccepted
PROPERTY AcceptedKept
PROPERTY StartedLeavesBoard
INVARIANT ListedHaveRecords
