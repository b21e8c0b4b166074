SPECIFICATION Spec
CONSTANTS
  v1 = v1
  v2 = v2
  u1 = u1
  u2 = u2
  p1 = p1
  p2 = p2
  p3 = p3
  Procs <- TwoRequests
  Vacancies <- OneVacancy
  Users <- OneUser
  SlotChoices <- JustTwo
  MaxActive = 1
  Ops <- SeatOps
  Failures = TRUE
  StalePages = TRUE
  Deletable <- Nobody
SYMMETRY Symmetric
INVARIANT TypeOK
INVARIANT OverbookingBounded
INVARIANT ApplyMutex
