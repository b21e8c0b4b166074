SPECIFICATION Spec
CONSTANTS
  v1 = v1
  v2 = v2
  u1 = u1
  u2 = u2
  p1 = p1
  p2 = p2
  p3 = p3
  Procs <- ThreeRequests
  Vacancies <- OneVacancy
  Users <- OneUser
  SlotChoices <- JustOne
  MaxActive = 1
  Ops <- NoCancelOps
  Failures = TRUE
  StalePages = FALSE
  Deletable <- OneUser
SYMMETRY Symmetric
INVARIANT ApplyWritesFirst
