SPECIFICATION Spec
CONSTANTS
  v1 = v1
  v2 = v2
  u1 = u1
  u2 = u2
  p1 = p1
  p2 = p2
  p3 = p3
  Procs <- OneRequest
  Vacancies <- OneVacancy
  Users <- TwoUsers
  SlotChoices <- OneToTwo
  MaxActive = 1
  Ops <- AllOps
  Failures = FALSE
  StalePages = FALSE
  Deletable <- TwoUsers
PROPERTY ImplementsBoard
