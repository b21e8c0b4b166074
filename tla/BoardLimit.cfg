SPECIFICATION Spec
CONSTANTS
  v1 = v1
  v2 = v2
  u1 = u1
  u2 = u2
  u3 = u3
  Vacancies <- TwoVacancies
  Users <- TwoUsers
  SlotChoices <- OneToTwo
  MaxActive = 1
  StalePages = FALSE
  Deletable <- Nobody
SYMMETRY Symmetric
INVARIANT LiveWithinLimit
