SPECIFICATION Spec
CONSTANTS
  v1 = v1
  v2 = v2
  u1 = u1
  u2 = u2
  u3 = u3
  Vacancies <- TwoVacancies
  Users <- OneUser
  SlotChoices <- JustOne
  MaxActive = 1
  StalePages = FALSE
  Deletable <- Nobody
INVARIANT RefusedOnlyAtLimit
