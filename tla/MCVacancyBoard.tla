--------------------------- MODULE MCVacancyBoard ---------------------------
(* Instances of VacancyBoard for TLC. *)
EXTENDS VacancyBoard, TLC

CONSTANTS v1, v2, u1, u2, u3

OneVacancy == {v1}
TwoVacancies == {v1, v2}
OneUser == {u1}
TwoUsers == {u1, u2}
ThreeUsers == {u1, u2, u3}
Nobody == {}

OneToTwo == 1 .. 2
JustOne == {1}

(* Users, and vacancies, are interchangeable in Init and Next. *)
Symmetric == Permutations(Vacancies) \cup Permutations(Users)
=============================================================================
