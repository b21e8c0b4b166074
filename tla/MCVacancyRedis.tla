--------------------------- MODULE MCVacancyRedis ---------------------------
(* Instances of VacancyRedis for TLC. *)
EXTENDS VacancyRedis

CONSTANTS v1, v2, u1, u2, p1, p2, p3

OneVacancy == {v1}
TwoVacancies == {v1, v2}
OneUser == {u1}
TwoUsers == {u1, u2}
OneRequest == {p1}
TwoRequests == {p1, p2}
ThreeRequests == {p1, p2, p3}
Nobody == {}

OneToTwo == 1 .. 2
JustOne == {1}
JustTwo == {2}

AllOps == {"create", "apply", "accept", "reject", "cancel", "close", "expire", "myjobs", "delete"}
SeatOps == AllOps \ {"expire", "delete", "myjobs"}
AcceptOps == {"create", "apply", "accept"}
NoCancelOps == AllOps \ {"cancel"}

(* Requests, users and vacancies are interchangeable. *)
Symmetric == Permutations(Procs) \cup Permutations(Users) \cup Permutations(Vacancies)
=============================================================================
