---------------------------- MODULE VacancyData ----------------------------
(***************************************************************************)
(* The records workbot keeps in Redis for vacancies and applications, and  *)
(* the pure computations its handlers make on a record between reading it  *)
(* and writing it back (internal/bots/modules/workbot/vacancy.go).  The    *)
(* serial model VacancyBoard and the command-level model VacancyRedis      *)
(* share these definitions.                                                *)
(*                                                                         *)
(* Abstractions: address, rate, hours, texts and AppliedAt are left out;   *)
(* a vacancy id and a Telegram user id are model values; the key formats   *)
(* are injective in them, so a key is the id (or the pair) itself.         *)
(***************************************************************************)
EXTENDS Integers, FiniteSets

CONSTANTS
  Vacancies,       \* the ids the sequence can hand out
  Users,           \* the Telegram users
  SlotChoices,     \* values of SlotsNeeded the operators enter
  MaxActive        \* MaxActiveApplicationsPerUser, 3 in the code

ASSUME SlotsAssumption == SlotChoices \subseteq Nat \ {0}  \* slotsNeeded < 1 is refused
ASSUME MaxAssumption == MaxActive \in Nat
ASSUME FiniteAssumption == IsFiniteSet(Vacancies)

Pairs == Vacancies \X Users

(* A vacancy record; the status "none" stands for a missing key. *)
Vacancy == [status : {"none", "active", "filled", "closed"}, needed : Nat, filled : Nat]
NoVacancy == [status |-> "none", needed |-> 0, filled |-> 0]
NewVacancy(n) == [status |-> "active", needed |-> n, filled |-> 0]
Missing(vac) == vac.status = "none"

(* An applicant record; "none" stands for a missing field of the hash. *)
Application == [status : {"none", "pending", "accepted", "rejected"}, count : Nat]
NoApplication == [status |-> "none", count |-> 0]
NewApplication(n) == [status |-> "pending", count |-> n]
WithStatus(app, s) == [app EXCEPT !.status = s]
Live(app) == app.status \in {"pending", "accepted"}

(* Apply: the number of places granted out of the number asked for, 0 when *)
(* none is left ("if count > available"; a negative rest counts as none).  *)
Granted(vac, asked) ==
  IF vac.filled >= vac.needed THEN 0
  ELSE IF asked > vac.needed - vac.filled THEN vac.needed - vac.filled ELSE asked

(* AcceptApplication: the vacancy after one more application is accepted.  *)
AfterAccept(vac, app) ==
  LET total == vac.filled + app.count
  IN  [vac EXCEPT !.filled = total,
                  !.status = IF total >= vac.needed THEN "filled" ELSE @]

AfterCancelUnclamped(vac, app) ==                                 \* mutant
  [vac EXCEPT !.filled = @ - app.count,
              !.status = IF @ = "closed" THEN "closed" ELSE "active"]

(* CancelApply: the vacancy after an accepted application is withdrawn.    *)
AfterCancel(vac, app) ==
  [vac EXCEPT !.filled = IF app.count > @ THEN 0 ELSE @ - app.count,
              !.status = IF @ = "closed" THEN "closed" ELSE "active"]

(* CloseVacancy *)
AfterClose(vac) == [vac EXCEPT !.status = "closed"]
=============================================================================
