---------------------------- MODULE VacancyBoard ----------------------------
(***************************************************************************)
(* What the vacancy board does when its requests come one at a time: each  *)
(* action is one whole request, from the webhook of the Telegram bot or    *)
(* from the operators' panel, with everything it writes to Redis.          *)
(* VacancyRedis splits the same requests into Redis commands.              *)
(*                                                                         *)
(* A request that returns early without writing (application already       *)
(* there, limit reached, vacancy full, record missing) is a stuttering     *)
(* step and has no action here.                                            *)
(***************************************************************************)
EXTENDS VacancyData, FiniteSetsExt

CONSTANTS
  StalePages,   \* TRUE: operators also post from a page loaded earlier
  Deletable     \* the workers an operator may delete

ASSUME StaleAssumption == StalePages \in BOOLEAN
ASSUME DeletableAssumption == Deletable \subseteq Users

VARIABLES
  vacancy,      \* workbot:vacancy:<id>
  applicants,   \* workbot:vacancy:<id>:applicants, one field per user
  userApps,     \* workbot:user:<id>:applications
  activeSet,    \* workbot:vacancies:active
  locks,        \* workbot:apply:lock:<id>:<user>, the keys not yet expired
  started       \* vacancies whose StartAt has passed

vars == <<vacancy, applicants, userApps, activeSet, locks, started>>

-----------------------------------------------------------------------------
Init ==
  /\ vacancy = [v \in Vacancies |-> NoVacancy]
  /\ applicants = [a \in Pairs |-> NoApplication]
  /\ userApps = [u \in Users |-> {}]
  /\ activeSet = {}
  /\ locks = {}
  /\ started = {}

Created(v) == ~Missing(vacancy[v])
HasRecord(v, u) == applicants[<<v, u>>] # NoApplication

(* INCR hands out an id nobody has used. *)
CreateVacancy(v) ==
  /\ ~Created(v)
  /\ \E n \in SlotChoices : vacancy' = [vacancy EXCEPT ![v] = NewVacancy(n)]
  /\ activeSet' = activeSet \cup {v}
  /\ UNCHANGED <<applicants, userApps, locks, started>>

AtMostLimit(apps) == Cardinality(apps) <= MaxActive              \* mutant
WithinLimit(apps) == Cardinality(apps) < MaxActive

(* The buttons of a message ask for 1..SlotsNeeded places and may be       *)
(* pressed long after it was sent; the status of the vacancy is not read.  *)
Apply(v, u) ==
  /\ Created(v)
  /\ ~HasRecord(v, u)
  /\ WithinLimit(userApps[u])
  /\ <<v, u>> \notin locks
  /\ locks' = locks \cup {<<v, u>>}
  /\ \E asked \in 1 .. vacancy[v].needed :
       LET n == Granted(vacancy[v], asked)
       IN  IF n = 0
           THEN UNCHANGED <<applicants, userApps>>
           ELSE /\ applicants' = [applicants EXCEPT ![<<v, u>>] = NewApplication(n)]
                /\ userApps' = [userApps EXCEPT ![u] = @ \cup {v}]
  /\ UNCHANGED <<vacancy, activeSet, started>>

(* The panel shows the accept and reject buttons beside pending            *)
(* applications only, whatever the status of the vacancy.                  *)
Offered(v, u) ==
  IF StalePages THEN HasRecord(v, u) ELSE applicants[<<v, u>>].status = "pending"

DisplacedNobody(v, u) == {}                                       \* mutant
DisplacedAll(v, u) == {w \in Users \ {u} : Live(applicants[<<v, w>>])}  \* mutant

(* The applications an accept displaces: everyone else still pending.      *)
Displaced(v, u) ==
  {w \in Users \ {u} : applicants[<<v, w>>].status = "pending"}

RoomUnchecked(vac) == TRUE                                        \* mutant
HasRoom(vac) == vac.filled < vac.needed

AcceptApplication(v, u) ==
  LET app == applicants[<<v, u>>]
      vac == AfterAccept(vacancy[v], app)
      out == IF vac.status = "filled" THEN Displaced(v, u) ELSE {}
  IN  /\ Offered(v, u)
      /\ app.status # "accepted"
      /\ HasRoom(vacancy[v])
      /\ vacancy' = [vacancy EXCEPT ![v] = vac]
      /\ applicants' = [a \in Pairs |->
           IF a = <<v, u>> THEN WithStatus(app, "accepted")
           ELSE IF a[1] = v /\ a[2] \in out THEN WithStatus(applicants[a], "rejected")
           ELSE applicants[a]]
      /\ userApps' = [w \in Users |->
           IF w \in out THEN userApps[w] \ {v} ELSE userApps[w]]
      /\ activeSet' = IF vac.status = "filled" THEN activeSet \ {v} ELSE activeSet
      /\ UNCHANGED <<locks, started>>

RejectReturningPlaces(v, u) ==                                    \* mutant
  /\ Offered(v, u)
  /\ applicants' = [applicants EXCEPT ![<<v, u>>] = WithStatus(@, "rejected")]
  /\ userApps' = [userApps EXCEPT ![u] = @ \ {v}]
  /\ vacancy' = [vacancy EXCEPT ![v].filled = @ - applicants[<<v, u>>].count]
  /\ UNCHANGED <<activeSet, locks, started>>

RejectApplication(v, u) ==
  /\ Offered(v, u)
  /\ applicants' = [applicants EXCEPT ![<<v, u>>] = WithStatus(@, "rejected")]
  /\ userApps' = [userApps EXCEPT ![u] = @ \ {v}]
  /\ UNCHANGED <<vacancy, activeSet, locks, started>>

RefilledFromAnyone(apps, records, u) ==                           \* mutant
  IF apps = {} THEN {v \in Vacancies : \E w \in Users : records[<<v, w>>] # NoApplication}
  ELSE apps

(* GetUserApplicationVacancies: an empty set of the user is refilled from  *)
(* the applicants of all vacancies.                                        *)
Refilled(apps, records, u) ==
  IF apps = {} THEN {v \in Vacancies : records[<<v, u>>] # NoApplication} ELSE apps

HoldsOrAwaitsPlaces(app) == Live(app)                             \* mutant
HoldsPlaces(app) == app.status = "accepted"

IndexUntouched(v, old, new) == activeSet                          \* mutant
IndexAfterCancel(v, old, new) ==
  IF old.status = "filled" /\ new.status = "active" THEN activeSet \cup {v} ELSE activeSet

(* handleCancelMyJob: CancelApply, then the list of the remaining jobs.    *)
CancelMyJob(v, u) ==
  LET app == applicants[<<v, u>>]
      vac == AfterCancel(vacancy[v], app)
  IN  /\ HasRecord(v, u)
      /\ applicants' = [applicants EXCEPT ![<<v, u>>] = NoApplication]
      /\ userApps' = [userApps EXCEPT ![u] = Refilled(@ \ {v}, applicants', u)]
      /\ IF HoldsPlaces(app)
         THEN /\ vacancy' = [vacancy EXCEPT ![v] = vac]
              /\ activeSet' = IndexAfterCancel(v, vacancy[v], vac)
         ELSE UNCHANGED <<vacancy, activeSet>>
      /\ UNCHANGED <<locks, started>>

CloseVacancy(v) ==
  /\ Created(v)
  /\ vacancy' = [vacancy EXCEPT ![v] = AfterClose(@)]
  /\ activeSet' = activeSet \ {v}
  /\ UNCHANGED <<applicants, userApps, locks, started>>

ExpiredUntouched == {v \in started : vacancy[v].status = "active" /\ vacancy[v].filled = 0}  \* mutant

(* One tick of the expirer closes every active vacancy that has started.   *)
Expired == {v \in started : vacancy[v].status = "active"}

ExpireVacancies ==
  /\ Expired # {}
  /\ vacancy' = [v \in Vacancies |->
       IF v \in Expired THEN AfterClose(vacancy[v]) ELSE vacancy[v]]
  /\ activeSet' = activeSet \ Expired
  /\ UNCHANGED <<applicants, userApps, locks, started>>

(* /myjobs and the vacancy list of the bot. *)
ListApplications(u) ==
  /\ userApps' = [userApps EXCEPT ![u] = Refilled(@, applicants, u)]
  /\ UNCHANGED <<vacancy, applicants, activeSet, locks, started>>

(* The panel counts the active applications of everyone who applied to v.  *)
VacancyDetail(v) ==
  /\ userApps' = [u \in Users |->
       IF HasRecord(v, u) THEN Refilled(userApps[u], applicants, u) ELSE userApps[u]]
  /\ UNCHANGED <<vacancy, applicants, activeSet, locks, started>>

(* The applicant records of a deleted worker stay in the vacancies. *)
DeleteWorker(u) ==
  /\ u \in Deletable
  /\ userApps' = [userApps EXCEPT ![u] = {}]
  /\ UNCHANGED <<vacancy, applicants, activeSet, locks, started>>

(* Time: a lock reaches its 30 s, a vacancy reaches its StartAt. *)
LockExpires(v, u) ==
  /\ <<v, u>> \in locks
  /\ locks' = locks \ {<<v, u>>}
  /\ UNCHANGED <<vacancy, applicants, userApps, activeSet, started>>

StartPasses(v) ==
  /\ Created(v)
  /\ started' = started \cup {v}
  /\ UNCHANGED <<vacancy, applicants, userApps, activeSet, locks>>

Next ==
  \/ \E v \in Vacancies :
       CreateVacancy(v) \/ CloseVacancy(v) \/ VacancyDetail(v) \/ StartPasses(v)
  \/ \E v \in Vacancies, u \in Users :
       \/ Apply(v, u)
       \/ AcceptApplication(v, u)
       \/ RejectApplication(v, u)
       \/ CancelMyJob(v, u)
       \/ LockExpires(v, u)
  \/ \E u \in Users : ListApplications(u) \/ DeleteWorker(u)
  \/ ExpireVacancies

Spec == Init /\ [][Next]_vars

(* The ticker of StartVacancyExpirer runs for as long as the process does. *)
FairSpec == Spec /\ WF_vars(ExpireVacancies)
-----------------------------------------------------------------------------
(* Every variable has its type. *)
TypeOK ==
  /\ vacancy \in [Vacancies -> Vacancy]
  /\ applicants \in [Pairs -> Application]
  /\ userApps \in [Users -> SUBSET Vacancies]
  /\ activeSet \subseteq Vacancies
  /\ locks \subseteq Pairs
  /\ started \subseteq Vacancies

(* GetActiveVacanciesForCity offers what the index holds: a vacancy is in  *)
(* it exactly while its own record says active, whatever sequence of       *)
(* accepts, cancels and closings came before.                              *)
ActiveIndex == \A v \in Vacancies : v \in activeSet <=> vacancy[v].status = "active"

(* A vacancy marked filled has all its places given away and has answered  *)
(* every applicant: nobody is left pending on it.                          *)
FilledSettled ==
  \A v \in Vacancies : vacancy[v].status = "filled" =>
    /\ vacancy[v].filled >= vacancy[v].needed
    /\ \A u \in Users : applicants[<<v, u>>].status # "pending"

(* AcceptApplication compares SlotsFilled with SlotsNeeded before it adds  *)
(* the count, so it may overshoot, but never by a whole vacancy.           *)
OverbookingBounded ==
  \A v \in Vacancies : Created(v) => vacancy[v].filled < 2 * vacancy[v].needed

(* An application is to a vacancy that exists and for no more places than  *)
(* the vacancy has.                                                        *)
CountsFit ==
  \A v \in Vacancies, u \in Users :
    HasRecord(v, u) => Created(v) /\ applicants[<<v, u>>].count \in 1 .. vacancy[v].needed

(* SlotsFilled never forgets an accepted worker: rejecting, cancelling and *)
(* re-accepting may leave it too high, never too low.                      *)
AcceptedOf(v) == {u \in Users : applicants[<<v, u>>].status = "accepted"}
SlotsCoverAccepted ==
  \A v \in Vacancies :
    MapThenSumSet(LAMBDA u : applicants[<<v, u>>].count, AcceptedOf(v)) <= vacancy[v].filled

(* The set whose size Apply compares with the limit names only vacancies   *)
(* the user has an applicant record in: no phantom entry uses up a place.  *)
ListedHaveRecords == \A u \in Users : \A v \in userApps[u] : HasRecord(v, u)

(* When operators act on fresh pages and no worker is deleted, nobody ever *)
(* has more than MaxActiveApplicationsPerUser applications pending or      *)
(* accepted, through every order of applying, cancelling, displacement and *)
(* refilling of the set.                                                   *)
LiveVacancies(u) == {v \in Vacancies : Live(applicants[<<v, u>>])}
LiveWithinLimit ==
  \A u \in Users : Cardinality(LiveVacancies(u)) <= MaxActive

(* A request about one applicant never takes an accepted place away from   *)
(* another: what a step does to several records spares the accepted ones.  *)
AcceptedKept ==
  [][\A a, b \in Pairs :
       a # b /\ applicants'[a] # applicants[a] /\ applicants[b].status = "accepted"
         => applicants'[b] = applicants[b]]_vars

(* The expirer takes every vacancy that has started off the board, also    *)
(* one that a cancellation brings back after its start.                    *)
StartedLeavesBoard == \A v \in Vacancies : v \in started ~> v \notin activeSet
-----------------------------------------------------------------------------
(* What the messages and comments of the program say, where a sequence of  *)
(* requests leads elsewhere.                                               *)

(* What /myjobs lists for a user. *)
MyJobs(u) ==
  {v \in Refilled(userApps[u], applicants, u) :
     /\ applicants[<<v, u>>].status # "rejected"
     /\ vacancy[v].status # "closed"}

(* TxtTooManyApplications tells a refused user to cancel one of the three  *)
(* applications that /myjobs shows: there must be as many.                 *)
RefusedOnlyAtLimit ==
  \A u \in Users : ~WithinLimit(userApps[u]) => Cardinality(MyJobs(u)) >= MaxActive
=============================================================================
