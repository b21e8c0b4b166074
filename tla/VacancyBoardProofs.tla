------------------------- MODULE VacancyBoardProofs -------------------------
(***************************************************************************)
(* Proofs about VacancyBoard for every set of vacancies and users, every   *)
(* number of places and every limit.                                       *)
(***************************************************************************)
EXTENDS VacancyBoard, FiniteSetTheorems, TLAPS

(* The inductive invariant: CountsFit bounds what an accept can add, which *)
(* OverbookingBounded needs, and FilledSettled keeps cancel and apply from *)
(* meeting a filled vacancy with room.                                     *)
BoardInv == TypeOK /\ CountsFit /\ OverbookingBounded /\ FilledSettled /\ ActiveIndex

LEMMA InitBoard == Init => BoardInv
  BY SlotsAssumption
  DEF Init, BoardInv, TypeOK, CountsFit, OverbookingBounded, FilledSettled, ActiveIndex,
      Created, Missing, HasRecord, NoVacancy, NoApplication, Vacancy, Application, Pairs

(* A step that touches neither the vacancies nor the applicants nor the    *)
(* index leaves everything but the types as it was.                        *)
LEMMA BoardUntouched ==
  ASSUME BoardInv, TypeOK', UNCHANGED <<vacancy, applicants, activeSet>>
  PROVE  BoardInv'
  BY DEF BoardInv, CountsFit, OverbookingBounded, FilledSettled, ActiveIndex,
         Created, HasRecord

(* What Apply grants is a number of places the vacancy still has.          *)
LEMMA GrantedFits ==
  ASSUME NEW vac \in Vacancy, NEW asked \in 1 .. vac.needed, Granted(vac, asked) # 0
  PROVE  /\ Granted(vac, asked) \in 1 .. vac.needed
         /\ vac.filled < vac.needed
  BY DEF Granted, Vacancy

(* What the two read-modify-write computations do to a vacancy record.     *)
LEMMA AcceptArithmetic ==
  ASSUME NEW vac \in Vacancy, NEW app \in Application,
         app.count \in 1 .. vac.needed, vac.filled < vac.needed
  PROVE  LET new == AfterAccept(vac, app)
         IN  /\ new \in Vacancy
             /\ new.needed = vac.needed
             /\ new.filled = vac.filled + app.count
             /\ new.filled < 2 * new.needed
             /\ new.status = IF new.filled >= new.needed THEN "filled" ELSE vac.status
<1> DEFINE new == AfterAccept(vac, app)
           total == vac.filled + app.count
           st == IF total >= vac.needed THEN "filled" ELSE vac.status
<1>1. total \in Nat /\ total < 2 * vac.needed /\ st \in {"none", "active", "filled", "closed"}
  BY DEF Vacancy
<1>2. new = [vac EXCEPT !.filled = total, !.status = st]
  BY DEF AfterAccept
<1>3. new = [status |-> st, needed |-> vac.needed, filled |-> total]
  BY <1>2 DEF Vacancy
<1> QED
  BY <1>1, <1>3 DEF Vacancy

LEMMA CancelArithmetic ==
  ASSUME NEW vac \in Vacancy, NEW app \in Application
  PROVE  LET new == AfterCancel(vac, app)
         IN  /\ new \in Vacancy
             /\ new.needed = vac.needed
             /\ new.filled <= vac.filled
             /\ new.status = IF vac.status = "closed" THEN "closed" ELSE "active"
<1> DEFINE new == AfterCancel(vac, app)
           rest == IF app.count > vac.filled THEN 0 ELSE vac.filled - app.count
           st == IF vac.status = "closed" THEN "closed" ELSE "active"
<1>1. rest \in Nat /\ rest <= vac.filled /\ st \in {"none", "active", "filled", "closed"}
  BY DEF Vacancy, Application
<1>2. new = [vac EXCEPT !.filled = rest, !.status = st]
  BY DEF AfterCancel
<1>3. new = [status |-> st, needed |-> vac.needed, filled |-> rest]
  BY <1>2 DEF Vacancy
<1> QED
  BY <1>1, <1>3 DEF Vacancy

LEMMA CreatePreserves ==
  ASSUME BoardInv, NEW v \in Vacancies, CreateVacancy(v)
  PROVE  BoardInv'
<1>1. PICK n \in SlotChoices : vacancy' = [vacancy EXCEPT ![v] = NewVacancy(n)]
  BY DEF CreateVacancy
<1>2. n \in Nat \ {0}
  BY SlotsAssumption
<1>3. NewVacancy(n) \in Vacancy
  BY <1>2 DEF NewVacancy, Vacancy
<1>4. TypeOK'
  BY <1>1, <1>3 DEF BoardInv, TypeOK, CreateVacancy
<1>5. \A u \in Users : ~HasRecord(v, u)
  BY DEF BoardInv, CountsFit, CreateVacancy, Created, Missing, TypeOK, Vacancy, Application, Pairs, HasRecord
<1> QED
  BY <1>1, <1>2, <1>4, <1>5
  DEF BoardInv, TypeOK, CountsFit, OverbookingBounded, FilledSettled, ActiveIndex, CreateVacancy,
      Created, Missing, HasRecord, NewVacancy, Vacancy, NoApplication

LEMMA ApplyPreserves ==
  ASSUME BoardInv, NEW v \in Vacancies, NEW u \in Users, Apply(v, u)
  PROVE  BoardInv'
<1>1. PICK asked \in 1 .. vacancy[v].needed :
        IF Granted(vacancy[v], asked) = 0
        THEN UNCHANGED <<applicants, userApps>>
        ELSE /\ applicants' = [applicants EXCEPT ![<<v, u>>] = NewApplication(Granted(vacancy[v], asked))]
             /\ userApps' = [userApps EXCEPT ![u] = @ \cup {v}]
  BY DEF Apply
<1>2. CASE Granted(vacancy[v], asked) = 0
  <2>1. TypeOK'
    BY <1>1, <1>2 DEF BoardInv, TypeOK, Apply, Pairs
  <2> QED
    BY <1>1, <1>2, <2>1, BoardUntouched DEF Apply
<1>3. CASE Granted(vacancy[v], asked) # 0
  <2> DEFINE n == Granted(vacancy[v], asked)
  <2>1. n \in 1 .. vacancy[v].needed /\ vacancy[v].filled < vacancy[v].needed
    BY <1>3, GrantedFits DEF BoardInv, TypeOK
  <2>2. applicants' = [applicants EXCEPT ![<<v, u>>] = NewApplication(n)]
    BY <1>1, <1>3
  <2>3. NewApplication(n) \in Application
    BY <2>1 DEF NewApplication, Application, BoardInv, TypeOK, Vacancy
  <2>4. TypeOK'
    BY <1>1, <1>3, <2>2, <2>3 DEF BoardInv, TypeOK, Apply, Pairs
  <2>5. CountsFit'
    BY <2>1, <2>2 DEF BoardInv, TypeOK, CountsFit, Apply, Created, HasRecord, NewApplication, Pairs
  <2>6. FilledSettled'
    BY <2>1, <2>2 DEF BoardInv, TypeOK, FilledSettled, Apply, Pairs, Vacancy, NewApplication
  <2>7. OverbookingBounded' /\ ActiveIndex'
    BY DEF BoardInv, OverbookingBounded, ActiveIndex, Apply, Created
  <2> QED
    BY <2>4, <2>5, <2>6, <2>7 DEF BoardInv
<1> QED
  BY <1>2, <1>3

LEMMA AcceptPreserves ==
  ASSUME BoardInv, NEW v \in Vacancies, NEW u \in Users, AcceptApplication(v, u)
  PROVE  BoardInv'
<1> DEFINE app == applicants[<<v, u>>]
           vac == AfterAccept(vacancy[v], app)
           out == IF vac.status = "filled" THEN Displaced(v, u) ELSE {}
<1>1. /\ vacancy' = [vacancy EXCEPT ![v] = vac]
      /\ applicants' = [a \in Pairs |->
           IF a = <<v, u>> THEN WithStatus(app, "accepted")
           ELSE IF a[1] = v /\ a[2] \in out THEN WithStatus(applicants[a], "rejected")
           ELSE applicants[a]]
      /\ activeSet' = IF vac.status = "filled" THEN activeSet \ {v} ELSE activeSet
      /\ userApps' = [w \in Users |-> IF w \in out THEN userApps[w] \ {v} ELSE userApps[w]]
      /\ UNCHANGED <<locks, started>>
      /\ HasRoom(vacancy[v])
  BY DEF AcceptApplication
<1>2. HasRecord(v, u)
  BY DEF AcceptApplication, Offered, HasRecord, NoApplication
<1>3. vacancy[v] \in Vacancy /\ app \in Application /\ app.count \in 1 .. vacancy[v].needed /\ Created(v)
  BY <1>2 DEF BoardInv, TypeOK, CountsFit, Pairs
<1>4. /\ vac \in Vacancy
      /\ vac.needed = vacancy[v].needed
      /\ vac.filled = vacancy[v].filled + app.count
      /\ vac.filled < 2 * vac.needed
      /\ vac.status # "none"
      /\ vac.status = "filled" => vac.filled >= vac.needed
      /\ vac.status # "filled" => vac.status = vacancy[v].status
  <2>1. vacancy[v].filled < vacancy[v].needed
    BY <1>1 DEF HasRoom
  <2>2. vacancy[v].status = "filled" => vacancy[v].filled >= vacancy[v].needed
    BY DEF BoardInv, FilledSettled
  <2>3. vacancy[v].status # "none"
    BY <1>3 DEF Created, Missing
  <2> QED
    BY <1>3, <2>1, <2>2, <2>3, AcceptArithmetic DEF Vacancy
<1>5. \A a \in Pairs : applicants'[a] \in Application /\ applicants'[a].count = applicants[a].count
  BY <1>1 DEF BoardInv, TypeOK, WithStatus, Application
<1>6. TypeOK'
  BY <1>1, <1>4, <1>5 DEF BoardInv, TypeOK
<1>7. CountsFit'
  <2> SUFFICES ASSUME NEW x \in Vacancies, NEW w \in Users, HasRecord(x, w)'
               PROVE  Created(x)' /\ (applicants[<<x, w>>].count \in 1 .. vacancy[x].needed)'
    BY DEF CountsFit
  <2>1. HasRecord(x, w)
    BY <1>1, <1>2 DEF HasRecord, WithStatus, NoApplication, Pairs, Displaced
  <2>2. Created(x) /\ applicants[<<x, w>>].count \in 1 .. vacancy[x].needed
    BY <2>1 DEF BoardInv, CountsFit
  <2>3. applicants'[<<x, w>>].count = applicants[<<x, w>>].count
    BY <1>5 DEF Pairs
  <2> QED
    BY <1>1, <1>4, <2>2, <2>3 DEF BoardInv, TypeOK, Created, Missing
<1>8. FilledSettled'
  <2> SUFFICES ASSUME NEW x \in Vacancies, vacancy'[x].status = "filled"
               PROVE  /\ vacancy'[x].filled >= vacancy'[x].needed
                      /\ \A w \in Users : applicants'[<<x, w>>].status # "pending"
    BY DEF FilledSettled
  <2>1. CASE x = v
    <3>1. vac.status = "filled" /\ vacancy'[v] = vac
      BY <1>1, <2>1 DEF BoardInv, TypeOK
    <3>2. ASSUME NEW w \in Users
          PROVE  applicants'[<<v, w>>].status # "pending"
      BY <1>1, <1>3, <3>1 DEF BoardInv, TypeOK, WithStatus, Application, Pairs, Displaced
    <3> QED
      BY <1>4, <2>1, <3>1, <3>2
  <2>2. CASE x # v
    BY <1>1, <2>2 DEF BoardInv, TypeOK, FilledSettled, Pairs
  <2> QED
    BY <2>1, <2>2
<1>9. OverbookingBounded'
  BY <1>1, <1>4 DEF BoardInv, TypeOK, OverbookingBounded, Created, Missing
<1>10. ActiveIndex'
  BY <1>1, <1>4 DEF BoardInv, TypeOK, ActiveIndex
<1> QED
  BY <1>6, <1>7, <1>8, <1>9, <1>10 DEF BoardInv

LEMMA RejectPreserves ==
  ASSUME BoardInv, NEW v \in Vacancies, NEW u \in Users, RejectApplication(v, u)
  PROVE  BoardInv'
<1>1. applicants' = [applicants EXCEPT ![<<v, u>>] = WithStatus(@, "rejected")]
  BY DEF RejectApplication
<1>2. HasRecord(v, u)
  BY DEF RejectApplication, Offered, HasRecord, NoApplication
<1>3. TypeOK'
  BY <1>1 DEF BoardInv, TypeOK, RejectApplication, Pairs, WithStatus, Application
<1>4. CountsFit'
  BY <1>1, <1>2 DEF BoardInv, TypeOK, CountsFit, RejectApplication, Pairs, WithStatus, Application,
                   HasRecord, Created
<1>5. FilledSettled' /\ OverbookingBounded' /\ ActiveIndex'
  BY <1>1 DEF BoardInv, TypeOK, RejectApplication, Pairs, WithStatus, Application,
              FilledSettled, OverbookingBounded, ActiveIndex, Created
<1> QED
  BY <1>3, <1>4, <1>5 DEF BoardInv

LEMMA CancelPreserves ==
  ASSUME BoardInv, NEW v \in Vacancies, NEW u \in Users, CancelMyJob(v, u)
  PROVE  BoardInv'
<1> DEFINE app == applicants[<<v, u>>]
           vac == AfterCancel(vacancy[v], app)
<1>1. /\ HasRecord(v, u)
      /\ applicants' = [applicants EXCEPT ![<<v, u>>] = NoApplication]
      /\ userApps' = [userApps EXCEPT ![u] = Refilled(@ \ {v}, applicants', u)]
      /\ UNCHANGED <<locks, started>>
  BY DEF CancelMyJob
<1>2. \/ /\ vacancy' = [vacancy EXCEPT ![v] = vac]
         /\ activeSet' = IndexAfterCancel(v, vacancy[v], vac)
      \/ UNCHANGED <<vacancy, activeSet>>
  BY DEF CancelMyJob
<1>3. vacancy[v] \in Vacancy /\ app \in Application /\ Created(v)
  BY <1>1 DEF BoardInv, TypeOK, CountsFit, Pairs
<1>4. /\ vac \in Vacancy
      /\ vac.needed = vacancy[v].needed
      /\ vac.filled <= vacancy[v].filled
      /\ vac.status = IF vacancy[v].status = "closed" THEN "closed" ELSE "active"
  BY <1>3, CancelArithmetic
<1>5. TypeOK'
  <2>1. vacancy' \in [Vacancies -> Vacancy] /\ activeSet' \subseteq Vacancies
    BY <1>2, <1>4 DEF BoardInv, TypeOK, IndexAfterCancel
  <2>2. applicants' \in [Pairs -> Application]
    BY <1>1 DEF BoardInv, TypeOK, NoApplication, Application
  <2>3. userApps' \in [Users -> SUBSET Vacancies]
    BY <1>1 DEF BoardInv, TypeOK, Refilled
  <2> QED
    BY <1>1, <2>1, <2>2, <2>3 DEF BoardInv, TypeOK
<1>6. CountsFit'
  BY <1>1, <1>2, <1>3, <1>4 DEF BoardInv, TypeOK, CountsFit, HasRecord, Created, Missing, Pairs
<1>7. FilledSettled'
  BY <1>1, <1>2, <1>4 DEF BoardInv, TypeOK, FilledSettled, Pairs, NoApplication
<1>8. OverbookingBounded'
  BY <1>2, <1>3, <1>4 DEF BoardInv, TypeOK, OverbookingBounded, Created, Missing, Vacancy
<1>9. ActiveIndex'
  BY <1>2, <1>3, <1>4 DEF BoardInv, TypeOK, ActiveIndex, IndexAfterCancel, Created, Missing, Vacancy
<1> QED
  BY <1>5, <1>6, <1>7, <1>8, <1>9 DEF BoardInv

LEMMA ClosingPreserves ==
  ASSUME BoardInv, NEW S \in SUBSET Vacancies, \A v \in S : Created(v),
         vacancy' = [v \in Vacancies |-> IF v \in S THEN AfterClose(vacancy[v]) ELSE vacancy[v]],
         activeSet' = activeSet \ S,
         UNCHANGED <<applicants, userApps, locks, started>>
  PROVE  BoardInv'
<1>1. \A v \in S : /\ vacancy'[v] \in Vacancy
                   /\ vacancy'[v].status = "closed"
                   /\ vacancy'[v].needed = vacancy[v].needed
                   /\ vacancy'[v].filled = vacancy[v].filled
  BY DEF BoardInv, TypeOK, AfterClose, Vacancy
<1>2. \A v \in Vacancies \ S : vacancy'[v] = vacancy[v]
  OBVIOUS
<1>3. TypeOK'
  BY <1>1 DEF BoardInv, TypeOK
<1>4. CountsFit'
  BY <1>1, <1>2 DEF BoardInv, TypeOK, CountsFit, HasRecord, Created, Missing
<1>5. OverbookingBounded' /\ FilledSettled'
  BY <1>1, <1>2 DEF BoardInv, TypeOK, OverbookingBounded, FilledSettled, Created, Missing
<1>6. ActiveIndex'
  BY <1>1, <1>2 DEF BoardInv, TypeOK, ActiveIndex
<1> QED
  BY <1>3, <1>4, <1>5, <1>6 DEF BoardInv

(* Every request preserves the invariant. *)
LEMMA NextPreserves == BoardInv /\ [Next]_vars => BoardInv'
<1> SUFFICES ASSUME BoardInv, [Next]_vars PROVE BoardInv'
  OBVIOUS
<1>1. ASSUME NEW v \in Vacancies, CreateVacancy(v) PROVE BoardInv'
  BY <1>1, CreatePreserves
<1>2. ASSUME NEW v \in Vacancies, NEW u \in Users, Apply(v, u) PROVE BoardInv'
  BY <1>2, ApplyPreserves
<1>3. ASSUME NEW v \in Vacancies, NEW u \in Users, AcceptApplication(v, u) PROVE BoardInv'
  BY <1>3, AcceptPreserves
<1>4. ASSUME NEW v \in Vacancies, NEW u \in Users, RejectApplication(v, u) PROVE BoardInv'
  BY <1>4, RejectPreserves
<1>5. ASSUME NEW v \in Vacancies, NEW u \in Users, CancelMyJob(v, u) PROVE BoardInv'
  BY <1>5, CancelPreserves
<1>6. ASSUME NEW v \in Vacancies, CloseVacancy(v) PROVE BoardInv'
  <2> DEFINE S == {v}
  <2>1. vacancy' = [x \in Vacancies |-> IF x \in S THEN AfterClose(vacancy[x]) ELSE vacancy[x]]
    BY <1>6 DEF CloseVacancy, BoardInv, TypeOK
  <2> QED
    BY <1>6, <2>1, ClosingPreserves DEF CloseVacancy
<1>7. ASSUME ExpireVacancies PROVE BoardInv'
  <2>1. Expired \in SUBSET Vacancies /\ \A v \in Expired : Created(v)
    BY DEF Expired, Created, Missing, BoardInv, TypeOK
  <2> QED
    BY <1>7, <2>1, ClosingPreserves DEF ExpireVacancies
<1>8. ASSUME NEW u \in Users, ListApplications(u) PROVE BoardInv'
  <2>1. TypeOK'
    BY <1>8 DEF BoardInv, TypeOK, ListApplications, Refilled
  <2> QED
    BY <1>8, <2>1, BoardUntouched DEF ListApplications
<1>9. ASSUME NEW v \in Vacancies, VacancyDetail(v) PROVE BoardInv'
  <2>1. TypeOK'
    BY <1>9 DEF BoardInv, TypeOK, VacancyDetail, Refilled
  <2> QED
    BY <1>9, <2>1, BoardUntouched DEF VacancyDetail
<1>10. ASSUME NEW u \in Users, DeleteWorker(u) PROVE BoardInv'
  <2>1. TypeOK'
    BY <1>10 DEF BoardInv, TypeOK, DeleteWorker
  <2> QED
    BY <1>10, <2>1, BoardUntouched DEF DeleteWorker
<1>11. ASSUME NEW v \in Vacancies, NEW u \in Users, LockExpires(v, u) PROVE BoardInv'
  <2>1. TypeOK'
    BY <1>11 DEF BoardInv, TypeOK, LockExpires
  <2> QED
    BY <1>11, <2>1, BoardUntouched DEF LockExpires
<1>12. ASSUME NEW v \in Vacancies, StartPasses(v) PROVE BoardInv'
  <2>1. TypeOK'
    BY <1>12 DEF BoardInv, TypeOK, StartPasses
  <2> QED
    BY <1>12, <2>1, BoardUntouched DEF StartPasses
<1>13. ASSUME UNCHANGED vars PROVE BoardInv'
  <2>1. TypeOK'
    BY <1>13 DEF BoardInv, TypeOK, vars
  <2> QED
    BY <1>13, <2>1, BoardUntouched DEF vars
<1> QED
  BY <1>1, <1>2, <1>3, <1>4, <1>5, <1>6, <1>7, <1>8, <1>9, <1>10, <1>11, <1>12, <1>13 DEF Next

THEOREM BoardInvariant == Spec => []BoardInv
  BY InitBoard, NextPreserves, PTL DEF Spec

(* The records of the board always have the shape their types say. *)
THEOREM BoardTypes == Spec => []TypeOK
  BY BoardInvariant, PTL DEF BoardInv

(* The index of active vacancies agrees with their records after every     *)
(* sequence of requests.                                                   *)
THEOREM ActiveIndexAgrees == Spec => []ActiveIndex
  BY BoardInvariant, PTL DEF BoardInv

(* A filled vacancy is full and has no application left pending.           *)
THEOREM FilledIsSettled == Spec => []FilledSettled
  BY BoardInvariant, PTL DEF BoardInv

(* Overbooking stays below twice the places of the vacancy. *)
THEOREM OverbookingIsBounded == Spec => []OverbookingBounded
  BY BoardInvariant, PTL DEF BoardInv

(* Nobody loses an accepted place to a request about somebody else.        *)
LEMMA StepKeepsAccepted ==
  ASSUME TypeOK, [Next]_vars, NEW a \in Pairs, NEW b \in Pairs, a # b,
         applicants'[a] # applicants[a], applicants[b].status = "accepted"
  PROVE  applicants'[b] = applicants[b]
<1> DEFINE Single == \E p \in Pairs : \E new : applicants' = [applicants EXCEPT ![p] = new]
<1>0. Single => applicants'[b] = applicants[b]
  BY DEF TypeOK
<1>1. ASSUME NEW v \in Vacancies, NEW u \in Users, Apply(v, u) PROVE applicants'[b] = applicants[b]
  <2>1. applicants' = applicants \/ \E n : applicants' = [applicants EXCEPT ![<<v, u>>] = NewApplication(n)]
    BY <1>1 DEF Apply
  <2> QED
    BY <2>1, <1>0 DEF Pairs
<1>2. ASSUME NEW v \in Vacancies, NEW u \in Users, AcceptApplication(v, u)
      PROVE  applicants'[b] = applicants[b]
  <2>1. PICK out \in SUBSET Displaced(v, u) :
          applicants' = [x \in Pairs |->
             IF x = <<v, u>> THEN WithStatus(applicants[<<v, u>>], "accepted")
             ELSE IF x[1] = v /\ x[2] \in out THEN WithStatus(applicants[x], "rejected")
             ELSE applicants[x]]
    BY <1>2 DEF AcceptApplication
  <2>2. b # <<v, u>>
    BY <1>2 DEF AcceptApplication
  <2>3. ~(b[1] = v /\ b[2] \in out)
    BY DEF Displaced, Pairs
  <2> QED
    BY <2>1, <2>2, <2>3
<1>3. ASSUME NEW v \in Vacancies, NEW u \in Users, RejectApplication(v, u) \/ CancelMyJob(v, u)
      PROVE  applicants'[b] = applicants[b]
  <2>1. Single
    BY <1>3 DEF RejectApplication, CancelMyJob, Pairs
  <2> QED
    BY <2>1, <1>0
<1> QED
  BY <1>1, <1>2, <1>3
  DEF Next, vars, CreateVacancy, CloseVacancy, VacancyDetail, StartPasses, LockExpires,
      ListApplications, DeleteWorker, ExpireVacancies

(* A request about one applicant takes no accepted place from another.     *)
THEOREM AcceptedStays == Spec => AcceptedKept
<1> DEFINE A == \A a, b \in Pairs :
         a # b /\ applicants'[a] # applicants[a] /\ applicants[b].status = "accepted"
           => applicants'[b] = applicants[b]
<1>1. TypeOK /\ [Next]_vars => [A]_vars
  BY StepKeepsAccepted
<1>2. Spec => []TypeOK /\ [][Next]_vars
  BY BoardTypes, PTL DEF Spec
<1> QED
  BY <1>1, <1>2, PTL DEF AcceptedKept
-----------------------------------------------------------------------------
(***************************************************************************)
(* The places of the accepted workers.  Their sum is a fold over a set of  *)
(* users that grows and shrinks by one, the parameter of the fold is the   *)
(* applicant records and the vacancy.                                      *)
(***************************************************************************)
Places == INSTANCE FiniteFolds WITH
  Op <- LAMBDA m, n : m + n,
  Base <- LAMBDA env : 0,
  F <- LAMBDA env, u : env[1][<<env[2], u>>].count,
  Pick <- LAMBDA S : CHOOSE x \in S : TRUE

PlacesOf(apps, v, S) == MapThenSumSet(LAMBDA u : apps[<<v, u>>].count, S)

LEMMA PlacesFolded ==
  ASSUME NEW apps, NEW v, NEW S
  PROVE  PlacesOf(apps, v, S) = Places!Fold(<<apps, v>>, S)
  BY DEF PlacesOf, MapThenSumSet, MapThenFoldSet, Places!Fold, Places!MapThenFoldSet

LEMMA AllPicks == \A S : Places!Picks(S)
  BY DEF Places!Picks

LEMMA SameFinite == \A S : IsFiniteSet(S) <=> Places!IsFiniteSet(S)
  BY DEF IsFiniteSet, Places!IsFiniteSet

LEMMA PlacesNat ==
  ASSUME NEW apps \in [Pairs -> Application], NEW v \in Vacancies,
         NEW S \in SUBSET Users, IsFiniteSet(S)
  PROVE  PlacesOf(apps, v, S) \in Nat
<1> DEFINE env == <<apps, v>>
<1>1. \A u \in S : env[1][<<env[2], u>>].count \in Nat
  BY DEF Pairs, Application
<1> HIDE DEF env
<1>2. Places!Fold(env, S) \in Nat
  <2>1. 0 \in Nat /\ \A m, n \in Nat : m + n \in Nat
    OBVIOUS
  <2> QED
    BY <1>1, <2>1, AllPicks, SameFinite, Places!FoldType
<1> QED
  BY <1>2, PlacesFolded DEF env

LEMMA PlacesEmpty ==
  ASSUME NEW apps, NEW v PROVE PlacesOf(apps, v, {}) = 0
  BY PlacesFolded, Places!FoldEmpty

LEMMA PlacesRemove ==
  ASSUME NEW apps \in [Pairs -> Application], NEW v \in Vacancies,
         NEW S \in SUBSET Users, IsFiniteSet(S), NEW u \in S
  PROVE  PlacesOf(apps, v, S) = apps[<<v, u>>].count + PlacesOf(apps, v, S \ {u})
<1> DEFINE env == <<apps, v>>
<1>1. \A w \in S : env[1][<<env[2], w>>].count \in Nat
  BY DEF Pairs, Application
<1>2. Places!OrderFree(Nat)
  BY DEF Places!OrderFree
<1> HIDE DEF env
<1>3. Places!Fold(env, S) = env[1][<<env[2], u>>].count + Places!Fold(env, S \ {u})
  <2>1. 0 \in Nat
    OBVIOUS
  <2> QED
    BY <1>1, <1>2, <2>1, AllPicks, SameFinite, Places!FoldRemove
<1> QED
  BY <1>3, PlacesFolded DEF env

LEMMA PlacesSame ==
  ASSUME NEW apps, NEW other, NEW v, NEW S, IsFiniteSet(S),
         \A u \in S : apps[<<v, u>>].count = other[<<v, u>>].count
  PROVE  PlacesOf(apps, v, S) = PlacesOf(other, v, S)
<1> DEFINE env == <<apps, v>>
           oth == <<other, v>>
<1>1. \A u \in S : env[1][<<env[2], u>>].count = oth[1][<<oth[2], u>>].count
  OBVIOUS
<1> HIDE DEF env, oth
<1>2. Places!Fold(env, S) = Places!Fold(oth, S)
  BY <1>1, AllPicks, SameFinite, Places!FoldSame
<1> QED
  BY <1>2, PlacesFolded DEF env, oth
-----------------------------------------------------------------------------
Covered(v) ==
  /\ IsFiniteSet(AcceptedOf(v))
  /\ PlacesOf(applicants, v, AcceptedOf(v)) <= vacancy[v].filled

(* The users need not be finitely many: only the accepted ones are summed. *)
SlotInv == \A v \in Vacancies : Covered(v)

(* What a step does to the sum of one vacancy: nothing, ...                *)
LEMMA CoverSame ==
  ASSUME NEW v \in Vacancies, Covered(v),
         AcceptedOf(v)' = AcceptedOf(v),
         \A u \in AcceptedOf(v) : applicants'[<<v, u>>].count = applicants[<<v, u>>].count,
         vacancy'[v].filled = vacancy[v].filled
  PROVE  Covered(v)'
  BY PlacesSame DEF Covered

(* ... one worker fewer, and no more places freed than the worker had, ... *)
LEMMA CoverDrop ==
  ASSUME TypeOK, TypeOK', NEW v \in Vacancies, Covered(v), NEW u \in AcceptedOf(v),
         AcceptedOf(v)' = AcceptedOf(v) \ {u},
         \A w \in AcceptedOf(v)' : applicants'[<<v, w>>].count = applicants[<<v, w>>].count,
         \/ vacancy'[v].filled >= vacancy[v].filled
         \/ vacancy'[v].filled >= vacancy[v].filled - applicants[<<v, u>>].count
  PROVE  Covered(v)'
<1> DEFINE S == AcceptedOf(v)
           R == S \ {u}
<1>1. S \in SUBSET Users /\ IsFiniteSet(S) /\ u \in S /\ R \in SUBSET Users /\ IsFiniteSet(R)
  BY FS_Subset DEF AcceptedOf, Covered
<1>2. /\ PlacesOf(applicants, v, S) = applicants[<<v, u>>].count + PlacesOf(applicants, v, R)
      /\ PlacesOf(applicants, v, R) \in Nat
  <2> HIDE DEF S
  <2> QED
    BY <1>1, PlacesRemove, PlacesNat DEF TypeOK
<1>3. PlacesOf(applicants', v, R) = PlacesOf(applicants, v, R)
  BY <1>1, PlacesSame
<1>4. PlacesOf(applicants, v, S) <= vacancy[v].filled
  BY DEF Covered
<1>5. vacancy[v].filled \in Nat /\ vacancy'[v].filled \in Nat /\ applicants[<<v, u>>].count \in Nat
  BY <1>1 DEF TypeOK, Vacancy, Application, Pairs
<1>6. PlacesOf(applicants', v, R) <= vacancy'[v].filled
  <2> HIDE DEF S, R
  <2> QED
    BY <1>2, <1>3, <1>4, <1>5
<1> QED
  BY <1>1, <1>6 DEF Covered

(* ... or one worker more, with the places of the worker added.            *)
LEMMA CoverAdd ==
  ASSUME TypeOK, TypeOK', NEW v \in Vacancies, Covered(v), NEW u \in Users, u \notin AcceptedOf(v),
         AcceptedOf(v)' = AcceptedOf(v) \cup {u},
         \A w \in AcceptedOf(v)' : applicants'[<<v, w>>].count = applicants[<<v, w>>].count,
         vacancy'[v].filled = vacancy[v].filled + applicants[<<v, u>>].count
  PROVE  Covered(v)'
<1> DEFINE S == AcceptedOf(v)
           R == S \cup {u}
<1>1. S \in SUBSET Users /\ IsFiniteSet(S) /\ R \in SUBSET Users /\ u \in R /\ IsFiniteSet(R) /\ R \ {u} = S
  BY FS_AddElement DEF AcceptedOf, Covered
<1>2. /\ PlacesOf(applicants', v, R) = applicants'[<<v, u>>].count + PlacesOf(applicants', v, S)
      /\ PlacesOf(applicants, v, S) \in Nat
  <2>1. PlacesOf(applicants', v, R) = applicants'[<<v, u>>].count + PlacesOf(applicants', v, R \ {u})
    <3> HIDE DEF R
    <3> QED
      BY <1>1, PlacesRemove DEF TypeOK
  <2>2. PlacesOf(applicants, v, S) \in Nat
    BY <1>1, PlacesNat DEF TypeOK
  <2> QED
    BY <1>1, <2>1, <2>2
<1>3. PlacesOf(applicants', v, S) = PlacesOf(applicants, v, S)
  BY <1>1, PlacesSame
<1>4. PlacesOf(applicants, v, S) <= vacancy[v].filled
  BY DEF Covered
<1>5. /\ vacancy[v].filled \in Nat /\ applicants[<<v, u>>].count \in Nat
      /\ applicants'[<<v, u>>].count = applicants[<<v, u>>].count
  BY <1>1 DEF TypeOK, Vacancy, Application, Pairs
<1>6. PlacesOf(applicants', v, R) <= vacancy'[v].filled
  <2> HIDE DEF S, R
  <2> QED
    BY <1>2, <1>3, <1>4, <1>5
<1> QED
  BY <1>1, <1>6 DEF Covered

LEMMA AcceptCovers ==
  ASSUME BoardInv, TypeOK', NEW v \in Vacancies, NEW u \in Users, AcceptApplication(v, u),
         NEW x \in Vacancies, Covered(x)
  PROVE  Covered(x)'
<1> DEFINE app == applicants[<<v, u>>]
           vac == AfterAccept(vacancy[v], app)
<1>1. PICK out \in SUBSET Displaced(v, u) :
        applicants' = [a \in Pairs |->
           IF a = <<v, u>> THEN WithStatus(app, "accepted")
           ELSE IF a[1] = v /\ a[2] \in out THEN WithStatus(applicants[a], "rejected")
           ELSE applicants[a]]
  BY DEF AcceptApplication
<1>2. /\ vacancy' = [vacancy EXCEPT ![v] = vac]
      /\ HasRoom(vacancy[v])
      /\ app.status # "accepted"
      /\ HasRecord(v, u)
  BY DEF AcceptApplication, Offered, HasRecord, NoApplication
<1>3. \A a \in Pairs : applicants'[a].count = applicants[a].count
  BY <1>1 DEF BoardInv, TypeOK, WithStatus, Application
<1>4. CASE x = v
  <2>1. vacancy'[v].filled = vacancy[v].filled + app.count
    <3>1. vacancy[v] \in Vacancy /\ app \in Application /\ app.count \in 1 .. vacancy[v].needed
      BY <1>2 DEF BoardInv, TypeOK, CountsFit, Pairs
    <3>2. vac.filled = vacancy[v].filled + app.count
      BY <1>2, <3>1, AcceptArithmetic DEF HasRoom
    <3> QED
      BY <1>2, <3>2 DEF BoardInv, TypeOK
  <2>2. u \notin AcceptedOf(v)
    BY <1>2 DEF AcceptedOf
  <2>3. AcceptedOf(v)' = AcceptedOf(v) \cup {u}
    <3>1. applicants'[<<v, u>>].status = "accepted"
      BY <1>1 DEF BoardInv, TypeOK, WithStatus, Application, Pairs
    <3>2. ASSUME NEW w \in Users, w # u
          PROVE  applicants'[<<v, w>>].status = "accepted" <=> applicants[<<v, w>>].status = "accepted"
      <4>1. CASE w \in out
        BY <1>1, <3>2, <4>1 DEF BoardInv, TypeOK, WithStatus, Application, Pairs, Displaced
      <4>2. CASE w \notin out
        BY <1>1, <3>2, <4>2 DEF Pairs
      <4> QED
        BY <4>1, <4>2
    <3> QED
      BY <3>1, <3>2 DEF AcceptedOf
  <2>4. \A w \in AcceptedOf(v)' : applicants'[<<v, w>>].count = applicants[<<v, w>>].count
    BY <1>3 DEF AcceptedOf, Pairs
  <2> QED
    BY <1>4, <2>1, <2>2, <2>3, <2>4, CoverAdd DEF BoardInv
<1>5. CASE x # v
  <2>1. \A w \in Users : applicants'[<<x, w>>] = applicants[<<x, w>>]
    BY <1>1, <1>5 DEF Pairs
  <2>2. AcceptedOf(x)' = AcceptedOf(x) /\ vacancy'[x] = vacancy[x]
    BY <1>2, <1>5, <2>1 DEF AcceptedOf, BoardInv, TypeOK
  <2> QED
    BY <2>1, <2>2, CoverSame DEF AcceptedOf
<1> QED
  BY <1>4, <1>5

(* Rejecting and cancelling: the worker leaves the accepted ones, if among *)
(* them, and a cancellation of an accepted one takes its places back.      *)
LEMMA LeavingCovers ==
  ASSUME BoardInv, TypeOK', NEW v \in Vacancies, NEW u \in Users,
         RejectApplication(v, u) \/ CancelMyJob(v, u), NEW x \in Vacancies, Covered(x)
  PROVE  Covered(x)'
<1> DEFINE app == applicants[<<v, u>>]
<1>1. PICK new : applicants' = [applicants EXCEPT ![<<v, u>>] = new] /\ new.status # "accepted"
  <2>1. CASE RejectApplication(v, u)
    <3>1. WithStatus(app, "rejected").status # "accepted"
      BY DEF WithStatus, BoardInv, TypeOK, Application, Pairs
    <3> QED
      BY <2>1, <3>1 DEF RejectApplication
  <2>2. CASE CancelMyJob(v, u)
    <3>1. NoApplication.status # "accepted"
      BY DEF NoApplication
    <3>2. applicants' = [applicants EXCEPT ![<<v, u>>] = NoApplication]
      BY <2>2 DEF CancelMyJob
    <3> QED
      BY <3>1, <3>2
  <2> QED
    BY <2>1, <2>2
<1>2. \A a \in Pairs : a # <<v, u>> => applicants'[a] = applicants[a]
  BY <1>1 DEF BoardInv, TypeOK
<1>3. applicants'[<<v, u>>].status # "accepted"
  BY <1>1 DEF BoardInv, TypeOK, Pairs
<1>4. AcceptedOf(v)' = AcceptedOf(v) \ {u}
  BY <1>2, <1>3 DEF AcceptedOf, Pairs
<1>5. \A y \in Vacancies : y # v => vacancy'[y] = vacancy[y] /\ AcceptedOf(y)' = AcceptedOf(y)
  BY <1>2 DEF RejectApplication, CancelMyJob, BoardInv, TypeOK, AcceptedOf, Pairs
<1>6. CASE x # v
  BY <1>2, <1>5, <1>6, CoverSame DEF AcceptedOf, Pairs
<1>7. CASE x = v /\ app.status = "accepted"
  <2>1. u \in AcceptedOf(v)
    BY <1>7 DEF AcceptedOf
  <2>2. vacancy'[v].filled >= vacancy[v].filled \/ vacancy'[v].filled >= vacancy[v].filled - app.count
    <3>1. vacancy[v].filled \in Nat /\ app.count \in Nat /\ vacancy[v] \in Vacancy
      BY DEF BoardInv, TypeOK, Vacancy, Application, Pairs
    <3>2. CASE RejectApplication(v, u)
      BY <3>1, <3>2 DEF RejectApplication
    <3>3. CASE CancelMyJob(v, u)
      <4>1. vacancy' = [vacancy EXCEPT ![v] = AfterCancel(vacancy[v], app)]
        BY <1>7, <3>3 DEF CancelMyJob, HoldsPlaces
      <4>2. vacancy'[v] = AfterCancel(vacancy[v], app)
        BY <4>1 DEF BoardInv, TypeOK
      <4> DEFINE rest == IF app.count > vacancy[v].filled THEN 0 ELSE vacancy[v].filled - app.count
      <4>3. AfterCancel(vacancy[v], app).filled = rest
        BY <3>1 DEF AfterCancel, Vacancy
      <4>4. rest >= vacancy[v].filled - app.count
        BY <3>1
      <4> QED
        BY <4>2, <4>3, <4>4
    <3> QED
      BY <3>2, <3>3
  <2>3. \A w \in AcceptedOf(v)' : applicants'[<<v, w>>].count = applicants[<<v, w>>].count
    BY <1>2, <1>3 DEF AcceptedOf, Pairs
  <2> QED
    BY <1>4, <1>7, <2>1, <2>2, <2>3, CoverDrop DEF BoardInv
<1>8. CASE x = v /\ app.status # "accepted"
  <2>1. u \notin AcceptedOf(v)
    BY <1>8 DEF AcceptedOf
  <2>2. vacancy' = vacancy
    BY <1>8 DEF RejectApplication, CancelMyJob, HoldsPlaces
  <2>3. AcceptedOf(v)' = AcceptedOf(v)
    BY <1>4, <2>1
  <2>4. \A w \in AcceptedOf(v) : applicants'[<<v, w>>].count = applicants[<<v, w>>].count
    BY <1>2, <2>1 DEF AcceptedOf, Pairs
  <2> QED
    BY <1>8, <2>2, <2>3, <2>4, CoverSame
<1> QED
  BY <1>6, <1>7, <1>8

(* A step that keeps the applicants and the places given away.             *)
LEMMA UntouchedCovers ==
  ASSUME NEW x \in Vacancies, Covered(x),
         applicants' = applicants, vacancy'[x].filled = vacancy[x].filled
  PROVE  Covered(x)'
  BY CoverSame DEF AcceptedOf

LEMMA NextCovers ==
  ASSUME BoardInv, BoardInv', SlotInv, [Next]_vars
  PROVE  SlotInv'
<1> SUFFICES ASSUME NEW x \in Vacancies PROVE Covered(x)'
  BY DEF SlotInv
<1>0. Covered(x) /\ TypeOK /\ TypeOK'
  BY DEF SlotInv, BoardInv
<1>1. ASSUME NEW v \in Vacancies, CreateVacancy(v) PROVE Covered(x)'
  <2>1. CASE x = v
    <3>1. AcceptedOf(v)' = {}
      <4>1. \A u \in Users : ~HasRecord(v, u)
        BY <1>1 DEF BoardInv, CountsFit, CreateVacancy
      <4> QED
        BY <1>1, <4>1 DEF CreateVacancy, AcceptedOf, HasRecord, NoApplication
    <3>2. vacancy'[v].filled = 0
      BY <1>0, <1>1 DEF CreateVacancy, NewVacancy, TypeOK
    <3>3. PlacesOf(applicants', v, {}) = 0
      BY PlacesEmpty
    <3> QED
      BY <2>1, <3>1, <3>2, <3>3, FS_EmptySet DEF Covered
  <2>2. CASE x # v
    BY <1>0, <1>1, <2>2, UntouchedCovers DEF CreateVacancy, TypeOK
  <2> QED
    BY <2>1, <2>2
<1>2. ASSUME NEW v \in Vacancies, NEW u \in Users, Apply(v, u) PROVE Covered(x)'
  <2>1. ~HasRecord(v, u) /\ vacancy' = vacancy
    BY <1>2 DEF Apply
  <2>2. PICK n : applicants' = applicants \/ applicants' = [applicants EXCEPT ![<<v, u>>] = NewApplication(n)]
    BY <1>2 DEF Apply
  <2>3. u \notin AcceptedOf(v) /\ u \notin AcceptedOf(v)'
    BY <1>0, <2>1, <2>2 DEF HasRecord, AcceptedOf, NoApplication, NewApplication, TypeOK, Pairs
  <2>4. \A a \in Pairs : a # <<v, u>> => applicants'[a] = applicants[a]
    BY <1>0, <2>2 DEF TypeOK
  <2>5. AcceptedOf(x)' = AcceptedOf(x)
    BY <2>3, <2>4 DEF AcceptedOf, Pairs
  <2>6. \A w \in AcceptedOf(x) : applicants'[<<x, w>>].count = applicants[<<x, w>>].count
    BY <2>3, <2>4 DEF AcceptedOf, Pairs
  <2> QED
    BY <1>0, <2>1, <2>5, <2>6, CoverSame
<1>3. ASSUME NEW v \in Vacancies, NEW u \in Users, AcceptApplication(v, u) PROVE Covered(x)'
  BY <1>0, <1>3, AcceptCovers
<1>4. ASSUME NEW v \in Vacancies, NEW u \in Users, RejectApplication(v, u) \/ CancelMyJob(v, u)
      PROVE  Covered(x)'
  BY <1>0, <1>4, LeavingCovers
<1>5. ASSUME NEW v \in Vacancies, CloseVacancy(v) PROVE Covered(x)'
  <2>1. vacancy'[x].filled = vacancy[x].filled
    BY <1>0, <1>5 DEF CloseVacancy, AfterClose, TypeOK, Vacancy
  <2> QED
    BY <1>0, <1>5, <2>1, UntouchedCovers DEF CloseVacancy
<1>6. ASSUME ExpireVacancies PROVE Covered(x)'
  <2>1. vacancy'[x].filled = vacancy[x].filled
    BY <1>0, <1>6 DEF ExpireVacancies, AfterClose, TypeOK, Vacancy
  <2> QED
    BY <1>0, <1>6, <2>1, UntouchedCovers DEF ExpireVacancies
<1>7. CASE UNCHANGED <<vacancy, applicants>>
  BY <1>0, <1>7, UntouchedCovers
<1> QED
  BY <1>1, <1>2, <1>3, <1>4, <1>5, <1>6, <1>7
  DEF Next, vars, VacancyDetail, StartPasses, LockExpires, ListApplications, DeleteWorker

(* However the requests follow one another, the places given away are      *)
(* never fewer than those of the workers accepted at the time.             *)
THEOREM SlotsAreCovered == Spec => []SlotsCoverAccepted
<1>1. Init => SlotInv
  <2> SUFFICES ASSUME Init, NEW v \in Vacancies PROVE Covered(v)
    BY DEF SlotInv
  <2>1. AcceptedOf(v) = {} /\ vacancy[v].filled = 0
    BY DEF Init, AcceptedOf, Pairs, NoApplication, NoVacancy
  <2> QED
    BY <2>1, PlacesEmpty, FS_EmptySet DEF Covered
<1>2. BoardInv /\ SlotInv /\ [Next]_vars => (BoardInv /\ SlotInv)'
  BY NextPreserves, NextCovers
<1>3. SlotInv => SlotsCoverAccepted
  BY DEF SlotInv, Covered, SlotsCoverAccepted, PlacesOf
<1> QED
  BY <1>1, <1>2, <1>3, InitBoard, PTL DEF Spec
-----------------------------------------------------------------------------
(* A step that takes no record away and adds to the sets at most what has  *)
(* a record afterwards.                                                    *)
LEMMA RecordsStay ==
  ASSUME ListedHaveRecords,
         \A v \in Vacancies, u \in Users :
           /\ HasRecord(v, u) => HasRecord(v, u)'
           /\ v \in userApps'[u] => v \in userApps[u] \/ HasRecord(v, u)',
         userApps' \in [Users -> SUBSET Vacancies]
  PROVE  ListedHaveRecords'
  BY DEF ListedHaveRecords

LEMMA NextKeepsListed ==
  ASSUME BoardInv, BoardInv', ListedHaveRecords, [Next]_vars
  PROVE  ListedHaveRecords'
<1>0. /\ userApps' \in [Users -> SUBSET Vacancies]
      /\ userApps \in [Users -> SUBSET Vacancies] /\ applicants \in [Pairs -> Application]
  BY DEF BoardInv, TypeOK
<1>1. CASE UNCHANGED <<applicants, userApps>>
  <2>1. \A v \in Vacancies, u \in Users : HasRecord(v, u)' = HasRecord(v, u)
    BY <1>1 DEF HasRecord
  <2>2. userApps' = userApps
    BY <1>1
  <2> QED BY <1>0, <2>1, <2>2, RecordsStay
<1>2. ASSUME NEW v \in Vacancies, NEW u \in Users, Apply(v, u) PROVE ListedHaveRecords'
  <2>1. PICK n \in Nat \ {0} :
          \/ UNCHANGED <<applicants, userApps>>
          \/ /\ applicants' = [applicants EXCEPT ![<<v, u>>] = NewApplication(n)]
             /\ userApps' = [userApps EXCEPT ![u] = @ \cup {v}]
    <3>1. PICK asked \in 1 .. vacancy[v].needed :
            IF Granted(vacancy[v], asked) = 0
            THEN UNCHANGED <<applicants, userApps>>
            ELSE /\ applicants' = [applicants EXCEPT ![<<v, u>>] = NewApplication(Granted(vacancy[v], asked))]
                 /\ userApps' = [userApps EXCEPT ![u] = @ \cup {v}]
      BY <1>2 DEF Apply
    <3>2. CASE Granted(vacancy[v], asked) = 0
      BY <3>1, <3>2
    <3>3. CASE Granted(vacancy[v], asked) # 0
      <4>1. Granted(vacancy[v], asked) \in Nat \ {0}
        BY <3>3, GrantedFits DEF BoardInv, TypeOK, Vacancy
      <4> QED BY <3>1, <3>3, <4>1
    <3> QED BY <3>2, <3>3
  <2>2. NewApplication(n) # NoApplication
    BY DEF NewApplication, NoApplication
  <2>3. CASE /\ applicants' = [applicants EXCEPT ![<<v, u>>] = NewApplication(n)]
             /\ userApps' = [userApps EXCEPT ![u] = @ \cup {v}]
    <3>1. <<v, u>> \in Pairs /\ HasRecord(v, u)'
      BY <1>0, <2>2, <2>3 DEF HasRecord, Pairs
    <3>2. \A x \in Vacancies, w \in Users :
            <<x, w>> # <<v, u>> => (HasRecord(x, w) => HasRecord(x, w)')
      BY <1>0, <2>3 DEF HasRecord, Pairs
    <3>3. \A x \in Vacancies, w \in Users :
            x \in userApps'[w] => x \in userApps[w] \/ (x = v /\ w = u)
      BY <1>0, <2>3
    <3> QED BY <1>0, <3>1, <3>2, <3>3, RecordsStay
  <2> QED BY <1>1, <2>1, <2>3
<1>3. ASSUME NEW v \in Vacancies, NEW u \in Users, AcceptApplication(v, u) PROVE ListedHaveRecords'
  <2>1. HasRecord(v, u)
    BY <1>3 DEF AcceptApplication, Offered, HasRecord, NoApplication
  <2>2. \A x \in Vacancies, w \in Users :
          /\ HasRecord(x, w) => HasRecord(x, w)'
          /\ x \in userApps'[w] => x \in userApps[w]
    BY <1>0, <1>3, <2>1 DEF AcceptApplication, HasRecord, WithStatus, NoApplication, Application, Pairs
  <2> QED BY <1>0, <2>2, RecordsStay
<1>4. ASSUME NEW v \in Vacancies, NEW u \in Users, RejectApplication(v, u) PROVE ListedHaveRecords'
  <2>1. \A x \in Vacancies, w \in Users :
          /\ HasRecord(x, w) => HasRecord(x, w)'
          /\ x \in userApps'[w] => x \in userApps[w]
    BY <1>0, <1>4 DEF RejectApplication, HasRecord, WithStatus, NoApplication, Application, Pairs
  <2> QED BY <1>0, <2>1, RecordsStay
<1>5. ASSUME NEW v \in Vacancies, NEW u \in Users, CancelMyJob(v, u) PROVE ListedHaveRecords'
  <2>1. /\ applicants' = [applicants EXCEPT ![<<v, u>>] = NoApplication]
        /\ userApps' = [userApps EXCEPT ![u] = Refilled(@ \ {v}, applicants', u)]
    BY <1>5 DEF CancelMyJob
  <2>2. ASSUME NEW w \in Users, NEW x \in userApps'[w] PROVE HasRecord(x, w)'
    <3>1. CASE w = u
      BY <1>0, <2>1, <2>2, <3>1 DEF Refilled, HasRecord, ListedHaveRecords, Pairs
    <3>2. CASE w # u
      BY <1>0, <2>1, <2>2, <3>2 DEF HasRecord, ListedHaveRecords, Pairs
    <3> QED BY <3>1, <3>2
  <2> QED BY <2>2 DEF ListedHaveRecords
<1>6. ASSUME NEW u \in Users, ListApplications(u) PROVE ListedHaveRecords'
  BY <1>0, <1>6, RecordsStay DEF ListApplications, Refilled, HasRecord
<1>7. ASSUME NEW v \in Vacancies, VacancyDetail(v) PROVE ListedHaveRecords'
  BY <1>0, <1>7, RecordsStay DEF VacancyDetail, Refilled, HasRecord
<1>8. ASSUME NEW u \in Users, DeleteWorker(u) PROVE ListedHaveRecords'
  BY <1>0, <1>8, RecordsStay DEF DeleteWorker, HasRecord
<1> QED
  BY <1>1, <1>2, <1>3, <1>4, <1>5, <1>6, <1>7, <1>8
  DEF Next, vars, CreateVacancy, CloseVacancy, StartPasses, LockExpires, ExpireVacancies

(* What the limit counts is real: no user's set names a vacancy without a  *)
(* record of the user, whatever is refilled, displaced or deleted.         *)
THEOREM ListedAreReal == Spec => []ListedHaveRecords
<1>1. Init => ListedHaveRecords
  BY DEF Init, ListedHaveRecords
<1>2. BoardInv /\ ListedHaveRecords /\ [Next]_vars => (BoardInv /\ ListedHaveRecords)'
  BY NextPreserves, NextKeepsListed
<1> QED BY <1>1, <1>2, InitBoard, PTL DEF Spec
-----------------------------------------------------------------------------
(***************************************************************************)
(* The limit on applications.  It needs operators that act on fresh pages  *)
(* and delete no worker: a re-accepted application is not put back into    *)
(* the user's set, and a deleted worker's set forgets live applications.   *)
(***************************************************************************)
FreshPages == StalePages = FALSE /\ Deletable = {}

(* Every live application is in the set whose size Apply compares.         *)
LiveListed == \A v \in Vacancies, u \in Users :
  Live(applicants[<<v, u>>]) => v \in userApps[u]

LimitInv == TypeOK /\ LiveListed /\ LiveWithinLimit

LEMMA LiveFinite == \A u \in Users : IsFiniteSet(LiveVacancies(u)) /\ Cardinality(LiveVacancies(u)) \in Nat
<1> TAKE u \in Users
<1>1. LiveVacancies(u) \subseteq Vacancies
  BY DEF LiveVacancies
<1> QED
  BY <1>1, FiniteAssumption, FS_Subset, FS_CardinalityType

(* Whoever gains no live application stays within the limit.               *)
LEMMA FewerLive ==
  ASSUME LiveWithinLimit, \A u \in Users : LiveVacancies(u)' \subseteq LiveVacancies(u)
  PROVE  LiveWithinLimit'
<1> SUFFICES ASSUME NEW u \in Users PROVE Cardinality(LiveVacancies(u)') <= MaxActive
  BY DEF LiveWithinLimit
<1>1. Cardinality(LiveVacancies(u)') <= Cardinality(LiveVacancies(u)) /\ IsFiniteSet(LiveVacancies(u)')
  BY LiveFinite, FS_Subset
<1>2. Cardinality(LiveVacancies(u)') \in Nat
  BY <1>1, FS_CardinalityType
<1> QED
  BY <1>1, <1>2, LiveFinite, MaxAssumption DEF LiveWithinLimit

LEMMA InitLimit == Init => LimitInv
<1> SUFFICES ASSUME Init PROVE LimitInv
  OBVIOUS
<1>1. TypeOK
  BY InitBoard DEF BoardInv
<1>2. \A v \in Vacancies, u \in Users : ~Live(applicants[<<v, u>>])
  BY DEF Init, Pairs, Live, NoApplication
<1>3. \A u \in Users : LiveVacancies(u) = {}
  BY <1>2 DEF LiveVacancies
<1> QED
  BY <1>1, <1>2, <1>3, FS_EmptySet, MaxAssumption DEF LimitInv, LiveListed, LiveWithinLimit

(* Apply: the set had room, and it held every live application.            *)
LEMMA ApplyKeepsLimit ==
  ASSUME LimitInv, TypeOK', NEW v \in Vacancies, NEW u \in Users, Apply(v, u)
  PROVE  LimitInv'
<1>1. \/ UNCHANGED <<applicants, userApps>>
      \/ /\ \E n : applicants' = [applicants EXCEPT ![<<v, u>>] = NewApplication(n)]
         /\ userApps' = [userApps EXCEPT ![u] = @ \cup {v}]
  BY DEF Apply
<1>2. CASE UNCHANGED <<applicants, userApps>>
  BY <1>2 DEF LimitInv, LiveListed, LiveWithinLimit, LiveVacancies
<1>3. CASE /\ \E n : applicants' = [applicants EXCEPT ![<<v, u>>] = NewApplication(n)]
           /\ userApps' = [userApps EXCEPT ![u] = @ \cup {v}]
  <2>1. PICK n : applicants' = [applicants EXCEPT ![<<v, u>>] = NewApplication(n)]
    BY <1>3
  <2>2. LiveListed'
    BY <1>3, <2>1 DEF LimitInv, TypeOK, LiveListed, Pairs, Live
  <2>3. LiveVacancies(u) \subseteq userApps[u] /\ IsFiniteSet(userApps[u])
    BY FiniteAssumption, FS_Subset DEF LimitInv, LiveListed, LiveVacancies, TypeOK
  <2>4. Cardinality(LiveVacancies(u)) < MaxActive
    <3>1. Cardinality(LiveVacancies(u)) <= Cardinality(userApps[u])
      BY <2>3, FS_Subset
    <3>2. Cardinality(userApps[u]) \in Nat /\ Cardinality(userApps[u]) < MaxActive
      BY <2>3, FS_CardinalityType DEF Apply, WithinLimit
    <3> QED
      BY <3>1, <3>2, LiveFinite, MaxAssumption
  <2>5. \A x \in Vacancies, w \in Users :
          <<x, w>> # <<v, u>> => applicants'[<<x, w>>] = applicants[<<x, w>>]
    BY <2>1 DEF LimitInv, TypeOK, Pairs
  <2>6. ASSUME NEW w \in Users PROVE Cardinality(LiveVacancies(w)') <= MaxActive
    <3>1. CASE w = u
      <4>1. LiveVacancies(u)' \subseteq LiveVacancies(u) \cup {v}
        BY <2>5 DEF LiveVacancies
      <4>2. /\ IsFiniteSet(LiveVacancies(u) \cup {v})
            /\ Cardinality(LiveVacancies(u) \cup {v}) <= Cardinality(LiveVacancies(u)) + 1
            /\ Cardinality(LiveVacancies(u) \cup {v}) \in Nat
        <5> DEFINE L == LiveVacancies(u)
        <5>1. IsFiniteSet(L) /\ Cardinality(L) \in Nat
          BY LiveFinite
        <5> HIDE DEF L
        <5>2. IsFiniteSet(L \cup {v})
          BY <5>1, FS_AddElement
        <5>3. Cardinality(L \cup {v}) \in {Cardinality(L), Cardinality(L) + 1}
          BY <5>1, FS_AddElement
        <5>4. Cardinality(L \cup {v}) <= Cardinality(L) + 1 /\ Cardinality(L \cup {v}) \in Nat
          BY <5>1, <5>3
        <5> QED
          BY <5>2, <5>4 DEF L
      <4>3. /\ Cardinality(LiveVacancies(u)') <= Cardinality(LiveVacancies(u) \cup {v})
            /\ Cardinality(LiveVacancies(u)') \in Nat
        BY <4>1, <4>2, FS_Subset, FS_CardinalityType
      <4>4. Cardinality(LiveVacancies(u)) \in Nat
        BY LiveFinite
      <4>5. Cardinality(LiveVacancies(u)') <= MaxActive
        BY <2>4, <4>2, <4>3, <4>4, MaxAssumption
      <4> QED
        BY <3>1, <4>5
    <3>2. CASE w # u
      <4>1. LiveVacancies(w)' = LiveVacancies(w)
        BY <2>5, <3>2 DEF LiveVacancies
      <4> QED
        BY <4>1 DEF LimitInv, LiveWithinLimit
    <3> QED
      BY <3>1, <3>2
  <2> QED
    BY <2>2, <2>6 DEF LimitInv, LiveWithinLimit
<1> QED
  BY <1>1, <1>2, <1>3

(* A step that makes no application live and drops from the sets only      *)
(* vacancies whose application is not live afterwards.                     *)
LEMMA NoNewLive ==
  ASSUME LimitInv, TypeOK',
         \A v \in Vacancies, u \in Users :
           Live(applicants[<<v, u>>])' =>
             /\ Live(applicants[<<v, u>>])
             /\ v \in userApps[u] => v \in userApps'[u]
  PROVE  LimitInv'
<1>1. LiveListed'
  BY DEF LimitInv, LiveListed
<1>2. \A u \in Users : LiveVacancies(u)' \subseteq LiveVacancies(u)
  BY DEF LiveVacancies
<1> QED
  BY <1>1, <1>2, FewerLive DEF LimitInv
LEMMA NextKeepsLimit ==
  ASSUME FreshPages, LimitInv, BoardInv', [Next]_vars
  PROVE  LimitInv'
<1> USE DEF Live
<1>0. TypeOK'
  BY DEF BoardInv
<1>1. ASSUME NEW v \in Vacancies, CreateVacancy(v) \/ CloseVacancy(v) \/ StartPasses(v) PROVE LimitInv'
  BY <1>0, <1>1, NoNewLive DEF CreateVacancy, CloseVacancy, StartPasses
<1>2. ASSUME NEW v \in Vacancies, NEW u \in Users, Apply(v, u) PROVE LimitInv'
  BY <1>0, <1>2, ApplyKeepsLimit
<1>3. ASSUME NEW v \in Vacancies, NEW u \in Users, AcceptApplication(v, u) PROVE LimitInv'
  <2> DEFINE out == IF AfterAccept(vacancy[v], applicants[<<v, u>>]).status = "filled"
                    THEN Displaced(v, u) ELSE {}
  <2>1. applicants[<<v, u>>].status = "pending" /\ u \notin out
    BY <1>3 DEF AcceptApplication, Offered, FreshPages, Displaced
  <2>2. /\ applicants' = [a \in Pairs |->
             IF a = <<v, u>> THEN WithStatus(applicants[<<v, u>>], "accepted")
             ELSE IF a[1] = v /\ a[2] \in out THEN WithStatus(applicants[a], "rejected")
             ELSE applicants[a]]
        /\ userApps' = [w \in Users |-> IF w \in out THEN userApps[w] \ {v} ELSE userApps[w]]
    BY <1>3 DEF AcceptApplication
  <2>3. \A x \in Vacancies, w \in Users : x = v /\ w \in out => ~Live(applicants'[<<x, w>>])
    BY <2>1, <2>2 DEF LimitInv, TypeOK, Pairs, WithStatus, Application
  <2>4. \A x \in Vacancies, w \in Users : Live(applicants'[<<x, w>>]) => Live(applicants[<<x, w>>])
    BY <2>1, <2>2, <2>3 DEF Pairs
  <2>5. \A x \in Vacancies, w \in Users :
          Live(applicants'[<<x, w>>]) /\ x \in userApps[w] => x \in userApps'[w]
    BY <2>2, <2>3
  <2> QED
    BY <1>0, <2>4, <2>5, NoNewLive
<1>4. ASSUME NEW v \in Vacancies, NEW u \in Users, RejectApplication(v, u) PROVE LimitInv'
  <2>1. ~Live(applicants'[<<v, u>>])
    BY <1>4 DEF RejectApplication, LimitInv, TypeOK, Pairs, WithStatus, Application
  <2>2. \A x \in Vacancies, w \in Users : <<x, w>> # <<v, u>> =>
          /\ applicants'[<<x, w>>] = applicants[<<x, w>>]
          /\ x \in userApps[w] => x \in userApps'[w]
    BY <1>4 DEF RejectApplication, LimitInv, TypeOK, Pairs
  <2> QED
    BY <1>0, <2>1, <2>2, NoNewLive
<1>5. ASSUME NEW v \in Vacancies, NEW u \in Users, CancelMyJob(v, u) PROVE LimitInv'
  <2>1. ~Live(applicants'[<<v, u>>])
    BY <1>5 DEF CancelMyJob, LimitInv, TypeOK, Pairs, NoApplication
  <2>2. \A x \in Vacancies, w \in Users : <<x, w>> # <<v, u>> =>
          /\ applicants'[<<x, w>>] = applicants[<<x, w>>]
          /\ x \in userApps[w] => x \in userApps'[w]
    BY <1>5 DEF CancelMyJob, Refilled, LimitInv, TypeOK, Pairs
  <2> QED
    BY <1>0, <2>1, <2>2, NoNewLive
<1>6. ASSUME ExpireVacancies PROVE LimitInv'
  BY <1>0, <1>6, NoNewLive DEF ExpireVacancies
<1>7. ASSUME NEW u \in Users, ListApplications(u) PROVE LimitInv'
  BY <1>0, <1>7, NoNewLive DEF ListApplications, Refilled, LimitInv, TypeOK
<1>8. ASSUME NEW v \in Vacancies, VacancyDetail(v) PROVE LimitInv'
  BY <1>0, <1>8, NoNewLive DEF VacancyDetail, Refilled, LimitInv, TypeOK
<1>9. ASSUME NEW u \in Users, DeleteWorker(u) PROVE LimitInv'
  BY <1>9 DEF DeleteWorker, FreshPages
<1>10. ASSUME NEW v \in Vacancies, NEW u \in Users, LockExpires(v, u) PROVE LimitInv'
  BY <1>0, <1>10, NoNewLive DEF LockExpires
<1>11. ASSUME UNCHANGED vars PROVE LimitInv'
  BY <1>0, <1>11, NoNewLive DEF vars
<1> QED
  BY <1>1, <1>2, <1>3, <1>4, <1>5, <1>6, <1>7, <1>8, <1>9, <1>10, <1>11 DEF Next

(* Served one request at a time, with operators who act on fresh pages, no *)
(* user ever has more live applications than the limit.                    *)
THEOREM LimitHolds ==
  ASSUME FreshPages
  PROVE  Spec => []LiveWithinLimit
<1>1. BoardInv /\ LimitInv /\ [Next]_vars => (BoardInv /\ LimitInv)'
  BY NextPreserves, NextKeepsLimit
<1>2. Init => BoardInv /\ LimitInv
  BY InitBoard, InitLimit
<1>3. LimitInv => LiveWithinLimit
  BY DEF LimitInv
<1> QED
  BY <1>1, <1>2, <1>3, PTL DEF Spec
=============================================================================
