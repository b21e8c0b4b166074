------------------------- MODULE VacancyRedisProofs -------------------------
(***************************************************************************)
(* Proofs about VacancyRedis for any number of requests, users, vacancies  *)
(* and places.                                                             *)
(***************************************************************************)
EXTENDS VacancyRedis, FiniteSetTheorems, WellFoundedInduction, TLAPS

Data == [vacancy    : [Vacancies -> Vacancy],
         applicants : [Pairs -> Application],
         userApps   : [Users -> SUBSET Vacancies],
         active     : SUBSET Vacancies,
         all        : SUBSET Vacancies]

Command ==
  [cmd : {"SET vacancy"}, v : Vacancies, vac : Vacancy]
    \cup [cmd : {"HSET app"}, v : Vacancies, u : Users, app : Application]
    \cup [cmd : {"HDEL app", "SADD apps", "SREM apps"}, v : Vacancies, u : Users]
    \cup [cmd : {"DEL apps"}, u : Users]
    \cup [cmd : {"SADD active", "SREM active", "ZADD all"}, v : Vacancies]

Request ==
  [op : Ops \cup {"none"}, at : Steps, v : Vacancies \cup {Nothing}, u : Users \cup {Nothing},
   n : Nat, fresh : BOOLEAN, vac : Vacancy, app : Application,
   todo : SUBSET Vacancies, due : SUBSET Vacancies, pipe : Seq(Command)]

(* A request has the arguments its next steps need. *)
Fits(q) ==
  /\ q.at = "pipe" => q.pipe # <<>>
  /\ q.op = "apply" => /\ q.v \in Vacancies /\ q.u \in Users
                       /\ q.at \in {"hexists", "scard", "setnx", "getvac", "pipe"}
  /\ q.at \in {"hexists", "scard", "setnx", "getvac", "hget", "hgetall", "sadd", "close"}
       => q.v \in Vacancies
  /\ q.at \in {"hexists", "scard", "setnx", "getvac", "hget", "hgetall",
               "smembers", "zrange", "scan", "sadd"} \/ q.op = "cancel"
       => q.u \in Users

TypeInv ==
  /\ db \in Data
  /\ locks \subseteq Pairs
  /\ started \subseteq Vacancies
  /\ req \in [Procs -> Request]
  /\ \A p \in Procs : Fits(req[p])

-----------------------------------------------------------------------------
LEMMA IdleTyped == Idle \in Request /\ Fits(Idle) /\ Idle.op = "none" /\ Idle.at = "idle"
                   /\ Idle.fresh = FALSE
<1>1. <<>> \in Seq(Command)
  OBVIOUS
<1>2. NoVacancy \in Vacancy /\ NoApplication \in Application
  BY DEF NoVacancy, Vacancy, NoApplication, Application
<1> QED BY <1>1, <1>2 DEF Idle, Request, Fits, Steps

LEMMA InitTypes == Init => TypeInv
<1> SUFFICES ASSUME Init PROVE TypeInv
  OBVIOUS
<1>1. NoVacancy \in Vacancy /\ NoApplication \in Application
  BY DEF NoVacancy, Vacancy, NoApplication, Application
<1>2. db \in Data
  BY <1>1 DEF Init, EmptyDb, Data
<1> QED BY <1>2, IdleTyped DEF Init, TypeInv

LEMMA RunTypes ==
  ASSUME NEW d \in Data, NEW c \in Command
  PROVE  Run(d, c) \in Data
<1>1. NoApplication \in Application
  BY DEF NoApplication, Application
<1>2. CASE c \in [cmd : {"SET vacancy"}, v : Vacancies, vac : Vacancy]
  BY <1>2 DEF Run, Data
<1>3. CASE c \in [cmd : {"HSET app"}, v : Vacancies, u : Users, app : Application]
  BY <1>3 DEF Run, Data, Pairs
<1>4. CASE c \in [cmd : {"HDEL app", "SADD apps", "SREM apps"}, v : Vacancies, u : Users]
  <2>1. CASE c.cmd = "HDEL app"
    BY <1>1, <1>4, <2>1 DEF Run, Data, Pairs
  <2>2. CASE c.cmd = "SADD apps"
    BY <1>4, <2>2 DEF Run, Data
  <2>3. CASE c.cmd = "SREM apps"
    BY <1>4, <2>3 DEF Run, Data
  <2> QED BY <1>4, <2>1, <2>2, <2>3
<1>5. CASE c \in [cmd : {"DEL apps"}, u : Users]
  BY <1>5 DEF Run, Data
<1>6. CASE c \in [cmd : {"SADD active", "SREM active", "ZADD all"}, v : Vacancies]
  BY <1>6 DEF Run, Data
<1> QED BY <1>2, <1>3, <1>4, <1>5, <1>6 DEF Command

(* The records computed from records of their types. *)
LEMMA RecordTypes ==
  ASSUME NEW vac \in Vacancy, NEW app \in Application, NEW n \in Nat
  PROVE  /\ NewVacancy(n) \in Vacancy
         /\ AfterAccept(vac, app) \in Vacancy
         /\ AfterCancel(vac, app) \in Vacancy
         /\ AfterClose(vac) \in Vacancy
         /\ Granted(vac, n) \in Nat
         /\ NewApplication(n) \in Application
         /\ \A s \in {"pending", "accepted", "rejected"} : WithStatus(app, s) \in Application
<1>1. NewVacancy(n) \in Vacancy /\ NewApplication(n) \in Application
  BY DEF NewVacancy, Vacancy, NewApplication, Application
<1>2. AfterAccept(vac, app) \in Vacancy
  <2>1. app.count \in Nat /\ vac.filled \in Nat /\ vac.needed \in Nat
    BY DEF Vacancy, Application
  <2>2. vac.filled + app.count \in Nat
    BY <2>1
  <2> HIDE DEF Application
  <2>3. CASE vac.filled + app.count >= vac.needed
    BY <2>2, <2>3 DEF AfterAccept, Vacancy
  <2>4. CASE ~(vac.filled + app.count >= vac.needed)
    BY <2>2, <2>4 DEF AfterAccept, Vacancy
  <2> QED BY <2>3, <2>4
<1>3. AfterCancel(vac, app) \in Vacancy
  <2>1. app.count \in Nat /\ vac.filled \in Nat
    BY DEF Vacancy, Application
  <2>2. (IF app.count > vac.filled THEN 0 ELSE vac.filled - app.count) \in Nat
    BY <2>1
  <2> QED BY <2>2 DEF AfterCancel, Vacancy
<1>4. AfterClose(vac) \in Vacancy
  BY DEF AfterClose, Vacancy
<1>5. Granted(vac, n) \in Nat
  BY DEF Granted, Vacancy
<1>6. \A s \in {"pending", "accepted", "rejected"} : WithStatus(app, s) \in Application
  BY DEF WithStatus, Application
<1> QED BY <1>1, <1>2, <1>3, <1>4, <1>5, <1>6

LEMMA CommandTypes ==
  ASSUME NEW v \in Vacancies, NEW u \in Users
  PROVE  /\ \A vac \in Vacancy : SetVacancy(v, vac) \in Command
         /\ \A app \in Application : HSetApp(v, u, app) \in Command
         /\ HDelApp(v, u) \in Command /\ SAddApps(v, u) \in Command
         /\ SRemApps(v, u) \in Command /\ DelApps(u) \in Command
         /\ SAddActive(v) \in Command /\ SRemActive(v) \in Command /\ ZAddAll(v) \in Command
<1>1. \A vac \in Vacancy : SetVacancy(v, vac) \in Command
  BY DEF SetVacancy, Command
<1>2. \A app \in Application : HSetApp(v, u, app) \in Command
  BY DEF HSetApp, Command
<1>3. HDelApp(v, u) \in Command /\ SAddApps(v, u) \in Command /\ SRemApps(v, u) \in Command
  BY DEF HDelApp, SAddApps, SRemApps, Command
<1>4. DelApps(u) \in Command
  BY DEF DelApps, Command
<1>5. SAddActive(v) \in Command /\ SRemActive(v) \in Command /\ ZAddAll(v) \in Command
  BY DEF SAddActive, SRemActive, ZAddAll, Command
<1> QED BY <1>1, <1>2, <1>3, <1>4, <1>5

(* A step that changes one request and nothing else. *)
LEMMA ReadTypes ==
  ASSUME TypeInv, NEW p \in Procs, NEW q \in Request, Fits(q),
         req' = [req EXCEPT ![p] = q], Read
  PROVE  TypeInv'
  BY DEF TypeInv, Read, Data

LEMMA DoneTypes ==
  ASSUME TypeInv, NEW p \in Procs, Done(p), Read
  PROVE  TypeInv'
  BY IdleTyped, ReadTypes DEF Done

(* What the steps read has its type. *)
LEMMA KeptTypes ==
  ASSUME TypeInv, NEW p \in Procs
  PROVE  /\ req[p] \in Request /\ Fits(req[p])
         /\ \A v \in Vacancies : db.vacancy[v] \in Vacancy
         /\ \A v \in Vacancies, u \in Users : db.applicants[<<v, u>>] \in Application
         /\ db.all \subseteq Vacancies
  BY DEF TypeInv, Data, Pairs

(* A request at its beginning. *)
LEMMA StartTypes ==
  ASSUME TypeInv, NEW p \in Procs, NEW op \in Ops, NEW step \in Steps, step # "pipe",
         NEW v \in Vacancies \cup {Nothing}, NEW u \in Users \cup {Nothing}, NEW n \in Nat,
         step \in {"hexists", "hget", "close"} \/ op \in {"apply", "accept", "reject"}
           => v \in Vacancies,
         step # "close" => u \in Users, op = "cancel" => u \in Users,
         op = "apply" => u \in Users /\ step = "hexists", step \notin {"scard", "setnx", "getvac", "hgetall", "sadd"},
         Start(p, op, step, v, u, n), Read
  PROVE  TypeInv'
<1> DEFINE q == [Idle EXCEPT !.op = op, !.at = step, !.v = v, !.u = u, !.n = n]
<1>1. q \in Request
  BY IdleTyped DEF Request
<1>2. Fits(q)
  BY IdleTyped, <1>1 DEF Fits, Request
<1> QED BY <1>1, <1>2, ReadTypes DEF Start

(* A request handing over its pipeline. *)
LEMMA SendTypes ==
  ASSUME TypeInv, NEW p \in Procs, NEW pipe \in Seq(Command), pipe # <<>>,
         Send(p, pipe), Read
  PROVE  TypeInv'
<1> DEFINE q == [req[p] EXCEPT !.at = "pipe", !.pipe = pipe, !.vac = NoVacancy,
                               !.app = NoApplication]
<1>0. NoVacancy \in Vacancy /\ NoApplication \in Application
  BY DEF NoVacancy, Vacancy, NoApplication, Application
<1>1. q \in Request
  BY <1>0, KeptTypes DEF Request, Steps
<1>2. Fits(q)
  BY <1>1, KeptTypes DEF Fits, Request
<1> QED BY <1>1, <1>2, ReadTypes DEF Send

LEMMA GotoTypes ==
  ASSUME TypeInv, NEW p \in Procs, NEW step \in Steps \ {"pipe"}, Goto(p, step), Read,
         step \in {"hexists", "scard", "setnx", "getvac", "hget", "hgetall", "sadd", "close"}
           => req[p].v \in Vacancies,
         step \notin {"close", "idle"} => req[p].u \in Users,
         req[p].op = "apply" => step \in {"hexists", "scard", "setnx", "getvac"}
  PROVE  TypeInv'
<1> DEFINE q == [req[p] EXCEPT !.at = step]
<1>1. q \in Request
  BY KeptTypes DEF Request
<1>2. Fits(q)
  BY <1>1, KeptTypes DEF Fits, Request
<1> QED BY <1>1, <1>2, ReadTypes DEF Goto

-----------------------------------------------------------------------------
(* The beginnings of the requests. *)
LEMMA BeginTypes ==
  ASSUME TypeInv, NEW p \in Procs, Begin(p)
  PROVE  TypeInv'
<1>1. ASSUME NEW v \in Vacancies, CreateBegin(p, v) PROVE TypeInv'
  <2>1. PICK n \in SlotChoices :
          req' = [req EXCEPT ![p] = [Idle EXCEPT !.op = "create", !.at = "pipe", !.v = v,
                   !.pipe = <<SetVacancy(v, NewVacancy(n)), ZAddAll(v), SAddActive(v)>>]]
    BY <1>1 DEF CreateBegin
  <2> DEFINE pipe == <<SetVacancy(v, NewVacancy(n)), ZAddAll(v), SAddActive(v)>>
             q == [Idle EXCEPT !.op = "create", !.at = "pipe", !.v = v, !.pipe = pipe]
  <2>2. NewVacancy(n) \in Vacancy
    BY SlotsAssumption DEF NewVacancy, Vacancy
  <2>3. SetVacancy(v, NewVacancy(n)) \in Command /\ ZAddAll(v) \in Command
        /\ SAddActive(v) \in Command
    BY <2>2 DEF Command, SetVacancy, ZAddAll, SAddActive
  <2>4. pipe \in Seq(Command) /\ pipe # <<>>
    BY <2>3
  <2> HIDE DEF pipe
  <2>5. q \in Request
    BY <1>1, <2>4, IdleTyped DEF Request, CreateBegin, Free, Steps
  <2>6. Fits(q)
    BY <2>4, <2>5, IdleTyped DEF Fits, Request
  <2>7. req' = [req EXCEPT ![p] = q] /\ Read
    BY <1>1, <2>1 DEF CreateBegin, pipe
  <2> HIDE DEF q
  <2> QED BY <2>5, <2>6, <2>7, ReadTypes
<1>2. ASSUME NEW v \in Vacancies, CloseBegin(p, v) PROVE TypeInv'
  BY <1>2, StartTypes DEF CloseBegin, Free, Steps
<1>3. ASSUME NEW v \in Vacancies, NEW u \in Users, ApplyBegin(p, v, u) PROVE TypeInv'
  <2>1. PICK n \in 1 .. db.vacancy[v].needed : Start(p, "apply", "hexists", v, u, n)
    BY <1>3 DEF ApplyBegin
  <2>2. n \in Nat
    BY KeptTypes DEF Vacancy
  <2> QED BY <1>3, <2>1, <2>2, StartTypes DEF ApplyBegin, Free, Steps
<1>4. ASSUME NEW v \in Vacancies, NEW u \in Users, DecideBegin(p, v, u) PROVE TypeInv'
  <2>1. PICK op \in {"accept", "reject"} : Free(p, op) /\ Start(p, op, "hget", v, u, 0)
    BY <1>4 DEF DecideBegin
  <2> QED BY <1>4, <2>1, StartTypes DEF DecideBegin, Free, Steps
<1>5. ASSUME NEW v \in Vacancies, NEW u \in Users, CancelBegin(p, v, u) PROVE TypeInv'
  BY <1>5, StartTypes DEF CancelBegin, Free, Steps
<1>6. ASSUME NEW u \in Users, MyJobsBegin(p, u) PROVE TypeInv'
  BY <1>6, StartTypes DEF MyJobsBegin, Free, Steps
<1>7. ASSUME NEW u \in Users, DeleteBegin(p, u) PROVE TypeInv'
  <2> DEFINE q == [Idle EXCEPT !.op = "delete", !.at = "pipe", !.u = u, !.pipe = <<DelApps(u)>>]
  <2>0. DelApps(u) \in Command
    BY DEF DelApps, Command
  <2>1. <<DelApps(u)>> \in Seq(Command) /\ <<DelApps(u)>> # <<>>
    BY <2>0
  <2>2. q \in Request
    BY <1>7, <2>1, IdleTyped DEF Request, DeleteBegin, Free, Steps
  <2>3. Fits(q)
    BY <2>1, <2>2, IdleTyped DEF Fits, Request
  <2> QED BY <1>7, <2>2, <2>3, ReadTypes DEF DeleteBegin
<1>8. ASSUME ExpireBegin(p) PROVE TypeInv'
  <2> DEFINE q == [Idle EXCEPT !.op = "expire", !.at = "list", !.todo = db.all]
  <2>1. q \in Request
    BY <1>8, KeptTypes, IdleTyped DEF Request, ExpireBegin, Free, Steps
  <2>2. Fits(q)
    BY <2>1, IdleTyped DEF Fits, Request
  <2> QED BY <1>8, <2>1, <2>2, ReadTypes DEF ExpireBegin
<1> QED BY <1>1, <1>2, <1>3, <1>4, <1>5, <1>6, <1>7, <1>8 DEF Begin

-----------------------------------------------------------------------------
(* The steps of the requests. *)
LEMMA ApplyTypes ==
  ASSUME TypeInv, NEW p \in Procs,
         ApplyHExists(p) \/ ApplySCard(p) \/ ApplySetNX(p) \/ ApplyGetVac(p)
  PROVE  TypeInv'
<1> DEFINE r == req[p]
<1>0. r \in Request /\ Fits(r)
  BY KeptTypes
<1>1. CASE ApplyHExists(p)
  <2>1. CASE Applied(p)
    BY <1>1, <2>1, DoneTypes DEF ApplyHExists
  <2>2. CASE ~Applied(p)
    <3> DEFINE b == <<r.v, r.u>> \in locks /\ ~ \E q \in Procs : PastLock(q, r.v, r.u)
               q1 == [r EXCEPT !.at = "scard", !.fresh = b]
    <3>1. b \in BOOLEAN
      OBVIOUS
    <3>2. req' = [req EXCEPT ![p] = q1] /\ Read
      BY <1>1, <2>2, KeptTypes DEF ApplyHExists, TypeInv
    <3> HIDE DEF b
    <3>3. q1 \in Request
      BY <1>0, <3>1 DEF Request, Steps
    <3>4. Fits(q1)
      BY <1>0, <1>1, <3>3 DEF Fits, Request, ApplyHExists
    <3> QED BY <3>2, <3>3, <3>4, ReadTypes
  <2> QED BY <2>1, <2>2
<1>2. CASE ApplySCard(p)
  <2>1. r.v \in Vacancies /\ r.u \in Users
    BY <1>0, <1>2 DEF Fits, ApplySCard
  <2> QED BY <1>2, <2>1, DoneTypes, GotoTypes DEF ApplySCard, Steps
<1>3. CASE ApplySetNX(p)
  <2>1. CASE Locked(<<r.v, r.u>>)
    BY <1>3, <2>1, DoneTypes DEF ApplySetNX, Read
  <2>2. CASE ~Locked(<<r.v, r.u>>)
    <3>1. r.v \in Vacancies /\ r.u \in Users
      BY <1>0, <1>3 DEF Fits, ApplySetNX
    <3>2. locks' = locks \cup {<<r.v, r.u>>} /\ UNCHANGED <<db, started>>
      BY <1>3, <2>2 DEF ApplySetNX
    <3>3. req' = [q \in Procs |->
             IF q = p THEN [req[q] EXCEPT !.at = "getvac", !.fresh = FALSE]
             ELSE IF InApply(q, r.v, r.u) THEN [req[q] EXCEPT !.fresh = FALSE]
             ELSE req[q]]
      BY <1>3, <2>2 DEF ApplySetNX
    <3>4. ASSUME NEW q \in Procs PROVE req'[q] \in Request /\ Fits(req'[q])
      <4>1. req[q] \in Request /\ Fits(req[q])
        BY KeptTypes
      <4>2. [req[q] EXCEPT !.fresh = FALSE] \in Request
        BY <4>1 DEF Request
      <4>3. Fits([req[q] EXCEPT !.fresh = FALSE])
        BY <4>1, <4>2 DEF Fits, Request
      <4>4. [r EXCEPT !.at = "getvac", !.fresh = FALSE] \in Request
        BY <1>0 DEF Request, Steps
      <4>5. Fits([r EXCEPT !.at = "getvac", !.fresh = FALSE])
        BY <1>0, <3>1, <4>4 DEF Fits, Request
      <4> QED BY <3>3, <4>1, <4>2, <4>3, <4>4, <4>5
    <3>5. locks' \subseteq Pairs
      BY <3>1, <3>2 DEF TypeInv, Pairs
    <3>6. req' \in [Procs -> Request]
      BY <3>3, <3>4
    <3> QED BY <3>2, <3>4, <3>5, <3>6 DEF TypeInv, Data
  <2> QED BY <2>1, <2>2
<1>4. CASE ApplyGetVac(p)
  <2> DEFINE n == Granted(VacOf(p), r.n)
             pipe == <<HSetApp(r.v, r.u, NewApplication(n)), SAddApps(r.v, r.u)>>
  <2>1. r.v \in Vacancies /\ r.u \in Users /\ r.n \in Nat
    BY <1>0, <1>4 DEF Fits, ApplyGetVac, Request
  <2>2. VacOf(p) \in Vacancy
    BY <2>1, KeptTypes DEF VacOf
  <2>3. n \in Nat
    BY <2>1, <2>2 DEF Granted, Vacancy
  <2> HIDE DEF n
  <2>4. NewApplication(n) \in Application
    BY <2>3 DEF NewApplication, Application
  <2>5. HSetApp(r.v, r.u, NewApplication(n)) \in Command /\ SAddApps(r.v, r.u) \in Command
    BY <2>1, <2>4, CommandTypes
  <2>6. pipe \in Seq(Command) /\ pipe # <<>>
    BY <2>5
  <2>7. CASE n = 0
    BY <1>4, <2>7, DoneTypes DEF ApplyGetVac, n
  <2>8. CASE n # 0
    <3>1. Send(p, pipe) /\ Read
      BY <1>4, <2>8 DEF ApplyGetVac, n
    <3> HIDE DEF pipe
    <3> QED BY <2>6, <3>1, SendTypes
  <2> QED BY <2>7, <2>8
<1> QED BY <1>1, <1>2, <1>3, <1>4

(* Two commands for each of the workers turned away. *)
LEMMA TurnedAwayTypes ==
  ASSUME TypeInv, NEW v \in Vacancies, NEW S \in SUBSET Users, NEW order \in SetToSeqs(S)
  PROVE  TurnedAway(v, order) \in Seq(Command)
<1>1. IsFiniteSet(S)
  BY UsersAssumption, FS_Subset
<1>2. Cardinality(S) \in Nat
  BY <1>1, FS_CardinalityType
<1>3. order \in [1 .. Cardinality(S) -> S]
  BY DEF SetToSeqs
<1>4. Len(order) \in Nat /\ \A i \in 1 .. Len(order) : order[i] \in Users
  BY <1>2, <1>3
<1> DEFINE f(i) == LET w == order[(i + 1) \div 2]
                   IN  IF i % 2 = 1
                       THEN HSetApp(v, w, WithStatus(db.applicants[<<v, w>>], "rejected"))
                       ELSE SRemApps(v, w)
<1>5. ASSUME NEW i \in 1 .. 2 * Len(order) PROVE f(i) \in Command
  <2>1. (i + 1) \div 2 \in 1 .. Len(order)
    BY <1>4
  <2> DEFINE w == order[(i + 1) \div 2]
  <2>2. w \in Users
    BY <1>4, <2>1
  <2> HIDE DEF w
  <2>3. db.applicants[<<v, w>>] \in Application
    BY <2>2 DEF TypeInv, Data, Pairs
  <2>4. WithStatus(db.applicants[<<v, w>>], "rejected") \in Application
    BY <2>3 DEF WithStatus, Application
  <2>5. HSetApp(v, w, WithStatus(db.applicants[<<v, w>>], "rejected")) \in Command
        /\ SRemApps(v, w) \in Command
    BY <2>2, <2>4, CommandTypes
  <2> QED BY <2>5 DEF w
<1>6. TurnedAway(v, order) = [i \in 1 .. 2 * Len(order) |-> f(i)]
  BY DEF TurnedAway
<1> HIDE DEF f
<1>7. 2 * Len(order) \in Nat
  BY <1>4
<1> QED BY <1>5, <1>6, <1>7

LEMMA AcceptTypes ==
  ASSUME TypeInv, NEW p \in Procs,
         AcceptHGet(p) \/ AcceptGetVac(p) \/ AcceptHGetAll(p)
  PROVE  TypeInv'
<1> DEFINE r == req[p]
<1>0. r \in Request /\ Fits(r)
  BY KeptTypes
<1>1. r.v \in Vacancies /\ r.u \in Users /\ r.app \in Application /\ r.vac \in Vacancy
  BY <1>0 DEF Fits, AcceptHGet, AcceptGetVac, AcceptHGetAll, Request
<1>2. AppOf(p) \in Application /\ VacOf(p) \in Vacancy
  BY <1>1, KeptTypes DEF AppOf, VacOf
<1>3. ASSUME NEW vac \in Vacancy
      PROVE  AcceptWrites(r, vac) \in Seq(Command) /\ AcceptWrites(r, vac) # <<>>
  <2>1. WithStatus(r.app, "accepted") \in Application
    BY <1>1 DEF WithStatus, Application
  <2>2. HSetApp(r.v, r.u, WithStatus(r.app, "accepted")) \in Command
        /\ SetVacancy(r.v, vac) \in Command
    BY <1>1, <2>1, CommandTypes
  <2> QED BY <2>2 DEF AcceptWrites
<1>4. CASE AcceptHGet(p)
  <2>1. CASE AppOf(p).status \in {"none", "accepted"}
    BY <1>4, <2>1, DoneTypes DEF AcceptHGet
  <2>2. CASE AppOf(p).status \notin {"none", "accepted"}
    <3> DEFINE q1 == [r EXCEPT !.at = "getvac", !.app = AppOf(p)]
    <3>1. req' = [req EXCEPT ![p] = q1] /\ Read
      BY <1>4, <2>2 DEF AcceptHGet, TypeInv
    <3>2. q1 \in Request
      BY <1>0, <1>2 DEF Request, Steps
    <3>3. Fits(q1)
      BY <1>0, <1>1, <1>4, <3>2 DEF Fits, Request, AcceptHGet
    <3> QED BY <3>1, <3>2, <3>3, ReadTypes
  <2> QED BY <2>1, <2>2
<1>5. CASE AcceptGetVac(p)
  <2> DEFINE vac == AfterAccept(VacOf(p), r.app)
             q1 == [r EXCEPT !.at = "hgetall", !.vac = vac]
  <2>1. vac \in Vacancy
    BY <1>1, <1>2, RecordTypes
  <2> HIDE DEF vac
  <2>2. CASE Full(VacOf(p))
    BY <1>5, <2>2, DoneTypes DEF AcceptGetVac
  <2>3. CASE ~Full(VacOf(p)) /\ vac.status # "filled"
    <3>1. Send(p, AcceptWrites(r, vac)) /\ Read
      BY <1>5, <2>3 DEF AcceptGetVac, vac
    <3> QED BY <1>3, <2>1, <3>1, SendTypes
  <2>4. CASE ~Full(VacOf(p)) /\ vac.status = "filled"
    <3>1. req' = [req EXCEPT ![p] = q1] /\ Read
      BY <1>5, <2>4 DEF AcceptGetVac, vac, TypeInv
    <3>2. q1 \in Request
      BY <1>0, <2>1 DEF Request, Steps
    <3>3. Fits(q1)
      BY <1>0, <1>1, <1>5, <3>2 DEF Fits, Request, AcceptGetVac
    <3> QED BY <3>1, <3>2, <3>3, ReadTypes
  <2> QED BY <2>2, <2>3, <2>4
<1>6. CASE AcceptHGetAll(p)
  <2> DEFINE out == {w \in Users \ {r.u} : db.applicants[<<r.v, w>>].status = "pending"}
  <2>1. PICK order \in SetToSeqs(out) :
          Send(p, AcceptWrites(r, r.vac) \o TurnedAway(r.v, order) \o <<SRemActive(r.v)>>)
    BY <1>6 DEF AcceptHGetAll
  <2>2. TurnedAway(r.v, order) \in Seq(Command)
    BY <1>1, <2>1, TurnedAwayTypes
  <2>3. <<SRemActive(r.v)>> \in Seq(Command)
    BY <1>1, CommandTypes
  <2> DEFINE writes == AcceptWrites(r, r.vac)
             away == TurnedAway(r.v, order)
             last == <<SRemActive(r.v)>>
             pipe == writes \o away \o last
  <2>4. writes \in Seq(Command) /\ writes # <<>>
    BY <1>1, <1>3
  <2>5. Send(p, pipe) /\ Read
    BY <1>6, <2>1 DEF AcceptHGetAll
  <2> HIDE DEF writes, away, last
  <2>6. pipe \in Seq(Command) /\ pipe # <<>>
    BY <2>2, <2>3, <2>4 DEF away, last
  <2> HIDE DEF pipe
  <2> QED BY <2>5, <2>6, SendTypes
<1> QED BY <1>4, <1>5, <1>6

LEMMA RejectTypes ==
  ASSUME TypeInv, NEW p \in Procs, RejectHGet(p)
  PROVE  TypeInv'
<1> DEFINE r == req[p]
           pipe == <<HSetApp(r.v, r.u, WithStatus(AppOf(p), "rejected")), SRemApps(r.v, r.u)>>
<1>1. r.v \in Vacancies /\ r.u \in Users
  BY KeptTypes DEF Fits, RejectHGet
<1>2. WithStatus(AppOf(p), "rejected") \in Application
  BY <1>1, KeptTypes DEF AppOf, WithStatus, Application
<1>3. HSetApp(r.v, r.u, WithStatus(AppOf(p), "rejected")) \in Command
      /\ SRemApps(r.v, r.u) \in Command
  BY <1>1, <1>2, CommandTypes
<1>4. pipe \in Seq(Command) /\ pipe # <<>>
  BY <1>3
<1>5. CASE AppOf(p) = NoApplication
  BY <1>5, DoneTypes DEF RejectHGet
<1>6. CASE AppOf(p) # NoApplication
  <2>1. Send(p, pipe) /\ Read
    BY <1>6 DEF RejectHGet
  <2> HIDE DEF pipe
  <2> QED BY <1>4, <2>1, SendTypes
<1> QED BY <1>5, <1>6

LEMMA CancelTypes ==
  ASSUME TypeInv, NEW p \in Procs, CancelHGet(p) \/ CancelGetVac(p)
  PROVE  TypeInv'
<1> DEFINE r == req[p]
<1>0. r \in Request /\ Fits(r)
  BY KeptTypes
<1>1. r.v \in Vacancies /\ r.u \in Users /\ r.app \in Application
  BY <1>0 DEF Fits, CancelHGet, CancelGetVac, Request
<1>2. AppOf(p) \in Application /\ VacOf(p) \in Vacancy
  BY <1>1, KeptTypes DEF AppOf, VacOf
<1>3. CASE CancelHGet(p)
  <2>1. CASE AppOf(p) = NoApplication
    BY <1>1, <1>3, <2>1, GotoTypes DEF CancelHGet, Steps
  <2>2. CASE AppOf(p) # NoApplication
    <3> DEFINE q1 == [r EXCEPT !.at = "getvac", !.app = AppOf(p)]
    <3>1. req' = [req EXCEPT ![p] = q1] /\ Read
      BY <1>3, <2>2 DEF CancelHGet, TypeInv
    <3>2. q1 \in Request
      BY <1>0, <1>2 DEF Request, Steps
    <3>3. Fits(q1)
      BY <1>0, <1>1, <3>2 DEF Fits, Request
    <3> QED BY <3>1, <3>2, <3>3, ReadTypes
  <2> QED BY <2>1, <2>2
<1>4. CASE CancelGetVac(p)
  <2> DEFINE vac == AfterCancel(VacOf(p), r.app)
             gone == <<HDelApp(r.v, r.u), SRemApps(r.v, r.u)>>
             back == IF r.app.status = "accepted" THEN <<SetVacancy(r.v, vac)>> ELSE <<>>
             again == IF r.app.status = "accepted" /\ VacOf(p).status = "filled"
                         /\ vac.status = "active"
                      THEN <<SAddActive(r.v)>> ELSE <<>>
             pipe == gone \o back \o again
  <2>1. vac \in Vacancy
    BY <1>1, <1>2, RecordTypes
  <2>2. /\ HDelApp(r.v, r.u) \in Command /\ SRemApps(r.v, r.u) \in Command
        /\ SetVacancy(r.v, vac) \in Command /\ SAddActive(r.v) \in Command
    BY <1>1, <2>1, CommandTypes
  <2>3. Send(p, pipe) /\ Read
    BY <1>4 DEF CancelGetVac
  <2> HIDE DEF vac
  <2>4. gone \in Seq(Command) /\ gone # <<>>
    BY <2>2
  <2>5. back \in Seq(Command) /\ again \in Seq(Command)
    BY <2>2
  <2> HIDE DEF gone, back, again
  <2>6. pipe \in Seq(Command) /\ pipe # <<>>
    BY <2>4, <2>5
  <2> HIDE DEF pipe
  <2> QED BY <2>3, <2>6, SendTypes
<1> QED BY <1>3, <1>4

LEMMA MyJobsTypes ==
  ASSUME TypeInv, NEW p \in Procs,
         MyJobsSMembers(p) \/ MyJobsZRange(p) \/ MyJobsScan(p) \/ MyJobsSAdd(p)
  PROVE  TypeInv'
<1> DEFINE r == req[p]
<1>0. r \in Request /\ Fits(r)
  BY KeptTypes
<1>1. r.u \in Users /\ r.todo \in SUBSET Vacancies
  BY <1>0 DEF Fits, MyJobsSMembers, MyJobsZRange, MyJobsScan, MyJobsSAdd, Request
<1>2. CASE MyJobsSMembers(p)
  BY <1>0, <1>1, <1>2, DoneTypes, GotoTypes DEF MyJobsSMembers, Steps, Fits
<1>3. CASE MyJobsZRange(p)
  <2>1. CASE db.all = {}
    BY <1>3, <2>1, DoneTypes DEF MyJobsZRange
  <2>2. CASE db.all # {}
    <3> DEFINE q1 == [r EXCEPT !.at = "scan", !.todo = db.all]
    <3>1. req' = [req EXCEPT ![p] = q1] /\ Read
      BY <1>3, <2>2 DEF MyJobsZRange, TypeInv
    <3>2. q1 \in Request
      BY <1>0, KeptTypes DEF Request, Steps
    <3>3. Fits(q1)
      BY <1>0, <1>1, <1>3, <3>2 DEF Fits, Request, MyJobsZRange
    <3> QED BY <3>1, <3>2, <3>3, ReadTypes
  <2> QED BY <2>1, <2>2
<1>4. CASE MyJobsScan(p)
  <2>1. PICK v \in r.todo :
          IF db.applicants[<<v, r.u>>] # NoApplication
          THEN req' = [req EXCEPT ![p].at = "sadd", ![p].v = v, ![p].todo = r.todo \ {v}]
          ELSE IF r.todo \ {v} = {} THEN Done(p)
               ELSE req' = [req EXCEPT ![p].todo = r.todo \ {v}]
    BY <1>4 DEF MyJobsScan
  <2> DEFINE q1 == [r EXCEPT !.at = "sadd", !.v = v, !.todo = r.todo \ {v}]
             q2 == [r EXCEPT !.todo = r.todo \ {v}]
  <2>2. req' = [req EXCEPT ![p] = q1] \/ Done(p) \/ req' = [req EXCEPT ![p] = q2]
    BY <2>1 DEF TypeInv
  <2>3. v \in Vacancies /\ r.todo \ {v} \in SUBSET Vacancies
    BY <1>1
  <2>4. q1 \in Request /\ q2 \in Request
    BY <1>0, <2>3 DEF Request, Steps
  <2>5. Fits(q1) /\ Fits(q2)
    BY <1>0, <1>1, <1>4, <2>3, <2>4 DEF Fits, Request, MyJobsScan
  <2>6. Read
    BY <1>4 DEF MyJobsScan
  <2> QED BY <2>2, <2>4, <2>5, <2>6, ReadTypes, DoneTypes
<1>5. CASE MyJobsSAdd(p)
  <2> DEFINE q1 == [r EXCEPT !.at = "scan", !.v = Nothing]
  <2>1. r.v \in Vacancies
    BY <1>0, <1>5 DEF Fits, MyJobsSAdd
  <2>2. SAddApps(r.v, r.u) \in Command
    BY <1>1, <2>1, CommandTypes
  <2>3. db' \in Data /\ UNCHANGED <<locks, started>>
    BY <1>5, <2>2, RunTypes DEF MyJobsSAdd, TypeInv
  <2>4. q1 \in Request
    BY <1>0 DEF Request, Steps
  <2>5. Fits(q1)
    BY <1>0, <1>1, <1>5, <2>4 DEF Fits, Request, MyJobsSAdd
  <2>6. req' = [req EXCEPT ![p] = q1] \/ req' = [req EXCEPT ![p] = Idle]
    BY <1>5 DEF MyJobsSAdd, Done, TypeInv
  <2> QED BY <2>3, <2>4, <2>5, <2>6, IdleTyped DEF TypeInv
<1> QED BY <1>2, <1>3, <1>4, <1>5

LEMMA CloseTypes ==
  ASSUME TypeInv, NEW p \in Procs,
         CloseGetVac(p) \/ ExpireGet(p) \/ ExpireNow(p) \/ ExpireNext(p)
  PROVE  TypeInv'
<1> DEFINE r == req[p]
<1>0. /\ r \in Request /\ Fits(r)
      /\ r.todo \in SUBSET Vacancies /\ r.due \in SUBSET Vacancies
  BY KeptTypes DEF Request
<1>1. CASE CloseGetVac(p)
  <2> DEFINE vac == AfterClose(VacOf(p))
             pipe == <<SetVacancy(r.v, vac), SRemActive(r.v)>>
  <2>1. r.v \in Vacancies
    BY <1>0, <1>1 DEF Fits, CloseGetVac
  <2>2. vac \in Vacancy
    BY <2>1, KeptTypes DEF VacOf, AfterClose, Vacancy
  <2>3. Send(p, pipe) /\ Read
    BY <1>1 DEF CloseGetVac
  <2> HIDE DEF vac
  <2>4. SetVacancy(r.v, vac) \in Command /\ SRemActive(r.v) \in Command
    BY <2>1, <2>2 DEF SetVacancy, SRemActive, Command
  <2>5. pipe \in Seq(Command) /\ pipe # <<>>
    BY <2>4
  <2> HIDE DEF pipe
  <2> QED BY <2>3, <2>5, SendTypes
<1>2. CASE ExpireGet(p)
  <2> DEFINE active(v) == IF db.vacancy[v].status = "active" THEN {v} ELSE {}
             step(v) == IF r.todo \ {v} = {} THEN "now" ELSE "list"
             q1(v) == [r EXCEPT !.todo = r.todo \ {v}, !.due = r.due \cup active(v),
                                !.at = step(v)]
  <2>1. PICK v \in r.todo : req' = [req EXCEPT ![p] = q1(v)]
    BY <1>2 DEF ExpireGet, TypeInv
  <2>2. active(v) \in SUBSET Vacancies /\ step(v) \in {"now", "list"}
    BY <1>0
  <2> HIDE DEF active, step
  <2>3. q1(v) \in Request
    BY <1>0, <2>2 DEF Request, Steps
  <2>4. Fits(q1(v))
    BY <1>0, <1>2, <2>2, <2>3 DEF Fits, Request, ExpireGet
  <2> HIDE DEF q1
  <2> QED BY <1>2, <2>1, <2>3, <2>4, ReadTypes DEF ExpireGet
<1>3. CASE ExpireNow(p)
  <2> DEFINE due == r.due \cap started
             q1 == [r EXCEPT !.at = "next", !.due = due]
  <2>1. req' = [req EXCEPT ![p] = q1] \/ Done(p)
    BY <1>3 DEF ExpireNow, TypeInv
  <2>2. q1 \in Request
    BY <1>0 DEF Request, Steps
  <2>3. Fits(q1)
    BY <1>0, <1>3, <2>2 DEF Fits, Request, ExpireNow
  <2> HIDE DEF q1
  <2> QED BY <1>3, <2>1, <2>2, <2>3, ReadTypes, DoneTypes DEF ExpireNow
<1>4. CASE ExpireNext(p)
  <2> DEFINE q1(v) == [r EXCEPT !.at = "close", !.v = v, !.due = r.due \ {v}]
  <2>1. PICK v \in r.due : req' = [req EXCEPT ![p] = q1(v)]
    BY <1>4 DEF ExpireNext, TypeInv
  <2>2. q1(v) \in Request
    BY <1>0 DEF Request, Steps
  <2>3. Fits(q1(v))
    BY <1>0, <1>4, <2>2 DEF Fits, Request, ExpireNext
  <2> HIDE DEF q1
  <2> QED BY <1>4, <2>1, <2>2, <2>3, ReadTypes DEF ExpireNext
<1> QED BY <1>1, <1>2, <1>3, <1>4

LEMMA PipeTypes ==
  ASSUME TypeInv, NEW p \in Procs, PipeStep(p)
  PROVE  TypeInv'
<1> DEFINE r == req[p]
           rest == Tail(r.pipe)
           q1 == IF rest = <<>> THEN AfterPipe(r) ELSE [r EXCEPT !.pipe = rest]
<1>0. r \in Request /\ Fits(r) /\ r.pipe \in Seq(Command) /\ r.pipe # <<>>
  BY KeptTypes DEF Request, Fits, PipeStep
<1>1. Head(r.pipe) \in Command /\ rest \in Seq(Command) /\ <<>> \in Seq(Command)
  BY <1>0
<1>2. db' \in Data /\ UNCHANGED <<locks, started>> /\ req' = [req EXCEPT ![p] = q1]
  BY <1>1, RunTypes DEF PipeStep, TypeInv
<1>3. q1 \in Request /\ Fits(q1)
  <2>1. CASE rest # <<>>
    <3>1. [r EXCEPT !.pipe = rest] \in Request
      BY <1>0, <1>1 DEF Request
    <3>2. Fits([r EXCEPT !.pipe = rest])
      BY <1>0, <2>1, <3>1 DEF Fits, Request
    <3> QED BY <2>1, <3>1, <3>2
  <2>2. CASE rest = <<>> /\ r.op = "cancel"
    <3> DEFINE q2 == [r EXCEPT !.at = "smembers", !.pipe = <<>>]
    <3>1. q2 \in Request
      BY <1>0, <1>1 DEF Request, Steps
    <3>2. Fits(q2)
      BY <1>0, <2>2, <3>1 DEF Fits, Request
    <3> QED BY <2>2, <3>1, <3>2 DEF AfterPipe
  <2>3. CASE rest = <<>> /\ r.op = "expire" /\ r.due # {}
    <3> DEFINE q2 == [r EXCEPT !.at = "next", !.pipe = <<>>, !.v = Nothing]
    <3>1. q2 \in Request
      BY <1>0, <1>1 DEF Request, Steps
    <3>2. Fits(q2)
      BY <1>0, <2>3, <3>1 DEF Fits, Request
    <3> QED BY <2>3, <3>1, <3>2 DEF AfterPipe
  <2>4. CASE rest = <<>> /\ r.op # "cancel" /\ ~(r.op = "expire" /\ r.due # {})
    BY <2>4, IdleTyped DEF AfterPipe
  <2> QED BY <2>1, <2>2, <2>3, <2>4
<1> HIDE DEF q1
<1> QED BY <1>2, <1>3 DEF TypeInv

(* A request that passes over an error of one vacancy is over, or goes on  *)
(* to the next one with what it had read.                                  *)
LEMMA Skipped ==
  ASSUME TypeInv, NEW p \in Procs, SkipVacancy(p)
  PROVE  \/ Done(p)
         \/ \E q \in Request :
              /\ Fits(q) /\ req' = [req EXCEPT ![p] = q]
              /\ q.op = req[p].op /\ q.op # "apply" /\ q.at \in {"scan", "list", "now", "next"}
              /\ q.due = req[p].due /\ (q.pipe = req[p].pipe \/ q.pipe = <<>>)
              /\ req[p].at = "pipe" => req[p].op = "expire"
<1> DEFINE r == req[p]
           Next1(q) == /\ q.op = r.op /\ q.op # "apply" /\ q.at \in {"scan", "list", "now", "next"}
                       /\ q.due = r.due /\ (q.pipe = r.pipe \/ q.pipe = <<>>)
<1>0. r \in Request /\ Fits(r) /\ req \in [Procs -> Request] /\ <<>> \in Seq(Command)
  BY KeptTypes DEF TypeInv
<1>1. CASE r.at = "scan" /\ \E v \in r.todo :
             IF r.todo \ {v} = {} THEN Done(p) ELSE req' = [req EXCEPT ![p].todo = r.todo \ {v}]
  <2>1. PICK v \in r.todo : Done(p) \/ req' = [req EXCEPT ![p].todo = r.todo \ {v}]
    BY <1>1
  <2> DEFINE q == [r EXCEPT !.todo = r.todo \ {v}]
  <2>2. q \in Request
    BY <1>0 DEF Request
  <2>3. Fits(q) /\ Next1(q)
    BY <1>0, <1>1, <2>2 DEF Fits, Request
  <2>4. Done(p) \/ req' = [req EXCEPT ![p] = q]
    BY <1>0, <2>1
  <2> HIDE DEF q
  <2> QED BY <1>1, <2>2, <2>3, <2>4
<1>2. CASE r.at = "sadd" /\ (IF r.todo = {} THEN Done(p)
                             ELSE req' = [req EXCEPT ![p].at = "scan", ![p].v = Nothing])
  <2> DEFINE q == [r EXCEPT !.at = "scan", !.v = Nothing]
  <2>1. q \in Request
    BY <1>0 DEF Request, Steps
  <2>2. Fits(q) /\ Next1(q)
    BY <1>0, <1>2, <2>1 DEF Fits, Request
  <2>3. Done(p) \/ req' = [req EXCEPT ![p] = q]
    BY <1>0, <1>2
  <2> HIDE DEF q
  <2> QED BY <1>2, <2>1, <2>2, <2>3
<1>3. CASE r.at = "list" /\ \E v \in r.todo :
             req' = [req EXCEPT ![p].todo = r.todo \ {v},
                                ![p].at = IF r.todo \ {v} = {} THEN "now" ELSE "list"]
  <2> DEFINE step(v) == IF r.todo \ {v} = {} THEN "now" ELSE "list"
             q(v) == [r EXCEPT !.todo = r.todo \ {v}, !.at = step(v)]
  <2>1. PICK v \in r.todo : req' = [req EXCEPT ![p] = q(v)]
    BY <1>0, <1>3
  <2>2. step(v) \in {"now", "list"}
    OBVIOUS
  <2> HIDE DEF step
  <2>3. q(v) \in Request
    BY <1>0, <2>2 DEF Request, Steps
  <2>4. Fits(q(v)) /\ Next1(q(v))
    BY <1>0, <1>3, <2>2, <2>3 DEF Fits, Request
  <2> HIDE DEF q
  <2> QED BY <1>3, <2>1, <2>3, <2>4
<1>4. CASE r.op = "expire" /\ r.at \in {"close", "pipe"} /\ req' = [req EXCEPT ![p] = AfterPipe(r)]
  <2> DEFINE q == [r EXCEPT !.at = "next", !.pipe = <<>>, !.v = Nothing]
  <2>1. q \in Request
    BY <1>0 DEF Request, Steps
  <2>2. Fits(q) /\ Next1(q)
    BY <1>0, <1>4, <2>1 DEF Fits, Request
  <2>3. Done(p) \/ req' = [req EXCEPT ![p] = q]
    BY <1>4 DEF AfterPipe, Done
  <2> HIDE DEF q
  <2> QED BY <1>4, <2>1, <2>2, <2>3
<1> QED BY <1>1, <1>2, <1>3, <1>4 DEF SkipVacancy

(* An accept that turns nobody away still writes what any accept writes. *)
LEMMA NobodyAway ==
  ASSUME TypeInv, NEW p \in Procs, TurnNobodyAway(p)
  PROVE  /\ req[p].v \in Vacancies /\ req[p].u \in Users
         /\ req[p].app \in Application /\ req[p].vac \in Vacancy
         /\ req[p].op = "accept" /\ req[p].at = "hgetall"
         /\ AcceptWrites(req[p], req[p].vac) \in Seq(Command)
         /\ AcceptWrites(req[p], req[p].vac) # <<>>
         /\ <<SRemActive(req[p].v)>> \in Seq(Command)
         /\ Send(p, AcceptWrites(req[p], req[p].vac) \o <<SRemActive(req[p].v)>>)
<1> DEFINE r == req[p]
<1>0. r \in Request /\ Fits(r) /\ r.op = "accept" /\ r.at = "hgetall"
  BY KeptTypes DEF TurnNobodyAway
<1>1. r.v \in Vacancies /\ r.u \in Users /\ r.app \in Application /\ r.vac \in Vacancy
  BY <1>0 DEF Fits, Request
<1>2. WithStatus(r.app, "accepted") \in Application
  BY <1>1 DEF WithStatus, Application
<1>3. HSetApp(r.v, r.u, WithStatus(r.app, "accepted")) \in Command
      /\ SetVacancy(r.v, r.vac) \in Command /\ SRemActive(r.v) \in Command
  BY <1>1, <1>2, CommandTypes
<1>4. AcceptWrites(r, r.vac) \in Seq(Command) /\ AcceptWrites(r, r.vac) # <<>>
  BY <1>3 DEF AcceptWrites
<1> QED BY <1>0, <1>1, <1>3, <1>4 DEF TurnNobodyAway

LEMMA PassOverTypes ==
  ASSUME TypeInv, NEW p \in Procs, PassOver(p)
  PROVE  TypeInv'
<1>1. CASE TurnNobodyAway(p)
  <2> DEFINE writes == AcceptWrites(req[p], req[p].vac)
             last == <<SRemActive(req[p].v)>>
             pipe == writes \o last
  <2>1. writes \in Seq(Command) /\ writes # <<>> /\ last \in Seq(Command) /\ Send(p, pipe)
    BY <1>1, NobodyAway
  <2> HIDE DEF writes, last
  <2>2. pipe \in Seq(Command) /\ pipe # <<>>
    BY <2>1
  <2> HIDE DEF pipe
  <2> QED BY <2>1, <2>2, SendTypes DEF PassOver
<1>2. CASE SkipVacancy(p)
  BY <1>2, Skipped, ReadTypes, DoneTypes DEF PassOver
<1> QED BY <1>1, <1>2 DEF PassOver

LEMMA NextTypes == TypeInv /\ [Next]_vars => TypeInv'
<1> SUFFICES ASSUME TypeInv, [Next]_vars PROVE TypeInv'
  OBVIOUS
<1>1. ASSUME NEW p \in Procs, Begin(p) PROVE TypeInv'
  BY <1>1, BeginTypes
<1>2. ASSUME NEW p \in Procs, Step(p) PROVE TypeInv'
  BY <1>2, ApplyTypes, AcceptTypes, RejectTypes, CancelTypes, MyJobsTypes, CloseTypes,
     PipeTypes DEF Step
<1>3. ASSUME NEW p \in Procs, Fail(p) \/ PassOver(p) PROVE TypeInv'
  BY <1>3, DoneTypes, PassOverTypes DEF Fail
<1>4. ASSUME NEW v \in Vacancies, StartPasses(v) PROVE TypeInv'
  BY <1>4 DEF StartPasses, TypeInv, Data
<1>5. ASSUME NEW v \in Vacancies, NEW u \in Users, LockExpires(v, u) PROVE TypeInv'
  BY <1>5 DEF LockExpires, TypeInv, Data
<1>6. CASE UNCHANGED vars
  BY <1>6 DEF vars, TypeInv, Data
<1> QED BY <1>1, <1>2, <1>3, <1>4, <1>5, <1>6 DEF Next

(* In every state of every behaviour the keys in Redis and the requests    *)
(* have their types: no handler writes a record of another shape.          *)
THEOREM Typed == Spec => []TypeOK
<1>1. Spec => []TypeInv
  BY InitTypes, NextTypes, PTL DEF Spec
<1>2. TypeInv => TypeOK
  BY DEF TypeInv, TypeOK, Data, Request
<1> QED BY <1>1, <1>2, PTL

-----------------------------------------------------------------------------
(* The lock: whoever is past it holds it, and nobody else is past it.      *)
LockInv ==
  /\ ApplyMutex
  /\ \A v \in Vacancies, u \in Users, p \in Procs :
       PastLock(p, v, u) => <<v, u>> \in locks /\ ~req[p].fresh

(* Only the step that takes the lock leads past it.                        *)
Taking(p) == ApplySetNX(p) /\ ~Locked(<<req[p].v, req[p].u>>)

Writing(r) == r.op = "apply" /\ r.at \in {"getvac", "pipe"}

LEMMA OnlySetNXPasses ==
  ASSUME TypeInv, NEW p \in Procs, Begin(p) \/ Step(p) \/ Fail(p) \/ PassOver(p), ~Taking(p)
  PROVE  /\ locks' = locks
         /\ \A q \in Procs : q # p => req'[q] = req[q]
         /\ Writing(req'[p])
              => /\ Writing(req[p]) /\ req'[p].fresh = req[p].fresh
                 /\ req'[p].v = req[p].v /\ req'[p].u = req[p].u
<1> DEFINE r == req[p]
           Goal == /\ locks' = locks
                   /\ \A q \in Procs : q # p => req'[q] = req[q]
                   /\ Writing(req'[p])
                        => /\ Writing(r) /\ req'[p].fresh = r.fresh
                           /\ req'[p].v = r.v /\ req'[p].u = r.u
<1>0. req \in [Procs -> Request] /\ r \in Request /\ Fits(r)
  BY KeptTypes DEF TypeInv
<1>1. ASSUME Done(p), UNCHANGED locks PROVE Goal
  BY <1>0, <1>1, IdleTyped DEF Done, Writing
<1>101. ASSUME NEW pipe, Send(p, pipe), UNCHANGED locks, r.op # "apply" \/ Writing(r) PROVE Goal
  BY <1>0, <1>101 DEF Send, Writing, Request
<1>2. ASSUME Begin(p) PROVE Goal
  <2>0. ASSUME NEW op, NEW step \in {"hexists", "hget", "smembers", "close"}, NEW v, NEW u, NEW n,
               Start(p, op, step, v, u, n), Read
        PROVE  Goal
    BY <1>0, <2>0, IdleTyped DEF Start, Idle, Writing, Read
  <2>1. ASSUME NEW v \in Vacancies, CreateBegin(p, v) PROVE Goal
    BY <1>0, <2>1 DEF CreateBegin, Idle, Writing, Read
  <2>2. ASSUME NEW v \in Vacancies, CloseBegin(p, v) PROVE Goal
    BY <2>0, <2>2 DEF CloseBegin
  <2>3. ASSUME NEW v \in Vacancies, NEW u \in Users, ApplyBegin(p, v, u) PROVE Goal
    BY <2>0, <2>3 DEF ApplyBegin
  <2>4. ASSUME NEW v \in Vacancies, NEW u \in Users, DecideBegin(p, v, u) PROVE Goal
    BY <2>0, <2>4 DEF DecideBegin
  <2>5. ASSUME NEW v \in Vacancies, NEW u \in Users, CancelBegin(p, v, u) PROVE Goal
    BY <2>0, <2>5 DEF CancelBegin
  <2>6. ASSUME NEW u \in Users, MyJobsBegin(p, u) PROVE Goal
    BY <2>0, <2>6 DEF MyJobsBegin
  <2>7. ASSUME NEW u \in Users, DeleteBegin(p, u) PROVE Goal
    BY <1>0, <2>7 DEF DeleteBegin, Idle, Writing, Read
  <2>8. ASSUME ExpireBegin(p) PROVE Goal
    BY <1>0, <2>8 DEF ExpireBegin, Idle, Writing, Read
  <2> QED BY <1>2, <2>1, <2>2, <2>3, <2>4, <2>5, <2>6, <2>7, <2>8 DEF Begin
<1>3. ASSUME ApplyHExists(p) PROVE Goal
  BY <1>0, <1>1, <1>3 DEF ApplyHExists, Read, Writing, Request
<1>4. ASSUME ApplySCard(p) PROVE Goal
  BY <1>0, <1>1, <1>4 DEF ApplySCard, Read, Writing, Goto, Request
<1>5. ASSUME ApplySetNX(p) PROVE Goal
  BY <1>1, <1>5 DEF ApplySetNX, Taking
<1>6. ASSUME ApplyGetVac(p) PROVE Goal
  BY <1>1, <1>101, <1>6 DEF ApplyGetVac, Read, Writing
<1>7. ASSUME AcceptHGet(p) PROVE Goal
  BY <1>0, <1>1, <1>7 DEF AcceptHGet, Read, Writing, Request
<1>8. ASSUME AcceptGetVac(p) PROVE Goal
  <2> DEFINE vac == AfterAccept(VacOf(p), r.app)
  <2>1. UNCHANGED locks /\ r.op = "accept"
    BY <1>8 DEF AcceptGetVac, Read
  <2>2. \/ Done(p) \/ Send(p, AcceptWrites(r, vac))
        \/ req' = [req EXCEPT ![p].at = "hgetall", ![p].vac = vac]
    BY <1>8 DEF AcceptGetVac
  <2> HIDE DEF vac
  <2>3. CASE req' = [req EXCEPT ![p].at = "hgetall", ![p].vac = vac]
    BY <1>0, <2>1, <2>3 DEF Writing, Request
  <2> QED BY <1>1, <1>101, <2>1, <2>2, <2>3
<1>9. ASSUME AcceptHGetAll(p) PROVE Goal
  BY <1>0, <1>9 DEF AcceptHGetAll, Read, Writing, Send, Request
<1>10. ASSUME RejectHGet(p) PROVE Goal
  BY <1>0, <1>1, <1>10 DEF RejectHGet, Read, Writing, Send, Request
<1>11. ASSUME CancelHGet(p) PROVE Goal
  BY <1>0, <1>11 DEF CancelHGet, Read, Writing, Goto, Request
<1>12. ASSUME CancelGetVac(p) PROVE Goal
  BY <1>0, <1>12 DEF CancelGetVac, Read, Writing, Send, Request
<1>13. ASSUME MyJobsSMembers(p) PROVE Goal
  BY <1>0, <1>1, <1>13 DEF MyJobsSMembers, Read, Writing, Goto, Request
<1>14. ASSUME MyJobsZRange(p) PROVE Goal
  BY <1>0, <1>1, <1>14 DEF MyJobsZRange, Read, Writing, Request
<1>15. ASSUME MyJobsScan(p) PROVE Goal
  <2>1. PICK v \in r.todo :
          IF db.applicants[<<v, r.u>>] # NoApplication
          THEN req' = [req EXCEPT ![p].at = "sadd", ![p].v = v, ![p].todo = r.todo \ {v}]
          ELSE IF r.todo \ {v} = {} THEN Done(p)
               ELSE req' = [req EXCEPT ![p].todo = r.todo \ {v}]
    BY <1>15 DEF MyJobsScan
  <2>2. UNCHANGED locks /\ r.at = "scan"
    BY <1>15 DEF MyJobsScan, Read
  <2>3. CASE req' = [req EXCEPT ![p].at = "sadd", ![p].v = v, ![p].todo = r.todo \ {v}]
    BY <1>0, <2>2, <2>3 DEF Writing, Request
  <2>4. CASE req' = [req EXCEPT ![p].todo = r.todo \ {v}]
    BY <1>0, <2>2, <2>4 DEF Writing, Request
  <2> QED BY <1>1, <2>1, <2>2, <2>3, <2>4
<1>16. ASSUME MyJobsSAdd(p) PROVE Goal
  BY <1>0, <1>1, <1>16 DEF MyJobsSAdd, Writing, Request
<1>17. ASSUME CloseGetVac(p) PROVE Goal
  BY <1>0, <1>17 DEF CloseGetVac, Read, Writing, Send, Request, Fits
<1>18. ASSUME ExpireGet(p) PROVE Goal
  BY <1>0, <1>18 DEF ExpireGet, Read, Writing, Request
<1>19. ASSUME ExpireNow(p) PROVE Goal
  BY <1>0, <1>1, <1>19 DEF ExpireNow, Read, Writing, Request
<1>20. ASSUME ExpireNext(p) PROVE Goal
  BY <1>0, <1>20 DEF ExpireNext, Read, Writing, Request
<1>21. ASSUME PipeStep(p) PROVE Goal
  BY <1>0, <1>21, IdleTyped DEF PipeStep, AfterPipe, Writing, Request
<1>22. ASSUME Fail(p) PROVE Goal
  BY <1>1, <1>22 DEF Fail, Read
<1>23. ASSUME TurnNobodyAway(p), Read PROVE Goal
  BY <1>101, <1>23, NobodyAway DEF Read
<1>24. ASSUME SkipVacancy(p), Read PROVE Goal
  <2>1. CASE Done(p)
    BY <1>1, <1>24, <2>1 DEF Read
  <2>2. CASE \E q \in Request : req' = [req EXCEPT ![p] = q] /\ q.op # "apply"
    BY <1>0, <1>24, <2>2 DEF Read, Writing
  <2> QED BY <1>24, <2>1, <2>2, Skipped
<1> QED BY <1>2, <1>3, <1>4, <1>5, <1>6, <1>7, <1>8, <1>9, <1>10, <1>11, <1>12, <1>13,
           <1>14, <1>15, <1>16, <1>17, <1>18, <1>19, <1>20, <1>21, <1>22, <1>23,
           <1>24 DEF Step, PassOver

(* What the step that takes the lock changes. *)
LEMMA TakingEffect ==
  ASSUME TypeInv, NEW p \in Procs, Taking(p)
  PROVE  /\ req[p].v \in Vacancies /\ req[p].u \in Users
         /\ req[p].op = "apply" /\ req[p].at = "setnx"
         /\ <<req[p].v, req[p].u>> \notin locks /\ locks' = locks \cup {<<req[p].v, req[p].u>>}
         /\ UNCHANGED <<db, started>>
         /\ req'[p] = [req[p] EXCEPT !.at = "getvac", !.fresh = FALSE]
         /\ \A q \in Procs : q # p =>
              req'[q] = IF InApply(q, req[p].v, req[p].u)
                        THEN [req[q] EXCEPT !.fresh = FALSE] ELSE req[q]
<1>1. req[p].v \in Vacancies /\ req[p].u \in Users
  BY KeptTypes DEF Taking, ApplySetNX, Fits
<1> QED BY <1>1 DEF Taking, ApplySetNX, Locked

LEMMA NextLock == TypeInv /\ LockInv /\ [Next]_vars => LockInv'
<1> SUFFICES ASSUME TypeInv, LockInv, [Next]_vars PROVE LockInv'
  OBVIOUS
<1>0. req \in [Procs -> Request]
  BY DEF TypeInv
<1>1. ASSUME NEW p \in Procs, Begin(p) \/ Step(p) \/ Fail(p) \/ PassOver(p), ~Taking(p) PROVE LockInv'
  <2>1. ASSUME NEW q \in Procs, NEW v \in Vacancies, NEW u \in Users, PastLock(q, v, u)'
        PROVE  PastLock(q, v, u) /\ req'[q].fresh = req[q].fresh
    BY <1>1, <2>1, OnlySetNXPasses DEF PastLock, InApply, Writing
  <2>2. locks' = locks
    BY <1>1, OnlySetNXPasses
  <2> QED BY <2>1, <2>2 DEF LockInv, ApplyMutex
<1>2. ASSUME NEW p \in Procs, Taking(p) PROVE LockInv'
  <2> DEFINE v0 == req[p].v
             u0 == req[p].u
  <2>1. \A q \in Procs : ~PastLock(q, v0, u0)
    BY <1>2, TakingEffect DEF LockInv
  <2>2. ASSUME NEW q \in Procs, q # p, NEW v \in Vacancies, NEW u \in Users, PastLock(q, v, u)'
        PROVE  PastLock(q, v, u) /\ req'[q] = req[q]
    <3>1. CASE InApply(q, v0, u0)
      <4>1. req'[q] = [req[q] EXCEPT !.fresh = FALSE]
        BY <1>2, <2>2, <3>1, TakingEffect
      <4>2. req[q] \in Request
        BY <1>0
      <4> QED BY <2>1, <2>2, <3>1, <4>1, <4>2 DEF PastLock, InApply, Request
    <3>2. CASE ~InApply(q, v0, u0)
      BY <1>2, <2>2, <3>2, TakingEffect DEF PastLock, InApply
    <3> QED BY <3>1, <3>2
  <2>3. ASSUME NEW v \in Vacancies, NEW u \in Users, PastLock(p, v, u)'
        PROVE  v = v0 /\ u = u0 /\ ~req'[p].fresh /\ <<v, u>> \in locks'
    BY <1>0, <1>2, <2>3, TakingEffect DEF PastLock, InApply, Request
  <2>4. locks \subseteq locks'
    BY <1>2, TakingEffect
  <2>5. ApplyMutex'
    <3> SUFFICES ASSUME NEW v \in Vacancies, NEW u \in Users, NEW q1 \in Procs, NEW q2 \in Procs,
                        PastLock(q1, v, u)', PastLock(q2, v, u)'
                 PROVE  q1 = q2
      BY DEF ApplyMutex
    <3>1. CASE q1 = p \/ q2 = p
      BY <2>1, <2>2, <2>3, <3>1
    <3>2. CASE q1 # p /\ q2 # p
      BY <2>2, <3>2 DEF LockInv, ApplyMutex
    <3> QED BY <3>1, <3>2
  <2>6. ASSUME NEW q \in Procs, NEW v \in Vacancies, NEW u \in Users, PastLock(q, v, u)'
        PROVE  <<v, u>> \in locks' /\ ~req'[q].fresh
    BY <2>2, <2>3, <2>4, <2>6 DEF LockInv
  <2> QED BY <2>5, <2>6 DEF LockInv
<1>3. ASSUME NEW v \in Vacancies, StartPasses(v) PROVE LockInv'
  BY <1>3 DEF StartPasses, LockInv, ApplyMutex, PastLock, InApply
<1>4. ASSUME NEW v \in Vacancies, NEW u \in Users, LockExpires(v, u) PROVE LockInv'
  <2>1. \A p \in Procs : ~PastLock(p, v, u)
    BY <1>4 DEF LockExpires, LockInv, PastLock
  <2>2. req' = req /\ locks' = locks \ {<<v, u>>}
    BY <1>4 DEF LockExpires
  <2>3. \A x \in Vacancies, y \in Users, p \in Procs :
          PastLock(p, x, y) => <<x, y>> # <<v, u>>
    BY <2>1
  <2> QED BY <2>2, <2>3 DEF LockInv, ApplyMutex, PastLock, InApply
<1>5. CASE UNCHANGED vars
  BY <1>5 DEF vars, LockInv, ApplyMutex, PastLock, InApply
<1> QED BY <1>1, <1>2, <1>3, <1>4, <1>5 DEF Next

(* Whatever is redelivered and whatever else runs, no two Apply requests   *)
(* of a user for a vacancy are between SETNX and their last write at the   *)
(* same time, as long as a request is shorter than the life of its lock.   *)
THEOREM MutualExclusion == Spec => []ApplyMutex
<1>1. Init => LockInv
  BY IdleTyped DEF Init, LockInv, ApplyMutex, PastLock, InApply
<1>2. TypeInv /\ LockInv /\ [Next]_vars => TypeInv' /\ LockInv'
  BY NextTypes, NextLock
<1>3. Spec => [](TypeInv /\ LockInv)
  BY <1>1, <1>2, InitTypes, PTL DEF Spec
<1>4. LockInv => ApplyMutex
  BY DEF LockInv
<1> QED BY <1>3, <1>4, PTL

-----------------------------------------------------------------------------
(* The check and the lock together.  Without cancellations records only    *)
(* appear, and only Apply makes one appear.                                *)
Recorded(d, v, u) == d.applicants[<<v, u>>] # NoApplication

(* A command that makes no record appear or disappear. *)
Harmless(d, c) ==
  /\ c.cmd # "HDEL app"
  /\ c.cmd = "HSET app" => c.app # NoApplication /\ Recorded(d, c.v, c.u)

(* What a request still has to write. *)
Sound(d, r) ==
  /\ r.op # "cancel"
  /\ r.op = "accept" /\ r.at \in {"getvac", "hgetall"}
       => r.app.status # "none" /\ Recorded(d, r.v, r.u)
  /\ r.op = "apply" /\ r.at = "pipe"
       => \/ r.pipe = <<SAddApps(r.v, r.u)>>
          \/ \E n \in Nat : r.pipe = <<HSetApp(r.v, r.u, NewApplication(n)), SAddApps(r.v, r.u)>>
  /\ r.op # "apply" /\ r.at = "pipe" => \A i \in 1 .. Len(r.pipe) : Harmless(d, r.pipe[i])

(* About to write its record. *)
Recording(r) ==
  /\ r.op = "apply"
  /\ r.at = "getvac" \/ (r.at = "pipe" /\ Head(r.pipe).cmd = "HSET app")

(* An Apply that saw no record, for as long as it is not past the lock:    *)
(* if it began before the lock's last taker was done, a record that has    *)
(* appeared since is protected by the lock; otherwise there is none.       *)
FirstInv ==
  /\ \A p \in Procs : Sound(db, req[p])
  /\ \A p \in Procs, v \in Vacancies, u \in Users :
       InApply(p, v, u) /\ req[p].fresh
         => /\ req[p].at \in {"scard", "setnx"} /\ ~Recorded(db, v, u)
            /\ \A q \in Procs : ~PastLock(q, v, u)
  /\ \A p \in Procs, v \in Vacancies, u \in Users :
       (InApply(p, v, u) /\ req[p].at \in {"scard", "setnx"}
          /\ ~req[p].fresh /\ Recorded(db, v, u))
         => <<v, u>> \in locks
  /\ \A p \in Procs, v \in Vacancies, u \in Users :
       InApply(p, v, u) /\ Recording(req[p]) => ~Recorded(db, v, u)

-----------------------------------------------------------------------------
LEMMA HarmlessRun ==
  ASSUME NEW d \in Data, NEW c \in Command, Harmless(d, c),
         NEW v \in Vacancies, NEW u \in Users
  PROVE  Recorded(Run(d, c), v, u) <=> Recorded(d, v, u)
<1>1. CASE c \in [cmd : {"SET vacancy"}, v : Vacancies, vac : Vacancy]
  BY <1>1 DEF Run, Data, Recorded
<1>2. CASE c \in [cmd : {"HSET app"}, v : Vacancies, u : Users, app : Application]
  <2>1. Run(d, c) = [d EXCEPT !.applicants[<<c.v, c.u>>] = c.app]
    BY <1>2 DEF Run
  <2>2. c.app # NoApplication /\ d.applicants[<<c.v, c.u>>] # NoApplication
    BY <1>2 DEF Harmless, Recorded
  <2>3. d.applicants \in [Pairs -> Application] /\ <<c.v, c.u>> \in Pairs
    BY <1>2 DEF Data, Pairs
  <2>4. Run(d, c).applicants = [d.applicants EXCEPT ![<<c.v, c.u>>] = c.app]
    BY <2>1 DEF Data
  <2> QED BY <2>2, <2>3, <2>4 DEF Recorded, Pairs
<1>3. CASE c \in [cmd : {"SADD apps", "SREM apps"}, v : Vacancies, u : Users]
  BY <1>3 DEF Run, Data, Recorded
<1>4. CASE c \in [cmd : {"DEL apps"}, u : Users]
  BY <1>4 DEF Run, Data, Recorded
<1>5. CASE c \in [cmd : {"SADD active", "SREM active", "ZADD all"}, v : Vacancies]
  BY <1>5 DEF Run, Data, Recorded
<1> QED BY <1>1, <1>2, <1>3, <1>4, <1>5 DEF Command, Harmless

LEMMA HarmlessConcat ==
  ASSUME NEW d, NEW s \in Seq(Command), NEW t \in Seq(Command),
         \A i \in 1 .. Len(s) : Harmless(d, s[i]), \A i \in 1 .. Len(t) : Harmless(d, t[i])
  PROVE  \A i \in 1 .. Len(s \o t) : Harmless(d, (s \o t)[i])
<1> SUFFICES ASSUME NEW i \in 1 .. Len(s \o t) PROVE Harmless(d, (s \o t)[i])
  OBVIOUS
<1>1. CASE i <= Len(s)
  <2>1. (s \o t)[i] = s[i] /\ i \in 1 .. Len(s)
    BY <1>1
  <2> QED BY <2>1
<1>2. CASE i > Len(s)
  <2>1. (s \o t)[i] = t[i - Len(s)] /\ i - Len(s) \in 1 .. Len(t)
    BY <1>2
  <2> QED BY <2>1
<1> QED BY <1>1, <1>2

(* A request that is sound stays so while no record disappears. *)
LEMMA SoundKept ==
  ASSUME NEW d, NEW e, NEW r \in Request, Fits(r), Sound(d, r),
         \A v \in Vacancies, u \in Users : Recorded(d, v, u) => Recorded(e, v, u)
  PROVE  Sound(e, r)
<1>1. r.op = "accept" /\ r.at \in {"getvac", "hgetall"} => Recorded(e, r.v, r.u)
  BY DEF Sound, Fits
<1>2. ASSUME r.op # "apply", r.at = "pipe", NEW i \in 1 .. Len(r.pipe)
      PROVE  Harmless(e, r.pipe[i])
  <2>1. Harmless(d, r.pipe[i])
    BY <1>2 DEF Sound
  <2>2. r.pipe[i] \in Command
    BY <1>2 DEF Request
  <2>3. r.pipe[i].cmd = "HSET app" => r.pipe[i].v \in Vacancies /\ r.pipe[i].u \in Users
    BY <2>2 DEF Command
  <2> QED BY <2>1, <2>3 DEF Harmless
<1> QED BY <1>1, <1>2 DEF Sound

(* A step of a request that is not an Apply in progress, and that makes no *)
(* record appear or disappear.                                             *)
LEMMA FirstKept ==
  ASSUME TypeInv, FirstInv, NEW p \in Procs, NEW q \in Request, req' = [req EXCEPT ![p] = q],
         locks' = locks, Sound(db', q),
         q.op = "apply" => q.at = "hexists" /\ ~q.fresh,
         \A v \in Vacancies, u \in Users : Recorded(db', v, u) <=> Recorded(db, v, u)
  PROVE  FirstInv'
<1>0. req \in [Procs -> Request] /\ req'[p] = q
  BY DEF TypeInv
<1>1. \A x \in Procs : x # p => req'[x] = req[x]
  BY <1>0
<1>2. ASSUME NEW x \in Procs PROVE Sound(db', req'[x])
  <2>1. CASE x = p
    BY <1>0, <2>1
  <2>2. CASE x # p
    <3>1. Sound(db, req[x]) /\ req[x] \in Request /\ Fits(req[x])
      BY KeptTypes DEF FirstInv
    <3>2. Sound(db', req[x])
      BY <3>1, SoundKept
    <3> QED BY <1>1, <2>2, <3>2
  <2> QED BY <2>1, <2>2
<1>3. ASSUME NEW x \in Procs, NEW v \in Vacancies, NEW u \in Users, InApply(x, v, u)'
      PROVE  (x # p /\ InApply(x, v, u) /\ req'[x] = req[x])
             \/ (req'[x].at = "hexists" /\ ~req'[x].fresh)
  BY <1>0, <1>1, <1>3 DEF InApply
<1>4. ASSUME NEW x \in Procs, NEW v \in Vacancies, NEW u \in Users, PastLock(x, v, u)'
      PROVE  PastLock(x, v, u)
  BY <1>3, <1>4 DEF PastLock, InApply
<1>5. ASSUME NEW x \in Procs, NEW v \in Vacancies, NEW u \in Users,
             InApply(x, v, u)', req'[x].fresh
      PROVE  /\ req'[x].at \in {"scard", "setnx"} /\ ~Recorded(db', v, u)
             /\ \A y \in Procs : ~PastLock(y, v, u)'
  BY <1>3, <1>4, <1>5 DEF FirstInv
<1>6. ASSUME NEW x \in Procs, NEW v \in Vacancies, NEW u \in Users,
             InApply(x, v, u)', req'[x].at \in {"scard", "setnx"},
             ~req'[x].fresh, Recorded(db', v, u)
      PROVE  <<v, u>> \in locks'
  BY <1>3, <1>6 DEF FirstInv
<1>7. ASSUME NEW x \in Procs, NEW v \in Vacancies, NEW u \in Users,
             InApply(x, v, u)', Recording(req'[x])
      PROVE  ~Recorded(db', v, u)
  BY <1>3, <1>7 DEF FirstInv, Recording
<1>8. \A x \in Procs, v \in Vacancies, u \in Users :
        InApply(x, v, u)' /\ req'[x].fresh
          => /\ req'[x].at \in {"scard", "setnx"} /\ ~Recorded(db', v, u)
             /\ \A y \in Procs : ~PastLock(y, v, u)'
  BY <1>5
<1>9. \A x \in Procs, v \in Vacancies, u \in Users :
        (InApply(x, v, u)' /\ req'[x].at \in {"scard", "setnx"}
           /\ ~req'[x].fresh /\ Recorded(db', v, u))
          => <<v, u>> \in locks'
  BY <1>6
<1>10. \A x \in Procs, v \in Vacancies, u \in Users :
         InApply(x, v, u)' /\ Recording(req'[x]) => ~Recorded(db', v, u)
  BY <1>7
<1> QED BY <1>2, <1>8, <1>9, <1>10 DEF FirstInv

LEMMA FirstDone ==
  ASSUME TypeInv, FirstInv, NEW p \in Procs, Done(p), locks' = locks, db' = db
  PROVE  FirstInv'
<1>1. Sound(db', Idle)
  BY IdleTyped DEF Sound
<1>2. \A v \in Vacancies, u \in Users : Recorded(db', v, u) <=> Recorded(db, v, u)
  OBVIOUS
<1>3. req' = [req EXCEPT ![p] = Idle]
  BY DEF Done
<1> QED BY <1>1, <1>2, <1>3, FirstKept, IdleTyped

(* A reading step of a request other than Apply. *)
LEMMA FirstRead ==
  ASSUME TypeInv, TypeInv', FirstInv, NEW p \in Procs, NEW q, req' = [req EXCEPT ![p] = q], Read,
         Sound(db, q), q.op # "apply"
  PROVE  FirstInv'
<1>1. req'[p] = q /\ q \in Request
  BY DEF TypeInv
<1>2. Sound(db', q) /\ locks' = locks
      /\ \A v \in Vacancies, u \in Users : Recorded(db', v, u) <=> Recorded(db, v, u)
  BY DEF Read
<1> QED BY <1>1, <1>2, FirstKept

-----------------------------------------------------------------------------
LEMMA FirstBegin ==
  ASSUME TypeInv, TypeInv', FirstInv, NEW p \in Procs, Begin(p), "cancel" \notin Ops
  PROVE  FirstInv'
<1>0. ASSUME NEW q, req' = [req EXCEPT ![p] = q], Read, q.op # "cancel",
             q.at \in {"hexists", "hget", "smembers", "close", "list"},
             q.op = "apply" => q.at = "hexists" /\ ~q.fresh
      PROVE  FirstInv'
  <2>1. req'[p] = q /\ q \in Request
    BY <1>0 DEF TypeInv
  <2>2. Sound(db, q)
    BY <1>0 DEF Sound
  <2>3. Sound(db', q) /\ locks' = locks
        /\ \A v \in Vacancies, u \in Users : Recorded(db', v, u) <=> Recorded(db, v, u)
    BY <1>0, <2>2 DEF Read
  <2> QED BY <1>0, <2>1, <2>3, FirstKept
<1>1. ASSUME NEW op \in Ops, NEW step \in {"hexists", "hget", "smembers", "close"},
             NEW v, NEW u, NEW n, Start(p, op, step, v, u, n), Read,
             op = "apply" => step = "hexists"
      PROVE  FirstInv'
  <2> DEFINE q == [Idle EXCEPT !.op = op, !.at = step, !.v = v, !.u = u, !.n = n]
  <2>1. q.op = op /\ q.at = step /\ q.fresh = FALSE
    BY DEF Idle
  <2>2. req' = [req EXCEPT ![p] = q]
    BY <1>1 DEF Start
  <2> HIDE DEF q
  <2> QED BY <1>0, <1>1, <2>1, <2>2
<1>2. ASSUME NEW v \in Vacancies, CreateBegin(p, v) PROVE FirstInv'
  <2>1. PICK n \in SlotChoices :
          req' = [req EXCEPT ![p] = [Idle EXCEPT !.op = "create", !.at = "pipe", !.v = v,
                   !.pipe = <<SetVacancy(v, NewVacancy(n)), ZAddAll(v), SAddActive(v)>>]]
    BY <1>2 DEF CreateBegin
  <2> DEFINE pipe == <<SetVacancy(v, NewVacancy(n)), ZAddAll(v), SAddActive(v)>>
             q == [Idle EXCEPT !.op = "create", !.at = "pipe", !.v = v, !.pipe = pipe]
  <2>6. /\ Harmless(db, SetVacancy(v, NewVacancy(n))) /\ Harmless(db, ZAddAll(v))
        /\ Harmless(db, SAddActive(v))
    BY DEF Harmless, SetVacancy, ZAddAll, SAddActive
  <2>2. \A i \in 1 .. Len(pipe) : Harmless(db, pipe[i])
    BY <2>6
  <2>3. q.op = "create" /\ q.pipe = pipe
    BY DEF Idle
  <2>4. req' = [req EXCEPT ![p] = q] /\ Read
    BY <1>2, <2>1 DEF CreateBegin
  <2> HIDE DEF pipe, q
  <2>5. Sound(db, q)
    BY <2>2, <2>3 DEF Sound
  <2> QED BY <2>3, <2>4, <2>5, FirstRead
<1>3. ASSUME NEW v \in Vacancies, CloseBegin(p, v) PROVE FirstInv'
  BY <1>1, <1>3 DEF CloseBegin, Free
<1>4. ASSUME NEW v \in Vacancies, NEW u \in Users, ApplyBegin(p, v, u) PROVE FirstInv'
  BY <1>1, <1>4 DEF ApplyBegin, Free
<1>5. ASSUME NEW v \in Vacancies, NEW u \in Users, DecideBegin(p, v, u) PROVE FirstInv'
  BY <1>1, <1>5 DEF DecideBegin, Free
<1>6. ASSUME NEW v \in Vacancies, NEW u \in Users, CancelBegin(p, v, u) PROVE FALSE
  BY <1>6 DEF CancelBegin, Free
<1>7. ASSUME NEW u \in Users, MyJobsBegin(p, u) PROVE FirstInv'
  BY <1>1, <1>7 DEF MyJobsBegin, Free
<1>8. ASSUME NEW u \in Users, DeleteBegin(p, u) PROVE FirstInv'
  <2> DEFINE q == [Idle EXCEPT !.op = "delete", !.at = "pipe", !.u = u, !.pipe = <<DelApps(u)>>]
  <2>5. Harmless(db, DelApps(u))
    BY DEF Harmless, DelApps
  <2>1. \A i \in 1 .. Len(<<DelApps(u)>>) : Harmless(db, <<DelApps(u)>>[i])
    BY <2>5
  <2>2. q.op = "delete" /\ q.pipe = <<DelApps(u)>>
    BY DEF Idle
  <2>3. req' = [req EXCEPT ![p] = q] /\ Read
    BY <1>8 DEF DeleteBegin
  <2> HIDE DEF q
  <2>4. Sound(db, q)
    BY <2>1, <2>2 DEF Sound
  <2> QED BY <2>2, <2>3, <2>4, FirstRead
<1>9. ASSUME ExpireBegin(p) PROVE FirstInv'
  <2> DEFINE q == [Idle EXCEPT !.op = "expire", !.at = "list", !.todo = db.all]
  <2>1. q.op = "expire" /\ q.at = "list"
    BY DEF Idle
  <2>2. req' = [req EXCEPT ![p] = q] /\ Read
    BY <1>9 DEF ExpireBegin
  <2> HIDE DEF q
  <2> QED BY <1>0, <2>1, <2>2
<1> QED BY <1>2, <1>3, <1>4, <1>5, <1>6, <1>7, <1>8, <1>9 DEF Begin

(* The pipelines of the other requests are harmless. *)
LEMMA FirstSend ==
  ASSUME TypeInv, TypeInv', FirstInv, NEW p \in Procs, NEW pipe \in Seq(Command), Send(p, pipe),
         Read, req[p].op # "apply", \A i \in 1 .. Len(pipe) : Harmless(db, pipe[i])
  PROVE  FirstInv'
<1> DEFINE q == [req[p] EXCEPT !.at = "pipe", !.pipe = pipe, !.vac = NoVacancy,
                               !.app = NoApplication]
<1>1. q.op = req[p].op /\ q.at = "pipe" /\ q.pipe = pipe
  BY KeptTypes DEF Request
<1>2. req' = [req EXCEPT ![p] = q]
  BY DEF Send
<1> HIDE DEF q
<1>3. Sound(db, req[p])
  BY DEF FirstInv
<1>4. Sound(db, q)
  BY <1>1, <1>3 DEF Sound
<1> QED BY <1>1, <1>2, <1>4, FirstRead

LEMMA TurnedAwayHarmless ==
  ASSUME TypeInv, NEW v \in Vacancies, NEW x,
         NEW order \in SetToSeqs({w \in Users \ {x} : db.applicants[<<v, w>>].status = "pending"})
  PROVE  \A i \in 1 .. Len(TurnedAway(v, order)) : Harmless(db, TurnedAway(v, order)[i])
<1> DEFINE S == {w \in Users \ {x} : db.applicants[<<v, w>>].status = "pending"}
<1>1. Cardinality(S) \in Nat
  BY UsersAssumption, FS_Subset, FS_CardinalityType
<1>2. order \in [1 .. Cardinality(S) -> S]
  BY DEF SetToSeqs
<1> HIDE DEF S
<1>3. Len(order) \in Nat /\ \A i \in 1 .. Len(order) : order[i] \in S
  BY <1>1, <1>2
<1>4. 2 * Len(order) \in Nat
  BY <1>3
<1>5. Len(TurnedAway(v, order)) = 2 * Len(order)
  BY <1>4 DEF TurnedAway
<1> SUFFICES ASSUME NEW i \in 1 .. 2 * Len(order) PROVE Harmless(db, TurnedAway(v, order)[i])
  BY <1>5
<1> DEFINE w == order[(i + 1) \div 2]
<1>6. (i + 1) \div 2 \in 1 .. Len(order)
  BY <1>3
<1>7. w \in Users /\ db.applicants[<<v, w>>].status = "pending"
  BY <1>3, <1>6 DEF S
<1>8. TurnedAway(v, order)[i]
        = IF i % 2 = 1 THEN HSetApp(v, w, WithStatus(db.applicants[<<v, w>>], "rejected"))
          ELSE SRemApps(v, w)
  BY DEF TurnedAway
<1> HIDE DEF w
<1>9. db.applicants[<<v, w>>] \in Application /\ Recorded(db, v, w)
  BY <1>7 DEF TypeInv, Data, Pairs, Recorded, NoApplication
<1>10. WithStatus(db.applicants[<<v, w>>], "rejected") # NoApplication
  BY <1>9 DEF WithStatus, Application, NoApplication
<1>11. Harmless(db, HSetApp(v, w, WithStatus(db.applicants[<<v, w>>], "rejected")))
       /\ Harmless(db, SRemApps(v, w))
  BY <1>9, <1>10 DEF Harmless, HSetApp, SRemApps
<1> QED BY <1>8, <1>11

LEMMA FirstDecide ==
  ASSUME TypeInv, TypeInv', FirstInv, NEW p \in Procs,
         AcceptHGet(p) \/ AcceptGetVac(p) \/ AcceptHGetAll(p) \/ RejectHGet(p)
  PROVE  FirstInv'
<1> DEFINE r == req[p]
<1>0. r \in Request /\ Fits(r) /\ Sound(db, r) /\ r.op \in {"accept", "reject"}
  BY KeptTypes DEF FirstInv, AcceptHGet, AcceptGetVac, AcceptHGetAll, RejectHGet
<1>1. /\ r.v \in Vacancies /\ r.u \in Users /\ r.app \in Application /\ r.vac \in Vacancy
      /\ AppOf(p) \in Application /\ VacOf(p) \in Vacancy
  BY <1>0, KeptTypes
     DEF Fits, AcceptHGet, AcceptGetVac, AcceptHGetAll, RejectHGet, Request, AppOf, VacOf
<1>2. ASSUME NEW vac \in Vacancy, r.op = "accept", r.at \in {"getvac", "hgetall"}
      PROVE  /\ AcceptWrites(r, vac) \in Seq(Command)
             /\ \A i \in 1 .. Len(AcceptWrites(r, vac)) : Harmless(db, AcceptWrites(r, vac)[i])
  <2> DEFINE app == WithStatus(r.app, "accepted")
  <2>1. app \in Application /\ app # NoApplication
    BY <1>1 DEF WithStatus, Application, NoApplication
  <2>2. HSetApp(r.v, r.u, app) \in Command /\ SetVacancy(r.v, vac) \in Command
    BY <1>1, <2>1, CommandTypes
  <2>3. Recorded(db, r.v, r.u)
    BY <1>0, <1>2 DEF Sound
  <2> HIDE DEF app
  <2>4. Harmless(db, HSetApp(r.v, r.u, app)) /\ Harmless(db, SetVacancy(r.v, vac))
    BY <2>1, <2>3 DEF Harmless, HSetApp, SetVacancy
  <2>5. AcceptWrites(r, vac) = <<HSetApp(r.v, r.u, app), SetVacancy(r.v, vac)>>
    BY DEF AcceptWrites, app
  <2> QED BY <2>2, <2>4, <2>5
<1>3. ASSUME AcceptHGet(p) PROVE FirstInv'
  <2>1. CASE AppOf(p).status \in {"none", "accepted"}
    BY <1>3, <2>1, FirstDone DEF AcceptHGet, Read
  <2>2. CASE AppOf(p).status \notin {"none", "accepted"}
    <3> DEFINE q == [r EXCEPT !.at = "getvac", !.app = AppOf(p)]
    <3>1. req' = [req EXCEPT ![p] = q] /\ Read
      BY <1>3, <2>2 DEF AcceptHGet, TypeInv
    <3>2. q.op = "accept" /\ q.at = "getvac" /\ q.app = AppOf(p) /\ q.v = r.v /\ q.u = r.u
      BY <1>0, <1>3 DEF AcceptHGet, Request
    <3>3. Recorded(db, r.v, r.u)
      BY <2>2 DEF Recorded, AppOf, NoApplication
    <3> HIDE DEF q
    <3>4. Sound(db, q)
      BY <2>2, <3>2, <3>3 DEF Sound
    <3> QED BY <3>1, <3>2, <3>4, FirstRead
  <2> QED BY <2>1, <2>2
<1>4. ASSUME AcceptGetVac(p) PROVE FirstInv'
  <2> DEFINE vac == AfterAccept(VacOf(p), r.app)
             q == [r EXCEPT !.at = "hgetall", !.vac = vac]
  <2>1. vac \in Vacancy
    BY <1>1, RecordTypes
  <2>2. \/ Done(p) \/ Send(p, AcceptWrites(r, vac))
        \/ req' = [req EXCEPT ![p].at = "hgetall", ![p].vac = vac]
    BY <1>4 DEF AcceptGetVac
  <2>3. Read /\ r.op = "accept" /\ r.at = "getvac"
    BY <1>4 DEF AcceptGetVac
  <2> HIDE DEF vac
  <2>4. CASE Done(p)
    BY <2>3, <2>4, FirstDone DEF Read
  <2>5. CASE Send(p, AcceptWrites(r, vac))
    BY <1>2, <2>1, <2>3, <2>5, FirstSend
  <2>6. CASE req' = [req EXCEPT ![p].at = "hgetall", ![p].vac = vac]
    <3>1. req' = [req EXCEPT ![p] = q]
      BY <2>6 DEF TypeInv
    <3>2. q.op = "accept" /\ q.at = "hgetall" /\ q.app = r.app /\ q.v = r.v /\ q.u = r.u
      BY <1>0, <2>3 DEF Request
    <3> HIDE DEF q
    <3>3. Sound(db, q)
      BY <1>0, <2>3, <3>2 DEF Sound
    <3> QED BY <2>3, <3>1, <3>2, <3>3, FirstRead
  <2> QED BY <2>2, <2>4, <2>5, <2>6
<1>5. ASSUME AcceptHGetAll(p) PROVE FirstInv'
  <2> DEFINE out == {w \in Users \ {r.u} : db.applicants[<<r.v, w>>].status = "pending"}
  <2>1. PICK order \in SetToSeqs(out) :
          Send(p, AcceptWrites(r, r.vac) \o TurnedAway(r.v, order) \o <<SRemActive(r.v)>>)
    BY <1>5 DEF AcceptHGetAll
  <2> DEFINE writes == AcceptWrites(r, r.vac)
             away == TurnedAway(r.v, order)
             last == <<SRemActive(r.v)>>
  <2>2. Read /\ r.op = "accept" /\ r.at = "hgetall"
    BY <1>5 DEF AcceptHGetAll
  <2>3. /\ writes \in Seq(Command)
        /\ \A i \in 1 .. Len(writes) : Harmless(db, writes[i])
    BY <1>1, <1>2, <2>2
  <2>4. /\ away \in Seq(Command)
        /\ \A i \in 1 .. Len(away) : Harmless(db, away[i])
    BY <1>1, TurnedAwayTypes, TurnedAwayHarmless
  <2>5. SRemActive(r.v) \in Command /\ Harmless(db, SRemActive(r.v))
    BY <1>1, CommandTypes DEF Harmless, SRemActive
  <2>6. last \in Seq(Command) /\ \A i \in 1 .. Len(last) : Harmless(db, last[i])
    BY <2>5
  <2> HIDE DEF writes, away, last
  <2>7. /\ writes \o away \in Seq(Command)
        /\ \A i \in 1 .. Len(writes \o away) : Harmless(db, (writes \o away)[i])
    BY <2>3, <2>4, HarmlessConcat
  <2> DEFINE pipe == (writes \o away) \o last
  <2>8. pipe \in Seq(Command) /\ \A i \in 1 .. Len(pipe) : Harmless(db, pipe[i])
    BY <2>6, <2>7, HarmlessConcat
  <2>9. Send(p, pipe)
    BY <2>1 DEF writes, away, last
  <2> HIDE DEF pipe
  <2> QED BY <2>2, <2>8, <2>9, FirstSend
<1>6. ASSUME RejectHGet(p) PROVE FirstInv'
  <2> DEFINE app == WithStatus(AppOf(p), "rejected")
             pipe == <<HSetApp(r.v, r.u, app), SRemApps(r.v, r.u)>>
  <2>1. Read /\ r.op = "reject"
    BY <1>6 DEF RejectHGet
  <2>2. CASE AppOf(p) = NoApplication
    BY <1>6, <2>2, FirstDone DEF RejectHGet, Read
  <2>3. CASE AppOf(p) # NoApplication
    <3>1. Send(p, pipe)
      BY <1>6, <2>3 DEF RejectHGet
    <3>2. app \in Application /\ app # NoApplication
      BY <1>1 DEF WithStatus, Application, NoApplication
    <3>3. HSetApp(r.v, r.u, app) \in Command /\ SRemApps(r.v, r.u) \in Command
      BY <1>1, <3>2, CommandTypes
    <3>4. Recorded(db, r.v, r.u)
      BY <2>3 DEF Recorded, AppOf
    <3> HIDE DEF app
    <3>5. Harmless(db, HSetApp(r.v, r.u, app)) /\ Harmless(db, SRemApps(r.v, r.u))
      BY <3>2, <3>4 DEF Harmless, HSetApp, SRemApps
    <3>6. pipe \in Seq(Command) /\ \A i \in 1 .. Len(pipe) : Harmless(db, pipe[i])
      BY <3>3, <3>5
    <3> HIDE DEF pipe
    <3> QED BY <2>1, <3>1, <3>6, FirstSend
  <2> QED BY <2>2, <2>3
<1> QED BY <1>3, <1>4, <1>5, <1>6

(* The list of a user's jobs, the closing of a vacancy and the expirer.    *)
LEMMA FirstJobs ==
  ASSUME TypeInv, TypeInv', FirstInv, NEW p \in Procs,
         \/ MyJobsSMembers(p) \/ MyJobsZRange(p) \/ MyJobsScan(p) \/ MyJobsSAdd(p)
         \/ CloseGetVac(p) \/ ExpireGet(p) \/ ExpireNow(p) \/ ExpireNext(p)
  PROVE  FirstInv'
<1> DEFINE r == req[p]
           steps == {"zrange", "scan", "sadd", "close", "list", "now", "next"}
<1>0. /\ r \in Request /\ Fits(r) /\ Sound(db, r) /\ r.op \notin {"apply", "cancel"}
      /\ req \in [Procs -> Request]
  BY KeptTypes DEF FirstInv, MyJobsSMembers, MyJobsZRange, MyJobsScan, MyJobsSAdd, CloseGetVac,
                   ExpireGet, ExpireNow, ExpireNext, Fits, Sound, TypeInv
<1>1. ASSUME NEW q, req' = [req EXCEPT ![p] = q], Read, q.op = r.op, q.at \in steps
      PROVE  FirstInv'
  <2>1. Sound(db, q)
    BY <1>0, <1>1 DEF Sound
  <2> QED BY <1>0, <1>1, <2>1, FirstRead
<1>2. ASSUME Done(p), Read PROVE FirstInv'
  BY <1>2, FirstDone DEF Read
<1>3. ASSUME MyJobsSMembers(p) PROVE FirstInv'
  <2> DEFINE q == [r EXCEPT !.at = "zrange"]
  <2>1. q.op = r.op /\ q.at = "zrange"
    BY <1>0 DEF Request
  <2> QED BY <1>1, <1>2, <1>3, <2>1 DEF MyJobsSMembers, Goto
<1>4. ASSUME MyJobsZRange(p) PROVE FirstInv'
  <2> DEFINE q == [r EXCEPT !.at = "scan", !.todo = db.all]
  <2>1. q.op = r.op /\ q.at = "scan"
    BY <1>0 DEF Request
  <2>2. (Done(p) \/ req' = [req EXCEPT ![p] = q]) /\ Read
    BY <1>0, <1>4 DEF MyJobsZRange
  <2> HIDE DEF q
  <2> QED BY <1>1, <1>2, <2>1, <2>2
<1>5. ASSUME MyJobsScan(p) PROVE FirstInv'
  <2>1. PICK v \in r.todo :
          IF db.applicants[<<v, r.u>>] # NoApplication
          THEN req' = [req EXCEPT ![p].at = "sadd", ![p].v = v, ![p].todo = r.todo \ {v}]
          ELSE IF r.todo \ {v} = {} THEN Done(p)
               ELSE req' = [req EXCEPT ![p].todo = r.todo \ {v}]
    BY <1>5 DEF MyJobsScan
  <2> DEFINE q1 == [r EXCEPT !.at = "sadd", !.v = v, !.todo = r.todo \ {v}]
             q2 == [r EXCEPT !.todo = r.todo \ {v}]
  <2>2. req' = [req EXCEPT ![p] = q1] \/ Done(p) \/ req' = [req EXCEPT ![p] = q2]
    BY <1>0, <2>1
  <2>3. q1.op = r.op /\ q1.at = "sadd" /\ q2.op = r.op /\ q2.at = "scan"
    BY <1>0, <1>5 DEF Request, MyJobsScan
  <2>4. Read
    BY <1>5 DEF MyJobsScan
  <2> HIDE DEF q1, q2
  <2> QED BY <1>1, <1>2, <2>2, <2>3, <2>4
<1>6. ASSUME MyJobsSAdd(p) PROVE FirstInv'
  <2> DEFINE q1 == [r EXCEPT !.at = "scan", !.v = Nothing]
             c == SAddApps(r.v, r.u)
  <2>1. r.v \in Vacancies /\ r.u \in Users
    BY <1>0, <1>6 DEF Fits, MyJobsSAdd
  <2>2. c \in Command /\ Harmless(db, c)
    BY <2>1, CommandTypes DEF Harmless, SAddApps
  <2>3. db' = Run(db, c) /\ locks' = locks /\ db \in Data
    BY <1>6 DEF MyJobsSAdd, TypeInv
  <2>4. \A v \in Vacancies, u \in Users : Recorded(db', v, u) <=> Recorded(db, v, u)
    BY <2>2, <2>3, HarmlessRun
  <2>5. req' = [req EXCEPT ![p] = q1] \/ req' = [req EXCEPT ![p] = Idle]
    BY <1>0, <1>6 DEF MyJobsSAdd, Done
  <2>6. q1.op = r.op /\ q1.at = "scan"
    BY <1>0 DEF Request
  <2> HIDE DEF q1, c
  <2>7. Sound(db', q1) /\ Sound(db', Idle)
    BY <1>0, <2>6, IdleTyped DEF Sound
  <2>8. req'[p] \in Request
    BY DEF TypeInv
  <2>9. CASE req' = [req EXCEPT ![p] = q1]
    <3>1. q1 \in Request
      BY <1>0, <2>8, <2>9
    <3> QED BY <1>0, <2>3, <2>4, <2>6, <2>7, <2>9, <3>1, FirstKept
  <2>10. CASE req' = [req EXCEPT ![p] = Idle]
    BY <2>3, <2>4, <2>7, <2>10, FirstKept, IdleTyped
  <2> QED BY <2>5, <2>9, <2>10
<1>7. ASSUME CloseGetVac(p) PROVE FirstInv'
  <2> DEFINE vac == AfterClose(VacOf(p))
             pipe == <<SetVacancy(r.v, vac), SRemActive(r.v)>>
  <2>1. r.v \in Vacancies
    BY <1>0, <1>7 DEF Fits, CloseGetVac
  <2>2. vac \in Vacancy
    BY <2>1, KeptTypes DEF VacOf, AfterClose, Vacancy
  <2>3. Send(p, pipe) /\ Read
    BY <1>7 DEF CloseGetVac
  <2> HIDE DEF vac
  <2>4. SetVacancy(r.v, vac) \in Command /\ SRemActive(r.v) \in Command
    BY <2>1, <2>2 DEF SetVacancy, SRemActive, Command
  <2>5. Harmless(db, SetVacancy(r.v, vac)) /\ Harmless(db, SRemActive(r.v))
    BY DEF Harmless, SetVacancy, SRemActive
  <2>6. pipe \in Seq(Command) /\ \A i \in 1 .. Len(pipe) : Harmless(db, pipe[i])
    BY <2>4, <2>5
  <2> HIDE DEF pipe
  <2> QED BY <1>0, <2>3, <2>6, FirstSend
<1>8. ASSUME ExpireGet(p) PROVE FirstInv'
  <2> DEFINE active(v) == IF db.vacancy[v].status = "active" THEN {v} ELSE {}
             step(v) == IF r.todo \ {v} = {} THEN "now" ELSE "list"
             q(v) == [r EXCEPT !.todo = r.todo \ {v}, !.due = r.due \cup active(v),
                               !.at = step(v)]
  <2>1. PICK v \in r.todo : req' = [req EXCEPT ![p] = q(v)]
    BY <1>0, <1>8 DEF ExpireGet
  <2>2. q(v).op = r.op /\ q(v).at \in {"now", "list"}
    BY <1>0 DEF Request
  <2>3. Read
    BY <1>8 DEF ExpireGet
  <2> HIDE DEF q
  <2> QED BY <1>1, <2>1, <2>2, <2>3
<1>9. ASSUME ExpireNow(p) PROVE FirstInv'
  <2> DEFINE q == [r EXCEPT !.at = "next", !.due = r.due \cap started]
  <2>1. (req' = [req EXCEPT ![p] = q] \/ Done(p)) /\ Read
    BY <1>0, <1>9 DEF ExpireNow
  <2>2. q.op = r.op /\ q.at = "next"
    BY <1>0 DEF Request
  <2> HIDE DEF q
  <2> QED BY <1>1, <1>2, <2>1, <2>2
<1>10. ASSUME ExpireNext(p) PROVE FirstInv'
  <2> DEFINE q(v) == [r EXCEPT !.at = "close", !.v = v, !.due = r.due \ {v}]
  <2>1. PICK v \in r.due : req' = [req EXCEPT ![p] = q(v)]
    BY <1>0, <1>10 DEF ExpireNext
  <2>2. q(v).op = r.op /\ q(v).at = "close" /\ Read
    BY <1>0, <1>10 DEF Request, ExpireNext
  <2> HIDE DEF q
  <2> QED BY <1>1, <2>1, <2>2
<1> QED BY <1>3, <1>4, <1>5, <1>6, <1>7, <1>8, <1>9, <1>10

(* A step of Apply that changes nothing but its own request. *)
LEMMA FirstApplyRead ==
  ASSUME TypeInv, TypeInv', FirstInv, NEW p \in Procs,
         ApplyHExists(p) \/ ApplySCard(p) \/ ApplyGetVac(p), ~Done(p)
  PROVE  FirstInv'
<1> DEFINE r == req[p]
<1>0. /\ r \in Request /\ Fits(r) /\ r.op = "apply" /\ Read /\ req \in [Procs -> Request]
      /\ r.v \in Vacancies /\ r.u \in Users
  BY KeptTypes DEF Fits, ApplyHExists, ApplySCard, ApplyGetVac, TypeInv
<1>1. db' = db /\ locks' = locks
  BY <1>0 DEF Read
<1>2. \A x \in Procs : x # p => req'[x] = req[x]
  BY <1>0 DEF ApplyHExists, ApplySCard, ApplyGetVac, Goto, Send
<1> DEFINE q == req'[p]
<1>3. /\ q.op = "apply" /\ q.v = r.v /\ q.u = r.u
      /\ \/ /\ r.at = "hexists" /\ q.at = "scard" /\ ~Recorded(db, r.v, r.u)
            /\ q.fresh => ~ \E y \in Procs : PastLock(y, r.v, r.u)
         \/ r.at = "scard" /\ q.at = "setnx" /\ q.fresh = r.fresh
         \/ /\ r.at = "getvac" /\ q.at = "pipe" /\ q.fresh = r.fresh
            /\ \E n \in Nat :
                 q.pipe = <<HSetApp(r.v, r.u, NewApplication(n)), SAddApps(r.v, r.u)>>
  <2>1. CASE ApplyHExists(p)
    <3>1. ~Applied(p) /\ r.at = "hexists"
      BY <2>1 DEF ApplyHExists
    <3> DEFINE b == <<r.v, r.u>> \in locks /\ ~ \E y \in Procs : PastLock(y, r.v, r.u)
    <3>2. req' = [req EXCEPT ![p] = [r EXCEPT !.at = "scard", !.fresh = b]]
      BY <1>0, <2>1, <3>1 DEF ApplyHExists
    <3> HIDE DEF b
    <3>3. q.op = "apply" /\ q.v = r.v /\ q.u = r.u /\ q.at = "scard" /\ q.fresh = b
      BY <1>0, <3>2 DEF Request
    <3> QED BY <3>1, <3>3 DEF Applied, AppOf, Recorded, b
  <2>2. CASE ApplySCard(p)
    BY <1>0, <2>2 DEF ApplySCard, Goto, Request
  <2>3. CASE ApplyGetVac(p)
    <3> DEFINE n == Granted(VacOf(p), r.n)
               pipe == <<HSetApp(r.v, r.u, NewApplication(n)), SAddApps(r.v, r.u)>>
    <3>1. Send(p, pipe) /\ r.at = "getvac"
      BY <2>3 DEF ApplyGetVac
    <3>2. VacOf(p) \in Vacancy /\ r.n \in Nat
      BY <1>0, KeptTypes DEF VacOf, Request
    <3>3. n \in Nat
      BY <3>2 DEF Granted, Vacancy
    <3> HIDE DEF n
    <3>4. \E m \in Nat : pipe = <<HSetApp(r.v, r.u, NewApplication(m)), SAddApps(r.v, r.u)>>
      BY <3>3
    <3> HIDE DEF pipe
    <3>5. q.op = "apply" /\ q.v = r.v /\ q.u = r.u /\ q.at = "pipe" /\ q.fresh = r.fresh
          /\ q.pipe = pipe
      BY <1>0, <3>1 DEF Send, Request
    <3> QED BY <3>1, <3>4, <3>5
  <2> QED BY <2>1, <2>2, <2>3
<1> HIDE DEF q
<1>4. ASSUME NEW x \in Procs PROVE Sound(db', req'[x])
  <2>1. CASE x = p
    BY <1>3, <2>1 DEF Sound, q
  <2>2. CASE x # p
    BY <1>1, <1>2, <2>2 DEF FirstInv
  <2> QED BY <2>1, <2>2
<1>5. ASSUME NEW y \in Procs, NEW v \in Vacancies, NEW u \in Users
      PROVE  PastLock(y, v, u)' <=> PastLock(y, v, u)
  <2>1. CASE y = p
    BY <1>0, <1>3, <2>1 DEF PastLock, InApply, q
  <2>2. CASE y # p
    BY <1>2, <2>2 DEF PastLock, InApply
  <2> QED BY <2>1, <2>2
<1>6. ASSUME NEW x \in Procs, NEW v \in Vacancies, NEW u \in Users, InApply(x, v, u)'
      PROVE  InApply(x, v, u)
  BY <1>0, <1>2, <1>3, <1>6 DEF InApply, q
<1>7. \A x \in Procs, v \in Vacancies, u \in Users :
        InApply(x, v, u)' /\ req'[x].fresh
          => /\ req'[x].at \in {"scard", "setnx"} /\ ~Recorded(db', v, u)
             /\ \A y \in Procs : ~PastLock(y, v, u)'
  <2> SUFFICES ASSUME NEW x \in Procs, NEW v \in Vacancies, NEW u \in Users,
                      InApply(x, v, u)', req'[x].fresh
               PROVE  /\ req'[x].at \in {"scard", "setnx"} /\ ~Recorded(db', v, u)
                      /\ \A y \in Procs : ~PastLock(y, v, u)
    BY <1>5
  <2>1. CASE x # p
    BY <1>1, <1>2, <1>6, <2>1 DEF FirstInv
  <2>2. CASE x = p
    <3>1. v = r.v /\ u = r.u /\ q.fresh
      BY <1>3, <2>2 DEF InApply, q
    <3>2. r.fresh => /\ r.at \in {"scard", "setnx"} /\ ~Recorded(db, v, u)
                     /\ \A y \in Procs : ~PastLock(y, v, u)
      BY <1>6, <2>2 DEF FirstInv
    <3> QED BY <1>1, <1>3, <2>2, <3>1, <3>2 DEF q
  <2> QED BY <2>1, <2>2
<1>8. \A x \in Procs, v \in Vacancies, u \in Users :
        (InApply(x, v, u)' /\ req'[x].at \in {"scard", "setnx"}
           /\ ~req'[x].fresh /\ Recorded(db', v, u))
          => <<v, u>> \in locks'
  <2> SUFFICES ASSUME NEW x \in Procs, NEW v \in Vacancies, NEW u \in Users,
                      InApply(x, v, u)', req'[x].at \in {"scard", "setnx"},
                      ~req'[x].fresh, Recorded(db', v, u)
               PROVE  <<v, u>> \in locks
    BY <1>1
  <2>1. CASE x # p
    BY <1>1, <1>2, <1>6, <2>1 DEF FirstInv
  <2>2. CASE x = p
    <3>1. v = r.v /\ u = r.u /\ ~q.fresh /\ Recorded(db, r.v, r.u) /\ q.at # "pipe"
      BY <1>1, <1>3, <2>2 DEF InApply, q
    <3>2. r.at = "scard" /\ q.fresh = r.fresh
      BY <1>3, <3>1
    <3> QED BY <1>6, <2>2, <3>1, <3>2 DEF FirstInv
  <2> QED BY <2>1, <2>2
<1>9. \A x \in Procs, v \in Vacancies, u \in Users :
        InApply(x, v, u)' /\ Recording(req'[x]) => ~Recorded(db', v, u)
  <2> SUFFICES ASSUME NEW x \in Procs, NEW v \in Vacancies, NEW u \in Users,
                      InApply(x, v, u)', Recording(req'[x])
               PROVE  ~Recorded(db, v, u)
    BY <1>1
  <2>1. CASE x # p
    BY <1>2, <1>6, <2>1 DEF FirstInv
  <2>2. CASE x = p
    <3>1. r.at = "getvac"
      BY <1>3, <2>2 DEF Recording, q
    <3>2. Recording(req[x])
      BY <1>0, <2>2, <3>1 DEF Recording
    <3> QED BY <1>6, <3>2 DEF FirstInv
  <2> QED BY <2>1, <2>2
<1> QED BY <1>4, <1>7, <1>8, <1>9 DEF FirstInv

(* The step that takes the lock: the record is not there, because a record *)
(* that had appeared since the check would be protected by the lock.       *)
LEMMA FirstTaking ==
  ASSUME TypeInv, FirstInv, NEW p \in Procs, Taking(p)
  PROVE  FirstInv'
<1> DEFINE v0 == req[p].v
           u0 == req[p].u
<1>0. /\ req \in [Procs -> Request] /\ db' = db
      /\ v0 \in Vacancies /\ u0 \in Users /\ InApply(p, v0, u0) /\ req[p].at = "setnx"
      /\ <<v0, u0>> \notin locks /\ locks' = locks \cup {<<v0, u0>>}
  BY TakingEffect DEF TypeInv, InApply
<1>1. req'[p].op = "apply" /\ req'[p].v = v0 /\ req'[p].u = u0 /\ req'[p].at = "getvac"
      /\ ~req'[p].fresh
  <2>1. req'[p] = [req[p] EXCEPT !.at = "getvac", !.fresh = FALSE] /\ req[p].op = "apply"
    BY TakingEffect
  <2>2. req[p] \in Request
    BY <1>0
  <2> QED BY <2>1, <2>2 DEF Request
<1>2. ASSUME NEW x \in Procs, x # p
      PROVE  \/ InApply(x, v0, u0) /\ req'[x] = [req[x] EXCEPT !.fresh = FALSE]
             \/ ~InApply(x, v0, u0) /\ req'[x] = req[x]
  BY <1>2, TakingEffect
<1>3. ASSUME NEW x \in Procs, x # p
      PROVE  /\ req'[x].op = req[x].op /\ req'[x].at = req[x].at /\ req'[x].v = req[x].v
             /\ req'[x].u = req[x].u /\ req'[x].pipe = req[x].pipe /\ req'[x].app = req[x].app
             /\ req'[x].fresh => req'[x] = req[x] /\ ~InApply(x, v0, u0)
  BY <1>0, <1>2, <1>3 DEF Request
<1>4. ~Recorded(db, v0, u0)
  BY <1>0 DEF FirstInv
<1>5. ASSUME NEW x \in Procs PROVE Sound(db', req'[x])
  <2>1. CASE x = p
    BY <1>1, <2>1 DEF Sound
  <2>2. CASE x # p
    <3>1. Sound(db, req[x])
      BY DEF FirstInv
    <3> QED BY <1>0, <1>3, <2>2, <3>1 DEF Sound
  <2> QED BY <2>1, <2>2
<1>6. \A x \in Procs, v \in Vacancies, u \in Users :
        InApply(x, v, u)' /\ req'[x].fresh
          => /\ req'[x].at \in {"scard", "setnx"} /\ ~Recorded(db', v, u)
             /\ \A y \in Procs : ~PastLock(y, v, u)'
  <2> SUFFICES ASSUME NEW x \in Procs, NEW v \in Vacancies, NEW u \in Users,
                      InApply(x, v, u)', req'[x].fresh
               PROVE  /\ req'[x].at \in {"scard", "setnx"} /\ ~Recorded(db', v, u)
                      /\ \A y \in Procs : ~PastLock(y, v, u)'
    OBVIOUS
  <2>1. x # p /\ req'[x] = req[x] /\ ~InApply(x, v0, u0) /\ InApply(x, v, u)
    BY <1>1, <1>3 DEF InApply
  <2>2. v # v0 \/ u # u0
    BY <2>1
  <2>3. ASSUME NEW y \in Procs PROVE ~PastLock(y, v, u)'
    <3>1. CASE y = p
      BY <1>1, <2>2, <3>1 DEF PastLock, InApply
    <3>2. CASE y # p
      <4>1. ~PastLock(y, v, u)
        BY <2>1 DEF FirstInv
      <4> QED BY <1>3, <3>2, <4>1 DEF PastLock, InApply
    <3> QED BY <3>1, <3>2
  <2> QED BY <1>0, <2>1, <2>3 DEF FirstInv
<1>7. \A x \in Procs, v \in Vacancies, u \in Users :
        (InApply(x, v, u)' /\ req'[x].at \in {"scard", "setnx"}
           /\ ~req'[x].fresh /\ Recorded(db', v, u))
          => <<v, u>> \in locks'
  <2> SUFFICES ASSUME NEW x \in Procs, NEW v \in Vacancies, NEW u \in Users,
                      InApply(x, v, u)', req'[x].at \in {"scard", "setnx"},
                      ~req'[x].fresh, Recorded(db, v, u), <<v, u>> # <<v0, u0>>
               PROVE  <<v, u>> \in locks
    BY <1>0
  <2>1. x # p /\ InApply(x, v, u)
    BY <1>1, <1>3 DEF InApply
  <2>2. req'[x] = req[x]
    BY <1>2, <2>1 DEF InApply
  <2> QED BY <2>1, <2>2 DEF FirstInv
<1>8. \A x \in Procs, v \in Vacancies, u \in Users :
        InApply(x, v, u)' /\ Recording(req'[x]) => ~Recorded(db', v, u)
  <2> SUFFICES ASSUME NEW x \in Procs, NEW v \in Vacancies, NEW u \in Users,
                      InApply(x, v, u)', Recording(req'[x])
               PROVE  ~Recorded(db, v, u)
    BY <1>0
  <2>1. CASE x = p
    BY <1>1, <1>4, <2>1 DEF InApply
  <2>2. CASE x # p
    <3>1. InApply(x, v, u) /\ Recording(req[x])
      BY <1>3, <2>2 DEF InApply, Recording
    <3> QED BY <3>1 DEF FirstInv
  <2> QED BY <2>1, <2>2
<1> QED BY <1>5, <1>6, <1>7, <1>8 DEF FirstInv

(* Apply writes its record. *)
LEMMA FirstRecord ==
  ASSUME TypeInv, LockInv, FirstInv, NEW p \in Procs, PipeStep(p), NEW n \in Nat,
         req[p].op = "apply",
         req[p].pipe = <<HSetApp(req[p].v, req[p].u, NewApplication(n)),
                         SAddApps(req[p].v, req[p].u)>>
  PROVE  FirstInv'
<1> DEFINE r == req[p]
           v0 == r.v
           u0 == r.u
           c == HSetApp(v0, u0, NewApplication(n))
           s == SAddApps(v0, u0)
           q == [r EXCEPT !.pipe = <<s>>]
<1>0. /\ req \in [Procs -> Request] /\ r \in Request /\ Fits(r) /\ db \in Data
      /\ v0 \in Vacancies /\ u0 \in Users /\ r.at = "pipe"
  BY KeptTypes DEF TypeInv, Fits, PipeStep
<1>1. Head(r.pipe) = c /\ Tail(r.pipe) = <<s>> /\ <<s>> # <<>>
  OBVIOUS
<1>2. db' = Run(db, c) /\ req' = [req EXCEPT ![p] = q] /\ locks' = locks
  BY <1>1 DEF PipeStep
<1>3. db'.applicants = [db.applicants EXCEPT ![<<v0, u0>>] = NewApplication(n)]
  BY <1>0, <1>2 DEF Run, HSetApp, Data
<1>4. ASSUME NEW v \in Vacancies, NEW u \in Users
      PROVE  Recorded(db', v, u) <=> Recorded(db, v, u) \/ <<v, u>> = <<v0, u0>>
  <2>1. NewApplication(n) # NoApplication
    BY DEF NewApplication, NoApplication
  <2> QED BY <1>0, <1>3, <2>1 DEF Recorded, Data, Pairs
<1>5. /\ req'[p].op = "apply" /\ req'[p].v = v0 /\ req'[p].u = u0 /\ req'[p].at = "pipe"
      /\ req'[p].pipe = <<s>> /\ req'[p].fresh = r.fresh
  BY <1>0, <1>2 DEF Request
<1>6. \A x \in Procs : x # p => req'[x] = req[x]
  BY <1>0, <1>2
<1>7. PastLock(p, v0, u0) /\ c.cmd = "HSET app"
  BY <1>0 DEF PastLock, InApply, HSetApp
<1>8. ASSUME NEW x \in Procs PROVE Sound(db', req'[x])
  <2>1. CASE x = p
    BY <1>5, <2>1 DEF Sound
  <2>2. CASE x # p
    <3>1. Sound(db, req[x]) /\ req[x] \in Request /\ Fits(req[x])
      BY KeptTypes DEF FirstInv
    <3>2. Sound(db', req[x])
      BY <1>4, <3>1, SoundKept
    <3> QED BY <1>6, <2>2, <3>2
  <2> QED BY <2>1, <2>2
<1>9. ASSUME NEW x \in Procs, NEW v \in Vacancies, NEW u \in Users
      PROVE  /\ InApply(x, v, u)' <=> InApply(x, v, u)
             /\ PastLock(x, v, u)' <=> PastLock(x, v, u)
             /\ req'[x].at = req[x].at /\ req'[x].fresh = req[x].fresh
  <2>1. CASE x = p
    BY <1>0, <1>5, <2>1 DEF InApply, PastLock
  <2>2. CASE x # p
    BY <1>6, <2>2 DEF InApply, PastLock
  <2> QED BY <2>1, <2>2
<1>10. \A x \in Procs, v \in Vacancies, u \in Users :
        InApply(x, v, u)' /\ req'[x].fresh
          => /\ req'[x].at \in {"scard", "setnx"} /\ ~Recorded(db', v, u)
             /\ \A y \in Procs : ~PastLock(y, v, u)'
  <2> SUFFICES ASSUME NEW x \in Procs, NEW v \in Vacancies, NEW u \in Users,
                      InApply(x, v, u), req[x].fresh
               PROVE  /\ req[x].at \in {"scard", "setnx"} /\ ~Recorded(db', v, u)
                      /\ \A y \in Procs : ~PastLock(y, v, u)
    BY <1>9
  <2>1. /\ req[x].at \in {"scard", "setnx"} /\ ~Recorded(db, v, u)
        /\ \A y \in Procs : ~PastLock(y, v, u)
    BY DEF FirstInv
  <2>2. <<v, u>> # <<v0, u0>>
    BY <1>7, <2>1
  <2> QED BY <1>4, <2>1, <2>2
<1>11. \A x \in Procs, v \in Vacancies, u \in Users :
        (InApply(x, v, u)' /\ req'[x].at \in {"scard", "setnx"}
           /\ ~req'[x].fresh /\ Recorded(db', v, u))
          => <<v, u>> \in locks'
  <2>1. <<v0, u0>> \in locks
    BY <1>0, <1>7 DEF LockInv
  <2> QED BY <1>2, <1>4, <1>9, <2>1 DEF FirstInv
<1>12. \A x \in Procs, v \in Vacancies, u \in Users :
        InApply(x, v, u)' /\ Recording(req'[x]) => ~Recorded(db', v, u)
  <2> SUFFICES ASSUME NEW x \in Procs, NEW v \in Vacancies, NEW u \in Users,
                      InApply(x, v, u)', Recording(req'[x])
               PROVE  ~Recorded(db', v, u)
    OBVIOUS
  <2>0. Head(<<s>>).cmd = "SADD apps"
    <3>1. s.cmd = "SADD apps"
      BY DEF SAddApps
    <3>2. \A y : Head(<<y>>) = y
      OBVIOUS
    <3> QED BY <3>1, <3>2
  <2>1. x # p
    <3>1. Head(req'[p].pipe).cmd = "SADD apps"
      BY <1>5, <2>0
    <3> QED BY <1>5, <3>1 DEF Recording
  <2>2. PastLock(x, v, u) /\ InApply(x, v, u) /\ Recording(req[x])
    BY <1>6, <1>9, <2>1 DEF Recording, PastLock
  <2>3. <<v, u>> # <<v0, u0>>
    BY <1>0, <1>7, <2>1, <2>2 DEF LockInv, ApplyMutex
  <2> QED BY <1>4, <2>2, <2>3 DEF FirstInv
<1> QED BY <1>8, <1>10, <1>11, <1>12 DEF FirstInv

LEMMA FirstPipe ==
  ASSUME TypeInv, TypeInv', LockInv, FirstInv, NEW p \in Procs, PipeStep(p)
  PROVE  FirstInv'
<1> DEFINE r == req[p]
           c == Head(r.pipe)
           rest == Tail(r.pipe)
           q == IF rest = <<>> THEN AfterPipe(r) ELSE [r EXCEPT !.pipe = rest]
<1>0. /\ req \in [Procs -> Request] /\ r \in Request /\ Fits(r) /\ db \in Data
      /\ r.pipe \in Seq(Command) /\ r.pipe # <<>> /\ Sound(db, r) /\ r.at = "pipe"
  BY KeptTypes DEF TypeInv, Fits, PipeStep, Request, FirstInv
<1>1. db' = Run(db, c) /\ req' = [req EXCEPT ![p] = q] /\ locks' = locks
  BY DEF PipeStep
<1>2. c \in Command /\ q \in Request
  BY <1>0, <1>1 DEF TypeInv
<1>3. ASSUME Harmless(db, c), Sound(db', q), q.op # "apply" PROVE FirstInv'
  <2>1. \A v \in Vacancies, u \in Users : Recorded(db', v, u) <=> Recorded(db, v, u)
    BY <1>0, <1>1, <1>2, <1>3, HarmlessRun
  <2> HIDE DEF q
  <2> QED BY <1>1, <1>2, <1>3, <2>1, FirstKept
<1>4. CASE r.op = "apply" /\ r.pipe = <<SAddApps(r.v, r.u)>>
  <2>1. c = SAddApps(r.v, r.u) /\ rest = <<>>
    BY <1>4
  <2>2. q = Idle
    BY <1>4, <2>1 DEF AfterPipe
  <2> HIDE DEF c
  <2>3. Harmless(db, c)
    BY <2>1 DEF Harmless, SAddApps
  <2>4. Sound(db', Idle)
    BY IdleTyped DEF Sound
  <2> QED BY <1>3, <2>2, <2>3, <2>4, IdleTyped
<1>5. CASE r.op = "apply"
           /\ \E n \in Nat : r.pipe = <<HSetApp(r.v, r.u, NewApplication(n)), SAddApps(r.v, r.u)>>
  BY <1>5, FirstRecord
<1>6. CASE r.op # "apply"
  <2>1. \A i \in 1 .. Len(r.pipe) : Harmless(db, r.pipe[i])
    BY <1>0, <1>6 DEF Sound
  <2>2. Harmless(db, c)
    BY <1>0, <2>1
  <2>3. \A v \in Vacancies, u \in Users : Recorded(db', v, u) <=> Recorded(db, v, u)
    BY <1>0, <1>1, <1>2, <2>2, HarmlessRun
  <2>4. CASE rest = <<>>
    <3>1. q = Idle \/ q = [r EXCEPT !.at = "next", !.pipe = <<>>, !.v = Nothing]
      BY <1>0, <2>4 DEF AfterPipe, Sound
    <3>2. q.op \in {"none", r.op} /\ q.at \in {"idle", "next"}
      BY <1>0, <3>1, IdleTyped DEF Request
    <3>3. Sound(db', q)
      BY <1>0, <3>2 DEF Sound
    <3> QED BY <1>3, <1>6, <2>2, <3>2, <3>3
  <2>5. CASE rest # <<>>
    <3>1. q.op = r.op /\ q.at = "pipe" /\ q.pipe = rest
      BY <1>0, <2>5 DEF Request
    <3>2. \A i \in 1 .. Len(rest) : Harmless(db, rest[i])
      BY <1>0, <2>1
    <3>3. Sound(db, q)
      BY <1>0, <1>6, <3>1, <3>2 DEF Sound
    <3>4. Fits(q)
      BY <1>1, <1>0 DEF TypeInv
    <3> HIDE DEF q
    <3>5. Sound(db', q)
      BY <1>2, <2>3, <3>3, <3>4, SoundKept
    <3> QED BY <1>3, <1>6, <2>2, <3>1, <3>5
  <2> QED BY <2>4, <2>5
<1> QED BY <1>0, <1>4, <1>5, <1>6 DEF Sound

(* Errors that are passed over. *)
LEMMA FirstPassOver ==
  ASSUME TypeInv, TypeInv', FirstInv, NEW p \in Procs, PassOver(p)
  PROVE  FirstInv'
<1> DEFINE r == req[p]
<1>0. Sound(db, r) /\ Read
  BY DEF FirstInv, PassOver
<1>1. CASE TurnNobodyAway(p)
  <2> DEFINE app == WithStatus(r.app, "accepted")
             writes == AcceptWrites(r, r.vac)
             last == <<SRemActive(r.v)>>
             pipe == writes \o last
  <2>1. /\ writes \in Seq(Command) /\ last \in Seq(Command) /\ Send(p, pipe)
        /\ r.op = "accept" /\ r.at = "hgetall" /\ r.v \in Vacancies /\ r.u \in Users
        /\ r.app \in Application /\ r.vac \in Vacancy
    BY <1>1, NobodyAway
  <2>2. Recorded(db, r.v, r.u) /\ app # NoApplication
    BY <1>0, <2>1 DEF Sound, WithStatus, Application, NoApplication
  <2> HIDE DEF app
  <2>3. /\ Harmless(db, HSetApp(r.v, r.u, app)) /\ Harmless(db, SetVacancy(r.v, r.vac))
        /\ Harmless(db, SRemActive(r.v))
    BY <2>2 DEF Harmless, HSetApp, SetVacancy, SRemActive
  <2>4. writes = <<HSetApp(r.v, r.u, app), SetVacancy(r.v, r.vac)>>
    BY DEF AcceptWrites, app
  <2>5. /\ \A i \in 1 .. Len(writes) : Harmless(db, writes[i])
        /\ \A i \in 1 .. Len(last) : Harmless(db, last[i])
    BY <2>3, <2>4
  <2> HIDE DEF writes, last
  <2>6. pipe \in Seq(Command) /\ \A i \in 1 .. Len(pipe) : Harmless(db, pipe[i])
    BY <2>1, <2>5, HarmlessConcat
  <2> HIDE DEF pipe
  <2> QED BY <1>0, <2>1, <2>6, FirstSend
<1>2. CASE SkipVacancy(p)
  <2>1. CASE Done(p)
    BY <1>0, <2>1, FirstDone DEF Read
  <2>2. CASE ~Done(p)
    <3>1. PICK q \in Request :
            /\ req' = [req EXCEPT ![p] = q] /\ q.op = r.op /\ q.op # "apply"
            /\ q.at \in {"scan", "list", "now", "next"}
      BY <1>2, <2>2, Skipped
    <3>2. Sound(db, q)
      BY <1>0, <3>1 DEF Sound
    <3> QED BY <1>0, <3>1, <3>2, FirstRead
  <2> QED BY <2>1, <2>2
<1> QED BY <1>1, <1>2 DEF PassOver

LEMMA NextFirst ==
  ASSUME TypeInv, TypeInv', LockInv, FirstInv, [Next]_vars, "cancel" \notin Ops
  PROVE  FirstInv'
<1>1. ASSUME NEW p \in Procs, Begin(p) PROVE FirstInv'
  BY <1>1, FirstBegin
<1>2. ASSUME NEW p \in Procs, ApplyHExists(p) \/ ApplySCard(p) \/ ApplyGetVac(p) PROVE FirstInv'
  <2>1. CASE Done(p)
    BY <1>2, <2>1, FirstDone DEF ApplyHExists, ApplySCard, ApplyGetVac, Read
  <2> QED BY <1>2, <2>1, FirstApplyRead
<1>3. ASSUME NEW p \in Procs, ApplySetNX(p) PROVE FirstInv'
  <2>1. CASE Taking(p)
    BY <2>1, FirstTaking
  <2>2. CASE ~Taking(p)
    BY <1>3, <2>2, FirstDone DEF ApplySetNX, Taking
  <2> QED BY <2>1, <2>2
<1>4. ASSUME NEW p \in Procs, CancelHGet(p) \/ CancelGetVac(p) PROVE FALSE
  BY <1>4 DEF FirstInv, Sound, CancelHGet, CancelGetVac
<1>5. ASSUME NEW p \in Procs, Step(p) PROVE FirstInv'
  BY <1>2, <1>3, <1>4, <1>5, FirstDecide, FirstJobs, FirstPipe DEF Step
<1>6. ASSUME NEW p \in Procs, Fail(p) \/ PassOver(p) PROVE FirstInv'
  BY <1>6, FirstDone, FirstPassOver DEF Fail, Read
<1>7. ASSUME NEW v \in Vacancies, StartPasses(v) PROVE FirstInv'
  BY <1>7 DEF StartPasses, FirstInv, InApply, PastLock
<1>8. ASSUME NEW v \in Vacancies, NEW u \in Users, LockExpires(v, u) PROVE FirstInv'
  <2>1. UNCHANGED <<db, started, req>> /\ locks' = locks \ {<<v, u>>}
    BY <1>8 DEF LockExpires
  <2>2. ASSUME NEW x \in Procs, NEW y \in Vacancies, NEW z \in Users, InApply(x, y, z),
               req[x].at \in {"scard", "setnx"}, ~req[x].fresh
        PROVE  <<y, z>> # <<v, u>>
    BY <1>8, <2>2 DEF LockExpires
  <2> QED BY <2>1, <2>2 DEF FirstInv, InApply, PastLock
<1>9. CASE UNCHANGED vars
  BY <1>9 DEF vars, FirstInv, InApply, PastLock
<1> QED BY <1>1, <1>5, <1>6, <1>7, <1>8, <1>9 DEF Next

(* Without cancellations, an Apply that is about to write its record       *)
(* overwrites none: the HEXISTS of several commands ago still holds, as    *)
(* any record made since is protected by the lock or by its life.          *)
THEOREM NoRecordOverwritten == "cancel" \notin Ops => (Spec => []ApplyWritesFirst)
<1> SUFFICES ASSUME "cancel" \notin Ops PROVE Spec => []ApplyWritesFirst
  OBVIOUS
<1>1. Init => TypeInv /\ LockInv /\ FirstInv
  <2> SUFFICES ASSUME Init PROVE TypeInv /\ LockInv /\ FirstInv
    OBVIOUS
  <2>1. \A p \in Procs : req[p] = Idle
    BY DEF Init
  <2>2. LockInv
    BY <2>1, IdleTyped DEF LockInv, ApplyMutex, PastLock, InApply
  <2>3. FirstInv
    BY <2>1, IdleTyped DEF FirstInv, Sound, InApply
  <2> QED BY <2>2, <2>3, InitTypes
<1>2. TypeInv /\ LockInv /\ FirstInv /\ [Next]_vars => TypeInv' /\ LockInv' /\ FirstInv'
  BY NextTypes, NextLock, NextFirst
<1>3. TypeInv /\ FirstInv => ApplyWritesFirst
  <2> SUFFICES ASSUME TypeInv, FirstInv, NEW p \in Procs, Recording(req[p])
               PROVE  AppOf(p) = NoApplication
    BY DEF ApplyWritesFirst, Recording
  <2>1. req[p].v \in Vacancies /\ req[p].u \in Users /\ req[p].op = "apply"
    BY KeptTypes DEF Recording, Fits
  <2> QED BY <2>1 DEF FirstInv, InApply, Recorded, AppOf
<1> QED BY <1>1, <1>2, <1>3, PTL DEF Spec

-----------------------------------------------------------------------------
(***************************************************************************)
(* Overbooking.  What an accept or a cancellation writes back was computed *)
(* from a record read some commands earlier, and any number of writes may  *)
(* have come in between.  What never changes once a vacancy exists is the  *)
(* number of its places: every record of it that is written, or about to   *)
(* be written, stays below twice that number on its own account.           *)
(***************************************************************************)
ExistsIn(d, v) == ~Missing(d.vacancy[v])

(* A record that may be written to v. *)
InBounds(d, v, vac) ==
  /\ ExistsIn(d, v) /\ ~Missing(vac)
  /\ vac.needed = d.vacancy[v].needed
  /\ vac.filled < 2 * vac.needed

(* An application to v asks for no more places than v has.                 *)
Fitting(d, v, app) ==
  app # NoApplication => ExistsIn(d, v) /\ app.count <= d.vacancy[v].needed

Bounded(d, c) ==
  /\ c.cmd = "SET vacancy" => InBounds(d, c.v, c.vac)
  /\ c.cmd = "HSET app" => Fitting(d, c.v, c.app)

CreatePipe(v, n) == <<SetVacancy(v, NewVacancy(n)), ZAddAll(v), SAddActive(v)>>

(* The vacancy of a creation is in nobody else's hands until it is set.    *)
Creating(d, r) ==
  r.op = "create" /\ ~ExistsIn(d, r.v) /\ \E n \in SlotChoices : r.pipe = CreatePipe(r.v, n)

Booked(d, r) ==
  /\ Creating(d, r) \/ \A i \in 1 .. Len(r.pipe) : Bounded(d, r.pipe[i])
  /\ r.op \in {"accept", "cancel"} /\ r.at \in {"getvac", "hgetall"} => Fitting(d, r.v, r.app)
  /\ r.at = "hgetall" => r.op = "accept" /\ InBounds(d, r.v, r.vac)
  /\ r.at = "close" => ExistsIn(d, r.v)
  /\ \A v \in r.due : ExistsIn(d, v)
  /\ r.op = "create" => r.at = "pipe" /\ r.v \in Vacancies

BoardFits(d) ==
  /\ \A v \in Vacancies : IF ExistsIn(d, v) THEN d.vacancy[v].filled < 2 * d.vacancy[v].needed
                          ELSE d.vacancy[v].needed = 0
  /\ \A v \in Vacancies, u \in Users : Fitting(d, v, d.applicants[<<v, u>>])

CreatesApart ==
  \A p, q \in Procs : req[p].op = "create" /\ req[q].op = "create" /\ req[p].v = req[q].v => p = q

BookInv == BoardFits(db) /\ CreatesApart /\ \A p \in Procs : Booked(db, req[p])

(* A vacancy once there stays, and keeps its number of places.             *)
Grows(d, e) ==
  \A v \in Vacancies : ExistsIn(d, v) => ExistsIn(e, v) /\ e.vacancy[v].needed = d.vacancy[v].needed

LEMMA BoundedKept ==
  ASSUME NEW d, NEW e, Grows(d, e), NEW c \in Command, Bounded(d, c)
  PROVE  Bounded(e, c)
<1>1. c.cmd \in {"SET vacancy", "HSET app"} => c.v \in Vacancies
  BY DEF Command
<1> QED
  BY <1>1 DEF Bounded, Grows, InBounds, Fitting

LEMMA BookedKept ==
  ASSUME NEW d, NEW e, Grows(d, e), NEW r \in Request, Fits(r), Booked(d, r),
         Creating(d, r) => ~ExistsIn(e, r.v)
  PROVE  Booked(e, r)
<1>1. Creating(d, r) => Creating(e, r)
  BY DEF Creating
<1>2. ASSUME \A i \in 1 .. Len(r.pipe) : Bounded(d, r.pipe[i]), NEW i \in 1 .. Len(r.pipe)
      PROVE  Bounded(e, r.pipe[i])
  BY <1>2, BoundedKept DEF Request
<1>3. r.op \in {"accept", "cancel"} /\ r.at \in {"getvac", "hgetall"} => Fitting(e, r.v, r.app)
  BY DEF Booked, Fits, Fitting, Grows
<1>4. r.at = "hgetall" => r.op = "accept" /\ InBounds(e, r.v, r.vac)
  BY DEF Booked, Fits, InBounds, Grows
<1>5. r.at = "close" => ExistsIn(e, r.v)
  BY DEF Booked, Fits, Grows
<1>6. \A v \in r.due : ExistsIn(e, v)
  BY DEF Booked, Request, Grows
<1> QED
  BY <1>1, <1>2, <1>3, <1>4, <1>5, <1>6 DEF Booked

(* The commands of every request but a creation's first.                   *)
LEMMA RunBook ==
  ASSUME NEW d \in Data, BoardFits(d), NEW c \in Command, Bounded(d, c)
  PROVE  /\ BoardFits(Run(d, c)) /\ Grows(d, Run(d, c))
         /\ \A v \in Vacancies : ExistsIn(Run(d, c), v) <=> ExistsIn(d, v)
<1> DEFINE e == Run(d, c)
<1>1. CASE c \in [cmd : {"SET vacancy"}, v : Vacancies, vac : Vacancy]
  <2>1. e = [d EXCEPT !.vacancy[c.v] = c.vac]
    BY <1>1 DEF Run
  <2>2. e.vacancy = [d.vacancy EXCEPT ![c.v] = c.vac] /\ e.applicants = d.applicants
    BY <2>1 DEF Data
  <2>3. c.v \in Vacancies /\ d.vacancy \in [Vacancies -> Vacancy] /\ InBounds(d, c.v, c.vac)
    BY <1>1 DEF Data, Bounded
  <2> HIDE DEF e
  <2>4. /\ \A v \in Vacancies : e.vacancy[v].needed = d.vacancy[v].needed
        /\ \A v \in Vacancies : ExistsIn(e, v) <=> ExistsIn(d, v)
    BY <2>2, <2>3 DEF InBounds, ExistsIn
  <2>5. \A v \in Vacancies : ExistsIn(e, v) => e.vacancy[v].filled < 2 * e.vacancy[v].needed
    BY <2>2, <2>3 DEF InBounds, ExistsIn, BoardFits
  <2>6. BoardFits(e)
    BY <2>2, <2>4, <2>5 DEF BoardFits, Fitting
  <2>7. Grows(d, e)
    BY <2>4 DEF Grows
  <2> QED BY <2>4, <2>6, <2>7 DEF e
<1>2. CASE c \in [cmd : {"HSET app"}, v : Vacancies, u : Users, app : Application]
  <2>1. e = [d EXCEPT !.applicants[<<c.v, c.u>>] = c.app]
    BY <1>2 DEF Run
  <2>2. e.applicants = [d.applicants EXCEPT ![<<c.v, c.u>>] = c.app] /\ e.vacancy = d.vacancy
    BY <2>1 DEF Data
  <2>3. d.applicants \in [Pairs -> Application] /\ Fitting(d, c.v, c.app)
    BY <1>2 DEF Data, Bounded
  <2> HIDE DEF e
  <2>4. \A v \in Vacancies, u \in Users : Fitting(d, v, e.applicants[<<v, u>>])
    BY <1>2, <2>2, <2>3 DEF BoardFits, Pairs
  <2>5. BoardFits(e) /\ Grows(d, e) /\ \A v \in Vacancies : ExistsIn(e, v) <=> ExistsIn(d, v)
    BY <2>2, <2>4 DEF BoardFits, Grows, Fitting, ExistsIn
  <2> QED BY <2>5 DEF e
<1>3. CASE c.cmd = "HDEL app" /\ c.v \in Vacancies /\ c.u \in Users
  <2>1. e = [d EXCEPT !.applicants[<<c.v, c.u>>] = NoApplication]
    BY <1>3 DEF Run
  <2>2. /\ e.applicants = [d.applicants EXCEPT ![<<c.v, c.u>>] = NoApplication]
        /\ e.vacancy = d.vacancy /\ d.applicants \in [Pairs -> Application]
    BY <2>1 DEF Data
  <2> HIDE DEF e
  <2>3. \A v \in Vacancies, u \in Users : Fitting(d, v, e.applicants[<<v, u>>])
    BY <2>2 DEF BoardFits, Pairs, Fitting
  <2>4. BoardFits(e) /\ Grows(d, e) /\ \A v \in Vacancies : ExistsIn(e, v) <=> ExistsIn(d, v)
    BY <2>2, <2>3 DEF BoardFits, Grows, Fitting, ExistsIn
  <2> QED BY <2>4 DEF e
<1>4. CASE c.cmd \in {"SADD apps", "SREM apps", "DEL apps", "SADD active", "SREM active", "ZADD all"}
  <2>1. e.vacancy = d.vacancy /\ e.applicants = d.applicants
    BY <1>4 DEF Run, Data
  <2> HIDE DEF e
  <2>2. BoardFits(e) /\ Grows(d, e) /\ \A v \in Vacancies : ExistsIn(e, v) <=> ExistsIn(d, v)
    BY <2>1 DEF BoardFits, Grows, Fitting, ExistsIn
  <2> QED BY <2>2 DEF e
<1> QED
  BY <1>1, <1>2, <1>3, <1>4 DEF Command

(* A creation sets a vacancy that nothing refers to.                       *)
LEMMA RunCreate ==
  ASSUME NEW d \in Data, BoardFits(d), NEW v \in Vacancies, ~ExistsIn(d, v), NEW n \in SlotChoices
  PROVE  LET e == Run(d, SetVacancy(v, NewVacancy(n)))
         IN  /\ BoardFits(e) /\ Grows(d, e)
             /\ \A x \in Vacancies : ExistsIn(e, x) <=> (x = v \/ ExistsIn(d, x))
<1> DEFINE e == Run(d, SetVacancy(v, NewVacancy(n)))
<1>1. n \in Nat /\ n > 0
  BY SlotsAssumption
<1>2. e.vacancy = [d.vacancy EXCEPT ![v] = NewVacancy(n)] /\ e.applicants = d.applicants
  BY DEF Run, SetVacancy, Data
<1>3. d.vacancy \in [Vacancies -> Vacancy]
  BY DEF Data
<1> HIDE DEF e
<1>4. /\ e.vacancy[v] = NewVacancy(n) /\ ExistsIn(e, v)
      /\ e.vacancy[v].filled < 2 * e.vacancy[v].needed
  BY <1>1, <1>2, <1>3 DEF ExistsIn, Missing, NewVacancy
<1>5. \A x \in Vacancies : x # v => e.vacancy[x] = d.vacancy[x]
  BY <1>2, <1>3
<1>6. Grows(d, e) /\ \A x \in Vacancies : ExistsIn(e, x) <=> (x = v \/ ExistsIn(d, x))
  BY <1>4, <1>5 DEF Grows, ExistsIn
<1>7. \A x \in Vacancies, u \in Users : Fitting(e, x, e.applicants[<<x, u>>])
  BY <1>2, <1>6 DEF BoardFits, Fitting, Grows
<1>8. BoardFits(e)
  BY <1>4, <1>5, <1>7 DEF BoardFits, ExistsIn
<1> QED
  BY <1>6, <1>8 DEF e

-----------------------------------------------------------------------------
(* A step of one request that leaves the other ones' vacancies as they     *)
(* expect them.                                                            *)
LEMMA BookStep ==
  ASSUME TypeInv, BookInv, NEW p \in Procs, NEW q, req' = [req EXCEPT ![p] = q],
         BoardFits(db'), Grows(db, db'), Booked(db', q),
         q.op = "create" => \A x \in Procs : x # p => ~(req[x].op = "create" /\ req[x].v = q.v),
         \A x \in Procs : x # p /\ Creating(db, req[x]) => ~ExistsIn(db', req[x].v)
  PROVE  BookInv'
<1>1. req'[p] = q /\ \A x \in Procs : x # p => req'[x] = req[x]
  BY DEF TypeInv
<1>2. ASSUME NEW x \in Procs PROVE Booked(db', req'[x])
  <2>1. CASE x = p
    BY <1>1, <2>1
  <2>2. CASE x # p
    <3>1. Booked(db, req[x]) /\ req[x] \in Request /\ Fits(req[x])
      BY KeptTypes DEF BookInv
    <3>2. Creating(db, req[x]) => ~ExistsIn(db', req[x].v)
      BY <2>2
    <3>3. Booked(db', req[x])
      BY <3>1, <3>2, BookedKept
    <3> QED BY <1>1, <2>2, <3>3
  <2> QED BY <2>1, <2>2
<1>3. ASSUME NEW x \in Procs, NEW y \in Procs,
             req'[x].op = "create", req'[y].op = "create", req'[x].v = req'[y].v
      PROVE  x = y
  BY <1>1, <1>3 DEF BookInv, CreatesApart
<1>4. CreatesApart'
  BY <1>3 DEF CreatesApart
<1> QED BY <1>2, <1>4 DEF BookInv

(* A step that only reads, of a request other than a creation. *)
LEMMA BookRead ==
  ASSUME TypeInv, BookInv, NEW p \in Procs, NEW q, req' = [req EXCEPT ![p] = q], db' = db,
         Booked(db, q), q.op # "create"
  PROVE  BookInv'
<1>1. BoardFits(db') /\ Grows(db, db') /\ Booked(db', q)
  BY DEF BookInv, Grows
<1>2. \A x \in Procs : x # p /\ Creating(db, req[x]) => ~ExistsIn(db', req[x].v)
  BY DEF Creating
<1> QED BY <1>1, <1>2, BookStep

LEMMA IdleBooked == \A d : Booked(d, Idle)
<1>1. Idle.pipe = <<>> /\ Idle.due = {} /\ Idle.op = "none" /\ Idle.at = "idle"
  BY DEF Idle
<1>2. Len(Idle.pipe) = 0
  BY <1>1
<1> QED BY <1>1, <1>2 DEF Booked

LEMMA BookDone ==
  ASSUME TypeInv, BookInv, NEW p \in Procs, Done(p), db' = db
  PROVE  BookInv'
<1>1. req' = [req EXCEPT ![p] = Idle]
  BY DEF Done
<1> QED BY <1>1, BookRead, IdleBooked, IdleTyped

(* From one read to the next. *)
LEMMA BookedMoved ==
  ASSUME NEW d, NEW r, NEW q, Booked(d, r), r.op # "create", q.op = r.op, q.pipe = r.pipe,
         \A v \in q.due : v \in r.due \/ ExistsIn(d, v),
         q.op \in {"accept", "cancel"} /\ q.at \in {"getvac", "hgetall"} => Fitting(d, q.v, q.app),
         q.at = "hgetall" => q.op = "accept" /\ InBounds(d, q.v, q.vac),
         q.at = "close" => ExistsIn(d, q.v)
  PROVE  Booked(d, q)
<1>1. \A i \in 1 .. Len(q.pipe) : Bounded(d, q.pipe[i])
  BY DEF Booked, Creating
<1>2. \A v \in q.due : ExistsIn(d, v)
  BY DEF Booked
<1> QED BY <1>1, <1>2 DEF Booked

LEMMA BookSend ==
  ASSUME TypeInv, BookInv, NEW p \in Procs, NEW pipe, Send(p, pipe), Read,
         req[p].op # "create", \A i \in 1 .. Len(pipe) : Bounded(db, pipe[i])
  PROVE  BookInv'
<1> DEFINE q == [req[p] EXCEPT !.at = "pipe", !.pipe = pipe, !.vac = NoVacancy,
                               !.app = NoApplication]
<1>1. q.op = req[p].op /\ q.at = "pipe" /\ q.pipe = pipe /\ q.due = req[p].due
  BY KeptTypes DEF Request
<1>2. req' = [req EXCEPT ![p] = q] /\ db' = db
  BY DEF Send, Read
<1> HIDE DEF q
<1>3. Booked(db, req[p])
  BY DEF BookInv
<1>4. Booked(db, q)
  BY <1>1, <1>3 DEF Booked
<1> QED BY <1>1, <1>2, <1>4, BookRead

-----------------------------------------------------------------------------
LEMMA BookBegin ==
  ASSUME TypeInv, BookInv, NEW p \in Procs, Begin(p)
  PROVE  BookInv'
<1>1. ASSUME NEW op, NEW step, NEW v, NEW u, NEW n, Start(p, op, step, v, u, n), Read,
             op # "create", step \in {"hexists", "hget", "smembers", "close"},
             step = "close" => ExistsIn(db, v)
      PROVE  BookInv'
  <2> DEFINE q == [Idle EXCEPT !.op = op, !.at = step, !.v = v, !.u = u, !.n = n]
  <2>1. q.op = op /\ q.at = step /\ q.v = v /\ q.pipe = <<>> /\ q.due = {}
    BY DEF Idle
  <2>2. req' = [req EXCEPT ![p] = q] /\ db' = db
    BY <1>1 DEF Start, Read
  <2> HIDE DEF q
  <2>3. Len(q.pipe) = 0
    BY <2>1
  <2>4. Booked(db, q)
    BY <1>1, <2>1, <2>3 DEF Booked
  <2> QED BY <1>1, <2>1, <2>2, <2>4, BookRead
<1>2. ASSUME NEW v \in Vacancies, CreateBegin(p, v) PROVE BookInv'
  <2>1. PICK n \in SlotChoices :
          req' = [req EXCEPT ![p] = [Idle EXCEPT !.op = "create", !.at = "pipe", !.v = v,
                   !.pipe = <<SetVacancy(v, NewVacancy(n)), ZAddAll(v), SAddActive(v)>>]]
    BY <1>2 DEF CreateBegin
  <2> DEFINE q == [Idle EXCEPT !.op = "create", !.at = "pipe", !.v = v, !.pipe = CreatePipe(v, n)]
  <2>2. q.op = "create" /\ q.at = "pipe" /\ q.v = v /\ q.pipe = CreatePipe(v, n) /\ q.due = {}
    BY DEF Idle
  <2>3. req' = [req EXCEPT ![p] = q] /\ db' = db
    BY <1>2, <2>1 DEF CreateBegin, Read, CreatePipe
  <2> HIDE DEF q
  <2>4. ~ExistsIn(db, v) /\ \A x \in Procs : ~(req[x].op = "create" /\ req[x].v = v)
    BY <1>2 DEF CreateBegin, Exists, ExistsIn
  <2>5. Creating(db, q)
    BY <2>2, <2>4 DEF Creating
  <2>6. Booked(db, q)
    BY <2>2, <2>5 DEF Booked
  <2>7. BoardFits(db') /\ Grows(db, db') /\ Booked(db', q)
    BY <2>3, <2>6 DEF BookInv, Grows
  <2>8. \A x \in Procs : x # p /\ Creating(db, req[x]) => ~ExistsIn(db', req[x].v)
    BY <2>3 DEF Creating
  <2> QED BY <2>2, <2>3, <2>4, <2>7, <2>8, BookStep
<1>3. ASSUME NEW v \in Vacancies, CloseBegin(p, v) PROVE BookInv'
  BY <1>1, <1>3 DEF CloseBegin, Exists, ExistsIn
<1>4. ASSUME NEW v \in Vacancies, NEW u \in Users, ApplyBegin(p, v, u) PROVE BookInv'
  BY <1>1, <1>4 DEF ApplyBegin
<1>5. ASSUME NEW v \in Vacancies, NEW u \in Users, DecideBegin(p, v, u) PROVE BookInv'
  BY <1>1, <1>5 DEF DecideBegin
<1>6. ASSUME NEW v \in Vacancies, NEW u \in Users, CancelBegin(p, v, u) PROVE BookInv'
  BY <1>1, <1>6 DEF CancelBegin
<1>7. ASSUME NEW u \in Users, MyJobsBegin(p, u) PROVE BookInv'
  BY <1>1, <1>7 DEF MyJobsBegin
<1>8. ASSUME NEW u \in Users, DeleteBegin(p, u) PROVE BookInv'
  <2> DEFINE q == [Idle EXCEPT !.op = "delete", !.at = "pipe", !.u = u, !.pipe = <<DelApps(u)>>]
  <2>1. q.op = "delete" /\ q.at = "pipe" /\ q.pipe = <<DelApps(u)>> /\ q.due = {}
    BY DEF Idle
  <2>2. req' = [req EXCEPT ![p] = q] /\ db' = db
    BY <1>8 DEF DeleteBegin, Read
  <2>3. Bounded(db, DelApps(u))
    BY DEF Bounded, DelApps
  <2>4. \A i \in 1 .. Len(<<DelApps(u)>>) : Bounded(db, <<DelApps(u)>>[i])
    BY <2>3
  <2> HIDE DEF q
  <2>5. Booked(db, q)
    BY <2>1, <2>4 DEF Booked
  <2> QED BY <2>1, <2>2, <2>5, BookRead
<1>9. ASSUME ExpireBegin(p) PROVE BookInv'
  <2> DEFINE q == [Idle EXCEPT !.op = "expire", !.at = "list", !.todo = db.all]
  <2>1. q.op = "expire" /\ q.at = "list" /\ q.pipe = <<>> /\ q.due = {}
    BY DEF Idle
  <2>2. req' = [req EXCEPT ![p] = q] /\ db' = db
    BY <1>9 DEF ExpireBegin, Read
  <2> HIDE DEF q
  <2>3. Len(q.pipe) = 0
    BY <2>1
  <2>4. Booked(db, q)
    BY <2>1, <2>3 DEF Booked
  <2> QED BY <2>1, <2>2, <2>4, BookRead
<1> QED BY <1>2, <1>3, <1>4, <1>5, <1>6, <1>7, <1>8, <1>9 DEF Begin

-----------------------------------------------------------------------------
(* A record that is read has its bounds. *)
LEMMA BookedRecords ==
  ASSUME TypeInv, BookInv, NEW p \in Procs, req[p].v \in Vacancies, req[p].u \in Users
  PROVE  /\ Fitting(db, req[p].v, AppOf(p))
         /\ ~Full(VacOf(p)) => ExistsIn(db, req[p].v)
         /\ ExistsIn(db, req[p].v) => VacOf(p).filled < 2 * VacOf(p).needed
<1>1. VacOf(p) \in Vacancy
  BY KeptTypes DEF VacOf
<1>2. ~Full(VacOf(p)) => VacOf(p).needed # 0
  BY <1>1 DEF Full, Vacancy
<1> QED BY <1>2 DEF BookInv, BoardFits, AppOf, VacOf

LEMMA BookApply ==
  ASSUME TypeInv, BookInv, NEW p \in Procs,
         ApplyHExists(p) \/ ApplySCard(p) \/ ApplySetNX(p) \/ ApplyGetVac(p)
  PROVE  BookInv'
<1> DEFINE r == req[p]
<1>0. /\ r \in Request /\ Fits(r) /\ Booked(db, r) /\ r.op = "apply"
      /\ req \in [Procs -> Request] /\ db' = db
      /\ r.v \in Vacancies /\ r.u \in Users
  BY KeptTypes DEF BookInv, TypeInv, Fits, ApplyHExists, ApplySCard, ApplySetNX, ApplyGetVac, Read
<1>1. ASSUME NEW q, req' = [req EXCEPT ![p] = q], q.op = "apply",
             q.at \in {"scard", "setnx"}, q.due = r.due, q.pipe = r.pipe
      PROVE  BookInv'
  <2>1. Booked(db, q)
    BY <1>0, <1>1, BookedMoved
  <2> QED BY <1>0, <1>1, <2>1, BookRead
<1>2. ASSUME ApplyHExists(p), ~Applied(p) PROVE BookInv'
  <2> DEFINE b == <<r.v, r.u>> \in locks /\ ~ \E y \in Procs : PastLock(y, r.v, r.u)
             q == [r EXCEPT !.at = "scard", !.fresh = b]
  <2>1. req' = [req EXCEPT ![p] = q]
    BY <1>0, <1>2 DEF ApplyHExists
  <2> HIDE DEF b
  <2>2. q.op = "apply" /\ q.at = "scard" /\ q.due = r.due /\ q.pipe = r.pipe
    BY <1>0 DEF Request
  <2> HIDE DEF q
  <2> QED BY <1>1, <2>1, <2>2
<1>3. ASSUME ApplySCard(p), ~Done(p) PROVE BookInv'
  <2> DEFINE q == [r EXCEPT !.at = "setnx"]
  <2>1. req' = [req EXCEPT ![p] = q]
    BY <1>0, <1>3 DEF ApplySCard, Goto
  <2>2. q.op = "apply" /\ q.at = "setnx" /\ q.due = r.due /\ q.pipe = r.pipe
    BY <1>0 DEF Request
  <2> HIDE DEF q
  <2> QED BY <1>1, <2>1, <2>2
<1>4. ASSUME ApplySetNX(p), ~Done(p) PROVE BookInv'
  <2>1. req' = [q \in Procs |->
                 IF q = p THEN [req[q] EXCEPT !.at = "getvac", !.fresh = FALSE]
                 ELSE IF InApply(q, req[p].v, req[p].u) THEN [req[q] EXCEPT !.fresh = FALSE]
                 ELSE req[q]]
    BY <1>4 DEF ApplySetNX
  <2>2. ASSUME NEW x \in Procs
        PROVE  /\ req'[x].op = req[x].op /\ req'[x].v = req[x].v /\ req'[x].app = req[x].app
               /\ req'[x].vac = req[x].vac /\ req'[x].due = req[x].due
               /\ req'[x].pipe = req[x].pipe
               /\ x # p => req'[x].at = req[x].at
    <3>1. req[x] \in Request
      BY <1>0
    <3>2. \/ req'[x] = [req[x] EXCEPT !.at = "getvac", !.fresh = FALSE] /\ x = p
          \/ req'[x] = [req[x] EXCEPT !.fresh = FALSE] \/ req'[x] = req[x]
      BY <2>1
    <3> QED BY <3>1, <3>2 DEF Request
  <2>3. ASSUME NEW x \in Procs PROVE Booked(db', req'[x])
    <3>1. Booked(db, req[x])
      BY DEF BookInv
    <3>2. CASE x # p
      BY <1>0, <2>2, <3>1, <3>2 DEF Booked, Creating
    <3>3. CASE x = p
      <4>1. req'[x].at = "getvac"
        BY <1>0, <2>1, <3>3 DEF Request
      <4> QED BY <1>0, <2>2, <3>1, <3>3, <4>1, BookedMoved
    <3> QED BY <3>2, <3>3
  <2>4. CreatesApart'
    BY <2>2 DEF BookInv, CreatesApart
  <2> QED BY <1>0, <2>3, <2>4 DEF BookInv
<1>5. ASSUME ApplyGetVac(p), ~Done(p) PROVE BookInv'
  <2> DEFINE n == Granted(VacOf(p), r.n)
             pipe == <<HSetApp(r.v, r.u, NewApplication(n)), SAddApps(r.v, r.u)>>
  <2>1. Send(p, pipe) /\ Read /\ n # 0
    BY <1>5 DEF ApplyGetVac
  <2>2. VacOf(p) \in Vacancy /\ r.n \in Nat
    BY <1>0, KeptTypes DEF VacOf, Request
  <2>3. ~Full(VacOf(p)) /\ n <= VacOf(p).needed
    BY <2>1, <2>2 DEF Granted, Vacancy, Full
  <2> HIDE DEF n
  <2>4. NewApplication(n).count = n
    BY DEF NewApplication
  <2>5. Fitting(db, r.v, NewApplication(n))
    BY <1>0, <2>3, <2>4, BookedRecords DEF Fitting, VacOf
  <2>6. Bounded(db, HSetApp(r.v, r.u, NewApplication(n))) /\ Bounded(db, SAddApps(r.v, r.u))
    BY <2>5 DEF Bounded, HSetApp, SAddApps
  <2>7. \A i \in 1 .. Len(pipe) : Bounded(db, pipe[i])
    BY <2>6
  <2> HIDE DEF pipe
  <2> QED BY <1>0, <2>1, <2>7, BookSend
<1>6. ASSUME Done(p) PROVE BookInv'
  BY <1>0, <1>6, BookDone
<1> QED BY <1>2, <1>3, <1>4, <1>5, <1>6 DEF ApplyHExists

-----------------------------------------------------------------------------
LEMMA BoundedConcat ==
  ASSUME NEW d, NEW s \in Seq(Command), NEW t \in Seq(Command),
         \A i \in 1 .. Len(s) : Bounded(d, s[i]), \A i \in 1 .. Len(t) : Bounded(d, t[i])
  PROVE  \A i \in 1 .. Len(s \o t) : Bounded(d, (s \o t)[i])
<1> SUFFICES ASSUME NEW i \in 1 .. Len(s \o t) PROVE Bounded(d, (s \o t)[i])
  OBVIOUS
<1>1. CASE i <= Len(s)
  <2>1. (s \o t)[i] = s[i] /\ i \in 1 .. Len(s)
    BY <1>1
  <2> QED BY <2>1
<1>2. CASE i > Len(s)
  <2>1. (s \o t)[i] = t[i - Len(s)] /\ i - Len(s) \in 1 .. Len(t)
    BY <1>2
  <2> QED BY <2>1
<1> QED BY <1>1, <1>2

(* A new status leaves the number of places of an application alone. *)
LEMMA FittingStatus ==
  ASSUME NEW d, NEW v, NEW app \in Application, NEW s, Fitting(d, v, app),
         app # NoApplication
  PROVE  Fitting(d, v, WithStatus(app, s))
<1>1. WithStatus(app, s).count = app.count
  BY DEF WithStatus, Application
<1> QED BY <1>1 DEF Fitting

LEMMA TurnedAwayBounded ==
  ASSUME TypeInv, BookInv, NEW v \in Vacancies, NEW x,
         NEW order \in SetToSeqs({w \in Users \ {x} : db.applicants[<<v, w>>].status = "pending"})
  PROVE  \A i \in 1 .. Len(TurnedAway(v, order)) : Bounded(db, TurnedAway(v, order)[i])
<1> DEFINE S == {w \in Users \ {x} : db.applicants[<<v, w>>].status = "pending"}
<1>1. Cardinality(S) \in Nat
  BY UsersAssumption, FS_Subset, FS_CardinalityType
<1>2. order \in [1 .. Cardinality(S) -> S]
  BY DEF SetToSeqs
<1> HIDE DEF S
<1>3. Len(order) \in Nat /\ \A i \in 1 .. Len(order) : order[i] \in S
  BY <1>1, <1>2
<1>4. 2 * Len(order) \in Nat
  BY <1>3
<1>5. Len(TurnedAway(v, order)) = 2 * Len(order)
  BY <1>4 DEF TurnedAway
<1> SUFFICES ASSUME NEW i \in 1 .. 2 * Len(order) PROVE Bounded(db, TurnedAway(v, order)[i])
  BY <1>5
<1> DEFINE w == order[(i + 1) \div 2]
<1>6. (i + 1) \div 2 \in 1 .. Len(order)
  BY <1>3
<1>7. w \in Users /\ db.applicants[<<v, w>>].status = "pending"
  BY <1>3, <1>6 DEF S
<1>8. TurnedAway(v, order)[i]
        = IF i % 2 = 1 THEN HSetApp(v, w, WithStatus(db.applicants[<<v, w>>], "rejected"))
          ELSE SRemApps(v, w)
  BY DEF TurnedAway
<1> HIDE DEF w
<1> DEFINE app == db.applicants[<<v, w>>]
<1>9. app \in Application /\ app # NoApplication /\ Fitting(db, v, app)
  BY <1>7 DEF TypeInv, Data, Pairs, NoApplication, BookInv, BoardFits
<1> HIDE DEF app
<1>10. Fitting(db, v, WithStatus(app, "rejected"))
  BY <1>9, FittingStatus
<1>11. Bounded(db, HSetApp(v, w, WithStatus(app, "rejected"))) /\ Bounded(db, SRemApps(v, w))
  BY <1>10 DEF Bounded, HSetApp, SRemApps
<1> QED BY <1>8, <1>11 DEF app

(* What an accept writes. *)
LEMMA AcceptBounded ==
  ASSUME TypeInv, NEW r, NEW vac \in Vacancy, r.v \in Vacancies, r.u \in Users,
         r.app \in Application, Fitting(db, r.v, r.app), InBounds(db, r.v, vac)
  PROVE  /\ AcceptWrites(r, vac) \in Seq(Command)
         /\ \A i \in 1 .. Len(AcceptWrites(r, vac)) : Bounded(db, AcceptWrites(r, vac)[i])
<1> DEFINE app == WithStatus(r.app, "accepted")
<1>1. app \in Application /\ app.count = r.app.count
  BY DEF WithStatus, Application
<1>2. HSetApp(r.v, r.u, app) \in Command /\ SetVacancy(r.v, vac) \in Command
  BY <1>1, CommandTypes
<1>3. db.vacancy[r.v] \in Vacancy
  BY DEF TypeInv, Data
<1>4. r.app.count <= db.vacancy[r.v].needed
  <2>1. CASE r.app = NoApplication
    BY <1>3, <2>1 DEF NoApplication, Vacancy
  <2>2. CASE r.app # NoApplication
    BY <2>2 DEF Fitting
  <2> QED BY <2>1, <2>2
<1>5. Fitting(db, r.v, app)
  BY <1>1, <1>4 DEF Fitting, InBounds
<1>6. AcceptWrites(r, vac) = <<HSetApp(r.v, r.u, app), SetVacancy(r.v, vac)>>
  BY DEF AcceptWrites
<1> HIDE DEF app
<1>7. Bounded(db, HSetApp(r.v, r.u, app)) /\ Bounded(db, SetVacancy(r.v, vac))
  BY <1>5 DEF Bounded, HSetApp, SetVacancy
<1> QED BY <1>2, <1>6, <1>7

LEMMA AfterAcceptInBounds ==
  ASSUME TypeInv, BookInv, NEW p \in Procs, req[p].v \in Vacancies, req[p].u \in Users,
         req[p].app \in Application, Fitting(db, req[p].v, req[p].app), ~Full(VacOf(p))
  PROVE  InBounds(db, req[p].v, AfterAccept(VacOf(p), req[p].app))
<1> DEFINE vac == VacOf(p)
           app == req[p].app
           new == AfterAccept(vac, app)
<1>1. vac \in Vacancy /\ ExistsIn(db, req[p].v) /\ vac = db.vacancy[req[p].v]
  BY BookedRecords, KeptTypes DEF VacOf
<1>2. app.count \in Nat /\ vac.needed \in Nat /\ vac.filled \in Nat /\ vac.filled < vac.needed
  BY <1>1 DEF Application, Vacancy, Full
<1>3. app.count <= vac.needed
  <2>1. CASE app = NoApplication
    BY <1>2, <2>1 DEF NoApplication
  <2>2. CASE app # NoApplication
    BY <1>1, <2>2 DEF Fitting
  <2> QED BY <2>1, <2>2
<1> HIDE DEF vac, app
<1>4. new.needed = vac.needed /\ new.filled = vac.filled + app.count
  BY <1>1 DEF AfterAccept, Vacancy
<1>5. new.status \in {"filled", vac.status}
  BY <1>1 DEF AfterAccept, Vacancy
<1>6. ~Missing(vac) /\ ~Missing(new)
  BY <1>1, <1>5 DEF ExistsIn, Missing
<1> HIDE DEF new
<1>7. new.filled < 2 * new.needed
  BY <1>2, <1>3, <1>4
<1> QED BY <1>1, <1>4, <1>6, <1>7 DEF InBounds, vac, app, new

LEMMA BookDecide ==
  ASSUME TypeInv, BookInv, NEW p \in Procs,
         AcceptHGet(p) \/ AcceptGetVac(p) \/ AcceptHGetAll(p) \/ RejectHGet(p)
  PROVE  BookInv'
<1> DEFINE r == req[p]
<1>0. /\ r \in Request /\ Fits(r) /\ Booked(db, r) /\ r.op \in {"accept", "reject"}
      /\ req \in [Procs -> Request] /\ db' = db /\ Read
  BY KeptTypes
     DEF BookInv, TypeInv, AcceptHGet, AcceptGetVac, AcceptHGetAll, RejectHGet, Read
<1>1. /\ r.v \in Vacancies /\ r.u \in Users /\ r.app \in Application /\ r.vac \in Vacancy
      /\ AppOf(p) \in Application /\ VacOf(p) \in Vacancy /\ Fitting(db, r.v, AppOf(p))
  <2>1. /\ r.v \in Vacancies /\ r.u \in Users /\ r.app \in Application /\ r.vac \in Vacancy
    BY <1>0 DEF Fits, AcceptHGet, AcceptGetVac, AcceptHGetAll, RejectHGet, Request
  <2> QED BY <2>1, KeptTypes, BookedRecords DEF AppOf, VacOf
<1>2. ASSUME Done(p) PROVE BookInv'
  BY <1>0, <1>2, BookDone
<1>3. ASSUME AcceptHGet(p), ~Done(p) PROVE BookInv'
  <2> DEFINE q == [r EXCEPT !.at = "getvac", !.app = AppOf(p)]
  <2>1. req' = [req EXCEPT ![p] = q] /\ r.op = "accept"
    BY <1>0, <1>3 DEF AcceptHGet
  <2>2. q.op = r.op /\ q.at = "getvac" /\ q.app = AppOf(p) /\ q.v = r.v
        /\ q.due = r.due /\ q.pipe = r.pipe
    BY <1>0 DEF Request
  <2> HIDE DEF q
  <2>3. Booked(db, q)
    BY <1>0, <1>1, <2>1, <2>2, BookedMoved
  <2> QED BY <1>0, <2>1, <2>2, <2>3, BookRead
<1>4. ASSUME AcceptGetVac(p), ~Done(p) PROVE BookInv'
  <2> DEFINE vac == AfterAccept(VacOf(p), r.app)
             q == [r EXCEPT !.at = "hgetall", !.vac = vac]
  <2>1. /\ r.op = "accept" /\ r.at = "getvac" /\ ~Full(VacOf(p))
        /\ \/ Send(p, AcceptWrites(r, vac))
           \/ req' = [req EXCEPT ![p].at = "hgetall", ![p].vac = vac]
    BY <1>4 DEF AcceptGetVac
  <2>2. Fitting(db, r.v, r.app)
    BY <1>0, <2>1 DEF Booked
  <2>3. vac \in Vacancy /\ InBounds(db, r.v, vac)
    BY <1>1, <2>1, <2>2, RecordTypes, AfterAcceptInBounds
  <2> HIDE DEF vac
  <2>4. CASE Send(p, AcceptWrites(r, vac))
    <3>1. \A i \in 1 .. Len(AcceptWrites(r, vac)) : Bounded(db, AcceptWrites(r, vac)[i])
      BY <1>1, <2>2, <2>3, AcceptBounded
    <3> QED BY <1>0, <2>4, <3>1, BookSend
  <2>5. CASE req' = [req EXCEPT ![p].at = "hgetall", ![p].vac = vac]
    <3>1. req' = [req EXCEPT ![p] = q]
      BY <1>0, <2>5
    <3>2. q.op = r.op /\ q.at = "hgetall" /\ q.app = r.app /\ q.v = r.v /\ q.vac = vac
          /\ q.due = r.due /\ q.pipe = r.pipe
      BY <1>0 DEF Request
    <3> HIDE DEF q
    <3>3. Booked(db, q)
      BY <1>0, <2>1, <2>2, <2>3, <3>2, BookedMoved
    <3> QED BY <1>0, <3>1, <3>2, <3>3, BookRead
  <2> QED BY <2>1, <2>4, <2>5
<1>5. ASSUME AcceptHGetAll(p) PROVE BookInv'
  <2> DEFINE out == {w \in Users \ {r.u} : db.applicants[<<r.v, w>>].status = "pending"}
  <2>1. PICK order \in SetToSeqs(out) :
          Send(p, AcceptWrites(r, r.vac) \o TurnedAway(r.v, order) \o <<SRemActive(r.v)>>)
    BY <1>5 DEF AcceptHGetAll
  <2> DEFINE writes == AcceptWrites(r, r.vac)
             away == TurnedAway(r.v, order)
             last == <<SRemActive(r.v)>>
  <2>2. r.op = "accept" /\ r.at = "hgetall"
    BY <1>5 DEF AcceptHGetAll
  <2>3. Fitting(db, r.v, r.app) /\ InBounds(db, r.v, r.vac)
    BY <1>0, <2>2 DEF Booked
  <2>4. /\ writes \in Seq(Command)
        /\ \A i \in 1 .. Len(writes) : Bounded(db, writes[i])
    BY <1>1, <2>3, AcceptBounded
  <2>5. /\ away \in Seq(Command)
        /\ \A i \in 1 .. Len(away) : Bounded(db, away[i])
    BY <1>1, TurnedAwayTypes, TurnedAwayBounded
  <2>6. SRemActive(r.v) \in Command /\ Bounded(db, SRemActive(r.v))
    BY <1>1, CommandTypes DEF Bounded, SRemActive
  <2>7. last \in Seq(Command) /\ \A i \in 1 .. Len(last) : Bounded(db, last[i])
    BY <2>6
  <2> HIDE DEF writes, away, last
  <2>8. /\ writes \o away \in Seq(Command)
        /\ \A i \in 1 .. Len(writes \o away) : Bounded(db, (writes \o away)[i])
    BY <2>4, <2>5, BoundedConcat
  <2> DEFINE pipe == (writes \o away) \o last
  <2>9. \A i \in 1 .. Len(pipe) : Bounded(db, pipe[i])
    BY <2>7, <2>8, BoundedConcat
  <2>10. Send(p, pipe)
    BY <2>1 DEF writes, away, last
  <2> HIDE DEF pipe
  <2> QED BY <1>0, <2>9, <2>10, BookSend
<1>6. ASSUME RejectHGet(p), ~Done(p) PROVE BookInv'
  <2> DEFINE app == WithStatus(AppOf(p), "rejected")
             pipe == <<HSetApp(r.v, r.u, app), SRemApps(r.v, r.u)>>
  <2>1. Send(p, pipe) /\ AppOf(p) # NoApplication
    BY <1>6 DEF RejectHGet
  <2>2. Fitting(db, r.v, app)
    BY <1>1, <2>1, FittingStatus
  <2> HIDE DEF app
  <2>3. Bounded(db, HSetApp(r.v, r.u, app)) /\ Bounded(db, SRemApps(r.v, r.u))
    BY <2>2 DEF Bounded, HSetApp, SRemApps
  <2>4. \A i \in 1 .. Len(pipe) : Bounded(db, pipe[i])
    BY <2>3
  <2> HIDE DEF pipe
  <2> QED BY <1>0, <2>1, <2>4, BookSend
<1> QED BY <1>2, <1>3, <1>4, <1>5, <1>6

LEMMA BookCancel ==
  ASSUME TypeInv, BookInv, NEW p \in Procs, CancelHGet(p) \/ CancelGetVac(p)
  PROVE  BookInv'
<1> DEFINE r == req[p]
<1>0. /\ r \in Request /\ Fits(r) /\ Booked(db, r) /\ r.op = "cancel"
      /\ req \in [Procs -> Request] /\ db' = db /\ Read
      /\ r.v \in Vacancies /\ r.u \in Users
  BY KeptTypes DEF BookInv, TypeInv, CancelHGet, CancelGetVac, Read, Fits
<1>1. Fitting(db, r.v, AppOf(p)) /\ VacOf(p) \in Vacancy /\ r.app \in Application
      /\ (ExistsIn(db, r.v) => VacOf(p).filled < 2 * VacOf(p).needed)
  BY <1>0, KeptTypes, BookedRecords DEF VacOf, Request
<1>2. ASSUME CancelHGet(p) PROVE BookInv'
  <2> DEFINE q1 == [r EXCEPT !.at = "smembers"]
             q2 == [r EXCEPT !.at = "getvac", !.app = AppOf(p)]
  <2>1. req' = [req EXCEPT ![p] = q1] \/ req' = [req EXCEPT ![p] = q2]
    BY <1>0, <1>2 DEF CancelHGet, Goto
  <2>2. q1.op = r.op /\ q1.at = "smembers" /\ q1.due = r.due /\ q1.pipe = r.pipe
    BY <1>0 DEF Request
  <2>3. q2.op = r.op /\ q2.at = "getvac" /\ q2.app = AppOf(p) /\ q2.v = r.v
        /\ q2.due = r.due /\ q2.pipe = r.pipe
    BY <1>0 DEF Request
  <2> HIDE DEF q1, q2
  <2>4. Booked(db, q1) /\ Booked(db, q2)
    BY <1>0, <1>1, <2>2, <2>3, BookedMoved
  <2> QED BY <1>0, <2>1, <2>2, <2>3, <2>4, BookRead
<1>3. ASSUME CancelGetVac(p) PROVE BookInv'
  <2> DEFINE vac == AfterCancel(VacOf(p), r.app)
             undo == <<HDelApp(r.v, r.u), SRemApps(r.v, r.u)>>
             back == IF r.app.status = "accepted" THEN <<SetVacancy(r.v, vac)>> ELSE <<>>
             open == IF r.app.status = "accepted" /\ VacOf(p).status = "filled"
                        /\ vac.status = "active"
                     THEN <<SAddActive(r.v)>> ELSE <<>>
  <2>1. Send(p, undo \o back \o open) /\ r.at = "getvac"
    BY <1>3 DEF CancelGetVac
  <2>2. Fitting(db, r.v, r.app)
    BY <1>0, <2>1 DEF Booked
  <2>3. vac \in Vacancy
    BY <1>1, RecordTypes
  <2>4. r.app.status = "accepted" => InBounds(db, r.v, vac)
    <3> SUFFICES ASSUME r.app.status = "accepted" PROVE InBounds(db, r.v, vac)
      OBVIOUS
    <3>1. ExistsIn(db, r.v)
      BY <2>2 DEF Fitting, NoApplication
    <3>2. /\ r.app.count \in Nat /\ VacOf(p).filled \in Nat /\ VacOf(p).needed \in Nat
          /\ VacOf(p).filled < 2 * VacOf(p).needed
      BY <1>1, <3>1 DEF Application, Vacancy
    <3>3. /\ vac.needed = VacOf(p).needed
          /\ vac.filled = IF r.app.count > VacOf(p).filled THEN 0
                          ELSE VacOf(p).filled - r.app.count
      BY <1>1 DEF AfterCancel, Vacancy
    <3>4. vac.status \in {"closed", "active"}
      BY <1>1 DEF AfterCancel, Vacancy
    <3> HIDE DEF vac
    <3>5. vac.filled < 2 * vac.needed
      BY <3>2, <3>3
    <3> QED BY <3>1, <3>3, <3>4, <3>5 DEF InBounds, VacOf, Missing
  <2> HIDE DEF vac
  <2>5. /\ HDelApp(r.v, r.u) \in Command /\ SRemApps(r.v, r.u) \in Command
        /\ SetVacancy(r.v, vac) \in Command /\ SAddActive(r.v) \in Command
    BY <1>0, <2>3, CommandTypes
  <2>6. /\ Bounded(db, HDelApp(r.v, r.u)) /\ Bounded(db, SRemApps(r.v, r.u))
        /\ Bounded(db, SAddActive(r.v))
        /\ (r.app.status = "accepted" => Bounded(db, SetVacancy(r.v, vac)))
    BY <2>4 DEF Bounded, HDelApp, SRemApps, SAddActive, SetVacancy
  <2>7. undo \in Seq(Command) /\ \A i \in 1 .. Len(undo) : Bounded(db, undo[i])
    BY <2>5, <2>6
  <2>8. back \in Seq(Command) /\ \A i \in 1 .. Len(back) : Bounded(db, back[i])
    BY <2>5, <2>6
  <2>9. open \in Seq(Command) /\ \A i \in 1 .. Len(open) : Bounded(db, open[i])
    BY <2>5, <2>6
  <2> HIDE DEF undo, back, open
  <2>10. /\ undo \o back \in Seq(Command)
         /\ \A i \in 1 .. Len(undo \o back) : Bounded(db, (undo \o back)[i])
    BY <2>7, <2>8, BoundedConcat
  <2> DEFINE pipe == (undo \o back) \o open
  <2>11. \A i \in 1 .. Len(pipe) : Bounded(db, pipe[i])
    BY <2>9, <2>10, BoundedConcat
  <2>12. Send(p, pipe)
    BY <2>1
  <2> HIDE DEF pipe
  <2> QED BY <1>0, <2>11, <2>12, BookSend
<1> QED BY <1>2, <1>3

-----------------------------------------------------------------------------
(* A command of a request other than a creation's first one. *)
LEMMA BookWrite ==
  ASSUME TypeInv, BookInv, NEW p \in Procs, NEW q, req' = [req EXCEPT ![p] = q],
         NEW c \in Command, Bounded(db, c), db' = Run(db, c), q.op # "create",
         \A e : Grows(db, e) => Booked(e, q)
  PROVE  BookInv'
<1>1. db \in Data /\ BoardFits(db)
  BY DEF TypeInv, BookInv
<1>2. /\ BoardFits(db') /\ Grows(db, db')
      /\ \A v \in Vacancies : ExistsIn(db', v) <=> ExistsIn(db, v)
  BY <1>1, RunBook
<1>3. ASSUME NEW x \in Procs, Creating(db, req[x]) PROVE ~ExistsIn(db', req[x].v)
  <2>1. req[x].v \in Vacancies /\ ~ExistsIn(db, req[x].v)
    BY <1>3 DEF BookInv, Booked, Creating
  <2> QED BY <1>2, <2>1
<1> QED BY <1>2, <1>3, BookStep

LEMMA BookJobs ==
  ASSUME TypeInv, BookInv, NEW p \in Procs,
         \/ MyJobsSMembers(p) \/ MyJobsZRange(p) \/ MyJobsScan(p) \/ MyJobsSAdd(p)
         \/ CloseGetVac(p) \/ ExpireGet(p) \/ ExpireNow(p) \/ ExpireNext(p)
  PROVE  BookInv'
<1> DEFINE r == req[p]
           steps == {"zrange", "scan", "sadd", "close", "list", "now", "next"}
<1>0. /\ r \in Request /\ Fits(r) /\ Booked(db, r) /\ r.op # "create"
      /\ req \in [Procs -> Request]
  BY KeptTypes DEF BookInv, MyJobsSMembers, MyJobsZRange, MyJobsScan, MyJobsSAdd, CloseGetVac,
                   ExpireGet, ExpireNow, ExpireNext, Booked, TypeInv
<1>1. ASSUME NEW q, req' = [req EXCEPT ![p] = q], Read, q.op = r.op, q.at \in steps,
             q.pipe = r.pipe, \A v \in q.due : v \in r.due \/ ExistsIn(db, v),
             q.at = "close" => ExistsIn(db, q.v)
      PROVE  BookInv'
  <2>1. Booked(db, q)
    BY <1>0, <1>1, BookedMoved
  <2> QED BY <1>0, <1>1, <2>1, BookRead DEF Read
<1>2. ASSUME Done(p), Read PROVE BookInv'
  BY <1>2, BookDone DEF Read
<1>3. ASSUME MyJobsSMembers(p) PROVE BookInv'
  <2> DEFINE q == [r EXCEPT !.at = "zrange"]
  <2>1. (Done(p) \/ req' = [req EXCEPT ![p] = q]) /\ Read
    BY <1>0, <1>3 DEF MyJobsSMembers, Goto
  <2>2. q.op = r.op /\ q.at = "zrange" /\ q.pipe = r.pipe /\ q.due = r.due
    BY <1>0 DEF Request
  <2> HIDE DEF q
  <2> QED BY <1>1, <1>2, <2>1, <2>2
<1>4. ASSUME MyJobsZRange(p) PROVE BookInv'
  <2> DEFINE q == [r EXCEPT !.at = "scan", !.todo = db.all]
  <2>1. q.op = r.op /\ q.at = "scan" /\ q.pipe = r.pipe /\ q.due = r.due
    BY <1>0 DEF Request
  <2>2. (Done(p) \/ req' = [req EXCEPT ![p] = q]) /\ Read
    BY <1>0, <1>4 DEF MyJobsZRange
  <2> HIDE DEF q
  <2> QED BY <1>1, <1>2, <2>1, <2>2
<1>5. ASSUME MyJobsScan(p) PROVE BookInv'
  <2>1. PICK v \in r.todo :
          IF db.applicants[<<v, r.u>>] # NoApplication
          THEN req' = [req EXCEPT ![p].at = "sadd", ![p].v = v, ![p].todo = r.todo \ {v}]
          ELSE IF r.todo \ {v} = {} THEN Done(p)
               ELSE req' = [req EXCEPT ![p].todo = r.todo \ {v}]
    BY <1>5 DEF MyJobsScan
  <2> DEFINE q1 == [r EXCEPT !.at = "sadd", !.v = v, !.todo = r.todo \ {v}]
             q2 == [r EXCEPT !.todo = r.todo \ {v}]
  <2>2. req' = [req EXCEPT ![p] = q1] \/ Done(p) \/ req' = [req EXCEPT ![p] = q2]
    BY <1>0, <2>1
  <2>3. /\ q1.op = r.op /\ q1.at = "sadd" /\ q1.pipe = r.pipe /\ q1.due = r.due
        /\ q2.op = r.op /\ q2.at = "scan" /\ q2.pipe = r.pipe /\ q2.due = r.due
    BY <1>0, <1>5 DEF Request, MyJobsScan
  <2>4. Read
    BY <1>5 DEF MyJobsScan
  <2> HIDE DEF q1, q2
  <2> QED BY <1>1, <1>2, <2>2, <2>3, <2>4
<1>6. ASSUME MyJobsSAdd(p) PROVE BookInv'
  <2> DEFINE q1 == [r EXCEPT !.at = "scan", !.v = Nothing]
             c == SAddApps(r.v, r.u)
  <2>1. r.v \in Vacancies /\ r.u \in Users
    BY <1>0, <1>6 DEF Fits, MyJobsSAdd
  <2>2. c \in Command /\ Bounded(db, c)
    BY <2>1, CommandTypes DEF Bounded, SAddApps
  <2>3. db' = Run(db, c)
    BY <1>6 DEF MyJobsSAdd
  <2>4. req' = [req EXCEPT ![p] = q1] \/ req' = [req EXCEPT ![p] = Idle]
    BY <1>0, <1>6 DEF MyJobsSAdd, Done
  <2>5. q1.op = r.op /\ q1.at = "scan" /\ q1.pipe = r.pipe /\ q1.due = r.due
    BY <1>0 DEF Request
  <2> HIDE DEF q1, c
  <2>6. ASSUME NEW e, Grows(db, e) PROVE Booked(e, q1)
    <3>1. Booked(e, r)
      BY <1>0, <2>6, BookedKept DEF Creating
    <3> QED BY <1>0, <2>5, <3>1, BookedMoved
  <2>7. CASE req' = [req EXCEPT ![p] = q1]
    BY <1>0, <2>2, <2>3, <2>5, <2>6, <2>7, BookWrite
  <2>8. CASE req' = [req EXCEPT ![p] = Idle]
    BY <2>2, <2>3, <2>8, IdleBooked, IdleTyped, BookWrite
  <2> QED BY <2>4, <2>7, <2>8
<1>7. ASSUME CloseGetVac(p) PROVE BookInv'
  <2> DEFINE vac == AfterClose(VacOf(p))
             pipe == <<SetVacancy(r.v, vac), SRemActive(r.v)>>
  <2>1. r.v \in Vacancies /\ ExistsIn(db, r.v)
    BY <1>0, <1>7 DEF Fits, CloseGetVac, Booked
  <2>2. /\ VacOf(p) \in Vacancy /\ VacOf(p) = db.vacancy[r.v]
        /\ VacOf(p).filled < 2 * VacOf(p).needed
    BY <2>1, KeptTypes DEF VacOf, BookInv, BoardFits
  <2>3. vac.needed = VacOf(p).needed /\ vac.filled = VacOf(p).filled /\ vac.status = "closed"
    BY <2>2 DEF AfterClose, Vacancy
  <2>4. Send(p, pipe) /\ Read
    BY <1>7 DEF CloseGetVac
  <2> HIDE DEF vac
  <2>5. InBounds(db, r.v, vac)
    BY <2>1, <2>2, <2>3 DEF InBounds, Missing
  <2>6. Bounded(db, SetVacancy(r.v, vac)) /\ Bounded(db, SRemActive(r.v))
    BY <2>5 DEF Bounded, SetVacancy, SRemActive
  <2>7. \A i \in 1 .. Len(pipe) : Bounded(db, pipe[i])
    BY <2>6
  <2> HIDE DEF pipe
  <2> QED BY <1>0, <2>4, <2>7, BookSend
<1>8. ASSUME ExpireGet(p) PROVE BookInv'
  <2> DEFINE active(v) == IF db.vacancy[v].status = "active" THEN {v} ELSE {}
             step(v) == IF r.todo \ {v} = {} THEN "now" ELSE "list"
             q(v) == [r EXCEPT !.todo = r.todo \ {v}, !.due = r.due \cup active(v),
                               !.at = step(v)]
  <2>1. PICK v \in r.todo : req' = [req EXCEPT ![p] = q(v)]
    BY <1>0, <1>8 DEF ExpireGet
  <2>2. q(v).op = r.op /\ q(v).at \in {"now", "list"} /\ q(v).pipe = r.pipe
        /\ q(v).due = r.due \cup active(v)
    BY <1>0 DEF Request
  <2>3. \A x \in active(v) : ExistsIn(db, x)
    BY DEF ExistsIn, Missing
  <2>4. Read
    BY <1>8 DEF ExpireGet
  <2> HIDE DEF q, active
  <2> QED BY <1>1, <2>1, <2>2, <2>3, <2>4
<1>9. ASSUME ExpireNow(p) PROVE BookInv'
  <2> DEFINE q == [r EXCEPT !.at = "next", !.due = r.due \cap started]
  <2>1. (req' = [req EXCEPT ![p] = q] \/ Done(p)) /\ Read
    BY <1>0, <1>9 DEF ExpireNow
  <2>2. q.op = r.op /\ q.at = "next" /\ q.pipe = r.pipe /\ q.due = r.due \cap started
    BY <1>0 DEF Request
  <2> HIDE DEF q
  <2> QED BY <1>1, <1>2, <2>1, <2>2
<1>10. ASSUME ExpireNext(p) PROVE BookInv'
  <2> DEFINE q(v) == [r EXCEPT !.at = "close", !.v = v, !.due = r.due \ {v}]
  <2>1. PICK v \in r.due : req' = [req EXCEPT ![p] = q(v)]
    BY <1>0, <1>10 DEF ExpireNext
  <2>2. v \in Vacancies /\ ExistsIn(db, v)
    BY <1>0 DEF Booked, Request
  <2>3. q(v).op = r.op /\ q(v).at = "close" /\ q(v).v = v /\ q(v).pipe = r.pipe
        /\ q(v).due = r.due \ {v}
    BY <1>0, <2>2 DEF Request
  <2>4. Read
    BY <1>10 DEF ExpireNext
  <2> HIDE DEF q
  <2> QED BY <1>1, <2>1, <2>2, <2>3, <2>4
<1> QED BY <1>3, <1>4, <1>5, <1>6, <1>7, <1>8, <1>9, <1>10

LEMMA BookPipe ==
  ASSUME TypeInv, TypeInv', BookInv, NEW p \in Procs, PipeStep(p)
  PROVE  BookInv'
<1> DEFINE r == req[p]
           c == Head(r.pipe)
           rest == Tail(r.pipe)
           q == IF rest = <<>> THEN AfterPipe(r) ELSE [r EXCEPT !.pipe = rest]
<1>0. /\ req \in [Procs -> Request] /\ r \in Request /\ Fits(r) /\ db \in Data
      /\ r.pipe \in Seq(Command) /\ r.pipe # <<>> /\ Booked(db, r) /\ r.at = "pipe"
      /\ BoardFits(db)
  BY KeptTypes DEF TypeInv, Fits, PipeStep, Request, BookInv
<1>1. db' = Run(db, c) /\ req' = [req EXCEPT ![p] = q]
  BY DEF PipeStep
<1>2. c \in Command /\ q \in Request
  BY <1>0, <1>1 DEF TypeInv
<1>3. CASE Creating(db, r)
  <2>1. PICK n \in SlotChoices : r.pipe = CreatePipe(r.v, n)
    BY <1>3 DEF Creating
  <2>2. /\ c = SetVacancy(r.v, NewVacancy(n)) /\ rest = <<ZAddAll(r.v), SAddActive(r.v)>>
        /\ rest # <<>>
    BY <2>1 DEF CreatePipe
  <2>3. r.v \in Vacancies /\ ~ExistsIn(db, r.v) /\ r.op = "create" /\ r.due \subseteq Vacancies
    BY <1>0, <1>3 DEF Creating, Booked, Request
  <2>4. q.op = "create" /\ q.at = "pipe" /\ q.v = r.v /\ q.pipe = rest /\ q.due = r.due
    BY <1>0, <2>2, <2>3 DEF Request
  <2> HIDE DEF c, q
  <2>5. /\ BoardFits(db') /\ Grows(db, db')
        /\ \A x \in Vacancies : ExistsIn(db', x) <=> (x = r.v \/ ExistsIn(db, x))
    BY <1>0, <1>1, <2>2, <2>3, RunCreate
  <2>6. Bounded(db', ZAddAll(r.v)) /\ Bounded(db', SAddActive(r.v))
    BY DEF Bounded, ZAddAll, SAddActive
  <2> DEFINE index == <<ZAddAll(r.v), SAddActive(r.v)>>
  <2>7. \A i \in 1 .. Len(index) : Bounded(db', index[i])
    BY <2>6
  <2>8. rest = index
    BY <2>2
  <2> HIDE DEF index, rest
  <2>9. \A i \in 1 .. Len(rest) : Bounded(db', rest[i])
    BY <2>7, <2>8
  <2>10. \A v \in q.due : ExistsIn(db', v)
    BY <1>0, <2>3, <2>4, <2>5 DEF Booked
  <2>11. Booked(db', q)
    BY <2>3, <2>4, <2>9, <2>10 DEF Booked
  <2>12. \A x \in Procs : x # p => ~(req[x].op = "create" /\ req[x].v = q.v)
    BY <2>3, <2>4 DEF BookInv, CreatesApart
  <2>13. ASSUME NEW x \in Procs, x # p, Creating(db, req[x]) PROVE ~ExistsIn(db', req[x].v)
    <3>1. req[x].v \in Vacancies /\ ~ExistsIn(db, req[x].v) /\ req[x].op = "create"
      BY <2>13 DEF BookInv, Booked, Creating
    <3> QED BY <2>4, <2>5, <2>12, <2>13, <3>1
  <2> QED BY <1>1, <2>5, <2>11, <2>12, <2>13, BookStep
<1>4. CASE ~Creating(db, r)
  <2>1. \A i \in 1 .. Len(r.pipe) : Bounded(db, r.pipe[i])
    BY <1>0, <1>4 DEF Booked
  <2>2. Bounded(db, c) /\ \A i \in 1 .. Len(rest) : Bounded(db, rest[i])
    BY <1>0, <2>1
  <2>3. /\ BoardFits(db') /\ Grows(db, db')
        /\ \A v \in Vacancies : ExistsIn(db', v) <=> ExistsIn(db, v)
    BY <1>0, <1>1, <1>2, <2>2, RunBook
  <2>4. q.op = "create" => r.op = "create" /\ q.v = r.v
    BY <1>0, IdleTyped DEF AfterPipe, Request
  <2>5. Booked(db', q)
    <3>1. CASE q = Idle
      BY <3>1, IdleBooked
    <3>2. CASE q # Idle /\ rest = <<>>
      <4>1. /\ q.op = r.op /\ r.op \in {"cancel", "expire"} /\ q.at \in {"smembers", "next"}
            /\ q.pipe = <<>> /\ q.due = r.due
        BY <1>0, <3>2 DEF AfterPipe, Request
      <4> HIDE DEF q
      <4>2. Len(q.pipe) = 0
        BY <4>1
      <4>3. \A v \in q.due : v \in Vacancies /\ ExistsIn(db', v)
        BY <1>0, <2>3, <4>1 DEF Booked, Request
      <4> QED BY <4>1, <4>2, <4>3 DEF Booked
    <3>3. CASE rest # <<>>
      <4>1. q.op = r.op /\ q.at = "pipe" /\ q.pipe = rest /\ q.due = r.due /\ q.v = r.v
        BY <1>0, <3>3 DEF Request
      <4> HIDE DEF q
      <4>2. Booked(db, q)
        BY <1>0, <2>2, <4>1 DEF Booked
      <4>3. ASSUME Creating(db, q) PROVE FALSE
        <5>1. PICK n \in SlotChoices : q.pipe = CreatePipe(q.v, n)
          BY <4>3 DEF Creating
        <5>2. ~ExistsIn(db, q.v)
          BY <4>3 DEF Creating
        <5> DEFINE pipe == CreatePipe(q.v, n)
        <5>3. 1 \in 1 .. Len(pipe) /\ pipe[1] = SetVacancy(q.v, NewVacancy(n))
          BY DEF CreatePipe
        <5>4. pipe = rest
          BY <4>1, <5>1
        <5> HIDE DEF pipe, rest
        <5>5. Bounded(db, pipe[1])
          BY <2>2, <5>3, <5>4
        <5> DEFINE first == SetVacancy(q.v, NewVacancy(n))
        <5>6. first.cmd = "SET vacancy" /\ first.v = q.v
          BY DEF SetVacancy
        <5>7. pipe[1] = first
          BY <5>3
        <5> HIDE DEF first
        <5>8. pipe[1].cmd = "SET vacancy" /\ pipe[1].v = q.v
          BY <5>6, <5>7
        <5> QED BY <5>2, <5>5, <5>8 DEF Bounded, InBounds
      <4>4. q \in Request /\ Fits(q)
        BY <1>0, <1>1, <1>2 DEF TypeInv
      <4> QED BY <2>3, <4>2, <4>3, <4>4, BookedKept
    <3> QED BY <3>1, <3>2, <3>3
  <2>6. q.op = "create" => \A x \in Procs : x # p => ~(req[x].op = "create" /\ req[x].v = q.v)
    BY <2>4 DEF BookInv, CreatesApart
  <2>7. ASSUME NEW x \in Procs, Creating(db, req[x]) PROVE ~ExistsIn(db', req[x].v)
    <3>1. req[x].v \in Vacancies /\ ~ExistsIn(db, req[x].v)
      BY <2>7 DEF BookInv, Booked, Creating
    <3> QED BY <2>3, <3>1
  <2> HIDE DEF q
  <2> QED BY <1>1, <2>3, <2>5, <2>6, <2>7, BookStep
<1> QED BY <1>3, <1>4

(* Errors that are passed over. *)
LEMMA BookPassOver ==
  ASSUME TypeInv, BookInv, NEW p \in Procs, PassOver(p)
  PROVE  BookInv'
<1> DEFINE r == req[p]
<1>0. Booked(db, r) /\ Read /\ db' = db
  BY DEF BookInv, PassOver, Read
<1>1. CASE TurnNobodyAway(p)
  <2> DEFINE writes == AcceptWrites(r, r.vac)
             last == <<SRemActive(r.v)>>
             pipe == writes \o last
  <2>1. /\ writes \in Seq(Command) /\ last \in Seq(Command) /\ Send(p, pipe)
        /\ r.at = "hgetall" /\ r.v \in Vacancies /\ r.u \in Users
        /\ r.app \in Application /\ r.vac \in Vacancy
    BY <1>1, NobodyAway
  <2>2. r.op = "accept" /\ Fitting(db, r.v, r.app) /\ InBounds(db, r.v, r.vac)
    BY <1>0, <2>1 DEF Booked
  <2>3. \A i \in 1 .. Len(writes) : Bounded(db, writes[i])
    BY <2>1, <2>2, AcceptBounded
  <2>4. Bounded(db, SRemActive(r.v))
    BY DEF Bounded, SRemActive
  <2>5. \A i \in 1 .. Len(last) : Bounded(db, last[i])
    BY <2>4
  <2> HIDE DEF writes, last
  <2>6. \A i \in 1 .. Len(pipe) : Bounded(db, pipe[i])
    BY <2>1, <2>3, <2>5, BoundedConcat
  <2> HIDE DEF pipe
  <2> QED BY <1>0, <2>1, <2>2, <2>6, BookSend
<1>2. CASE SkipVacancy(p)
  <2>1. CASE Done(p)
    BY <1>0, <2>1, BookDone
  <2>2. CASE ~Done(p)
    <3>1. PICK q \in Request :
            /\ req' = [req EXCEPT ![p] = q] /\ q.op = r.op
            /\ q.at \in {"scan", "list", "now", "next"}
            /\ q.due = r.due /\ (q.pipe = r.pipe \/ q.pipe = <<>>)
            /\ r.at = "pipe" => r.op = "expire"
      BY <1>2, <2>2, Skipped
    <3>2. r.op # "create"
      BY <1>0, <3>1 DEF Booked
    <3>3. \A i \in 1 .. Len(q.pipe) : Bounded(db, q.pipe[i])
      <4>1. CASE q.pipe = r.pipe
        BY <1>0, <3>2, <4>1 DEF Booked, Creating
      <4>2. CASE q.pipe = <<>>
        <5>1. Len(q.pipe) = 0
          BY <4>2
        <5> QED BY <5>1
      <4> QED BY <3>1, <4>1, <4>2
    <3>4. Booked(db, q)
      BY <1>0, <3>1, <3>2, <3>3 DEF Booked
    <3> QED BY <1>0, <3>1, <3>2, <3>4, BookRead
  <2> QED BY <2>1, <2>2
<1> QED BY <1>1, <1>2 DEF PassOver

LEMMA NextBook ==
  ASSUME TypeInv, TypeInv', BookInv, [Next]_vars
  PROVE  BookInv'
<1>1. ASSUME NEW p \in Procs, Begin(p) PROVE BookInv'
  BY <1>1, BookBegin
<1>2. ASSUME NEW p \in Procs, Step(p) PROVE BookInv'
  BY <1>2, BookApply, BookDecide, BookCancel, BookJobs, BookPipe DEF Step
<1>3. ASSUME NEW p \in Procs, Fail(p) \/ PassOver(p) PROVE BookInv'
  BY <1>3, BookDone, BookPassOver DEF Fail, Read
<1>4. ASSUME NEW v \in Vacancies, StartPasses(v) PROVE BookInv'
  BY <1>4 DEF StartPasses, BookInv, CreatesApart
<1>5. ASSUME NEW v \in Vacancies, NEW u \in Users, LockExpires(v, u) PROVE BookInv'
  BY <1>5 DEF LockExpires, BookInv, CreatesApart
<1>6. CASE UNCHANGED vars
  BY <1>6 DEF vars, BookInv, CreatesApart
<1> QED BY <1>1, <1>2, <1>3, <1>4, <1>5, <1>6 DEF Next

LEMMA InitBook == Init => TypeInv /\ BookInv
<1> SUFFICES ASSUME Init PROVE TypeInv /\ BookInv
  OBVIOUS
<1>1. \A p \in Procs : req[p] = Idle
  BY DEF Init
<1>2. CreatesApart /\ \A p \in Procs : Booked(db, req[p])
  BY <1>1, IdleBooked, IdleTyped DEF CreatesApart
<1>3. BoardFits(db)
  BY DEF Init, EmptyDb, BoardFits, ExistsIn, Missing, NoVacancy, Fitting, Pairs
<1> QED BY <1>2, <1>3, InitTypes DEF BookInv

(* No interleaving of any number of accepts, cancellations, closings and   *)
(* expiries, and no request that stops half-way, books a vacancy to twice  *)
(* its places: an accept writes places it computed from a record that was  *)
(* not full, however old, and adds one application, which asked for no     *)
(* more than the vacancy has.                                              *)
THEOREM OverbookingStaysBounded == Spec => []OverbookingBounded
<1>1. TypeInv /\ BookInv /\ [Next]_vars => TypeInv' /\ BookInv'
  BY NextTypes, NextBook
<1>2. BookInv => OverbookingBounded
  BY DEF BookInv, BoardFits, OverbookingBounded, Exists, ExistsIn
<1> QED BY InitBook, <1>1, <1>2, PTL DEF Spec

-----------------------------------------------------------------------------
(***************************************************************************)
(* Requests one at a time implement VacancyBoard.  The mapping Settled     *)
(* runs the pipeline of the request in advance, so the proof needs to know *)
(* what a pipeline does: RunAll is a fold over the places of the sequence, *)
(* and Ran is the data after the first n commands.                         *)
(***************************************************************************)
Pipe == INSTANCE FiniteFolds WITH
  Op <- LAMBDA c, d : Run(d, c), Base <- LAMBDA env : env[1],
  F <- LAMBDA env, i : env[2][i], Pick <- LAMBDA S : Max(S)

Ran(d, s, n) == Pipe!Fold(<<d, s>>, 1 .. n)

LEMMA RunAllRan ==
  ASSUME NEW d, NEW s \in Seq(Command)
  PROVE  RunAll(d, s) = Ran(d, s, Len(s))
<1>1. DOMAIN s = 1 .. Len(s)
  OBVIOUS
<1> QED
  BY <1>1 DEF RunAll, FoldLeft, MapThenFoldSet, Ran, Pipe!Fold, Pipe!MapThenFoldSet

(* The least number of a set of numbers.                                   *)
LEMMA LeastNat ==
  ASSUME NEW B \in SUBSET Nat, B # {}
  PROVE  \E m \in B : \A k \in B : m <= k
<1> DEFINE less == {pair \in Nat \X Nat : pair[1] < pair[2]}
<1>1. IsWellFoundedOn(less, Nat)
  BY NatLessThanWellFounded DEF OpToRel
<1>2. \A k, m \in Nat : <<k, m>> \in less <=> k < m
  OBVIOUS
<1> HIDE DEF less
<1>3. PICK m \in B : \A k \in B : ~(<<k, m>> \in less)
  BY <1>1, WFMin
<1>4. ASSUME NEW k \in B PROVE m <= k
  <2>1. k \in Nat /\ m \in Nat
    OBVIOUS
  <2>2. ~(k < m)
    BY <1>2, <1>3, <2>1
  <2> QED
    BY <2>1, <2>2
<1> QED
  BY <1>4

LEMMA MaxOfInterval ==
  ASSUME NEW n \in Nat \ {0}
  PROVE  Max(1 .. n) = n
<1>1. n \in 1 .. n /\ \A y \in 1 .. n : n >= y
  OBVIOUS
<1>2. \A x \in 1 .. n : (\A y \in 1 .. n : x >= y) => x = n
  OBVIOUS
<1> QED
  BY <1>1, <1>2 DEF Max

LEMMA PipeFinite == \A n \in Nat : Pipe!IsFiniteSet(1 .. n)
<1>1. \A S : IsFiniteSet(S) <=> Pipe!IsFiniteSet(S)
  BY DEF IsFiniteSet, Pipe!IsFiniteSet
<1> QED
  BY <1>1, FS_Interval

LEMMA PipePicks == \A n \in Nat : Pipe!Picks(1 .. n)
<1> SUFFICES ASSUME NEW n \in Nat, NEW T \in SUBSET (1 .. n), T # {}
             PROVE  Max(T) \in T
  BY DEF Pipe!Picks
<1> DEFINE B == {k \in Nat : \A y \in T : k >= y}
<1>1. n \in B
  OBVIOUS
<1>2. PICK m \in B : \A k \in B : m <= k
  BY <1>1, LeastNat
<1>3. m \in T
  <2>1. SUFFICES ASSUME m \notin T PROVE FALSE
    OBVIOUS
  <2>2. PICK y \in T : TRUE
    OBVIOUS
  <2>3. m > 0
    BY <1>2, <2>1, <2>2
  <2>4. \A z \in T : m - 1 >= z
    BY <1>2, <2>1
  <2>5. m - 1 \in B
    BY <1>2, <2>3, <2>4
  <2> QED
    BY <1>2, <2>3, <2>5
<1> QED
  BY <1>2, <1>3 DEF Max

LEMMA RanFirst == ASSUME NEW d, NEW s PROVE Ran(d, s, 0) = d
<1>1. 1 .. 0 = {}
  OBVIOUS
<1> QED
  BY <1>1, Pipe!FoldEmpty DEF Ran

LEMMA RanNext ==
  ASSUME NEW d, NEW s, NEW n \in Nat
  PROVE  Ran(d, s, n + 1) = Run(Ran(d, s, n), s[n + 1])
<1> DEFINE env == <<d, s>>
           S == 1 .. n + 1
<1>1. Pipe!IsFiniteSet(S) /\ Pipe!Picks(S) /\ S # {} /\ Max(S) = n + 1
  BY PipeFinite, PipePicks, MaxOfInterval
<1>2. S \ {n + 1} = 1 .. n
  OBVIOUS
<1>3. env[2] = s
  OBVIOUS
<1> HIDE DEF env, S
<1>4. Pipe!Fold(env, S) = Run(Pipe!Fold(env, S \ {Max(S)}), env[2][Max(S)])
  BY <1>1, Pipe!FoldStep
<1> QED
  BY <1>1, <1>2, <1>3, <1>4 DEF Ran, env, S

(* What a pipeline does depends on its commands alone, ...                 *)
LEMMA RanSame ==
  ASSUME NEW d, NEW s, NEW t, NEW n \in Nat, \A i \in 1 .. n : s[i] = t[i]
  PROVE  Ran(d, s, n) = Ran(d, t, n)
<1> DEFINE env == <<d, s>>
           oth == <<d, t>>
<1>1. env[1] = oth[1] /\ \A i \in 1 .. n : env[2][i] = oth[2][i]
  OBVIOUS
<1> HIDE DEF env, oth
<1>2. Pipe!Fold(env, 1 .. n) = Pipe!Fold(oth, 1 .. n)
  BY <1>1, PipeFinite, PipePicks, Pipe!FoldSame
<1> QED
  BY <1>2 DEF Ran, env, oth

(* ... and it may be cut in two.                                           *)
LEMMA RanShift ==
  ASSUME NEW d, NEW s, NEW t, NEW m \in Nat, NEW n \in Nat, \A i \in 1 .. n : s[m + i] = t[i]
  PROVE  Ran(d, s, m + n) = Ran(Ran(d, s, m), t, n)
<1> DEFINE P(k) == Ran(d, s, m + k) = Ran(Ran(d, s, m), t, k)
           B == {k \in 0 .. n : ~P(k)}
<1> SUFFICES ASSUME B # {} PROVE FALSE
  OBVIOUS
<1>0. B \in SUBSET Nat
  OBVIOUS
<1> HIDE DEF B
<1>1. PICK k \in B : \A j \in B : k <= j
  BY <1>0, LeastNat
<1> USE DEF B
<1>2. CASE k = 0
  <2>1. m + 0 = m
    OBVIOUS
  <2>2. P(0)
    BY <2>1, RanFirst
  <2> QED
    BY <1>1, <1>2, <2>2
<1>3. CASE k # 0
  <2>1. k - 1 \in 0 .. n /\ k - 1 \in Nat /\ m + (k - 1) \in Nat /\ k \in 1 .. n
    BY <1>1, <1>3
  <2>2. P(k - 1)
    BY <1>1, <2>1
  <2>3. (m + (k - 1)) + 1 = m + k /\ (k - 1) + 1 = k
    BY <2>1
  <2>4. Ran(d, s, m + k) = Run(Ran(d, s, m + (k - 1)), s[m + k])
    BY <2>1, <2>3, RanNext
  <2>5. Ran(Ran(d, s, m), t, k) = Run(Ran(Ran(d, s, m), t, k - 1), t[k])
    BY <2>1, <2>3, RanNext
  <2>6. s[m + k] = t[k]
    BY <2>1
  <2>7. P(k)
    BY <2>2, <2>4, <2>5, <2>6
  <2> QED
    BY <1>1, <2>7
<1> QED
  BY <1>2, <1>3

LEMMA RunAllEmpty == ASSUME NEW d PROVE RunAll(d, <<>>) = d
<1>1. <<>> \in Seq(Command) /\ Len(<<>>) = 0
  OBVIOUS
<1> QED
  BY <1>1, RunAllRan, RanFirst

LEMMA RunAllConcat ==
  ASSUME NEW d, NEW s \in Seq(Command), NEW t \in Seq(Command)
  PROVE  RunAll(d, s \o t) = RunAll(RunAll(d, s), t)
<1> DEFINE w == s \o t
<1>1. /\ w \in Seq(Command) /\ Len(w) = Len(s) + Len(t) /\ Len(s) \in Nat /\ Len(t) \in Nat
      /\ \A i \in 1 .. Len(s) : w[i] = s[i]
      /\ \A i \in 1 .. Len(t) : w[Len(s) + i] = t[i]
  OBVIOUS
<1> HIDE DEF w
<1>2. Ran(d, w, Len(s) + Len(t)) = Ran(Ran(d, w, Len(s)), t, Len(t))
  <2> DEFINE m == Len(s)
             n == Len(t)
  <2>1. m \in Nat /\ n \in Nat /\ \A i \in 1 .. n : w[m + i] = t[i]
    BY <1>1
  <2> HIDE DEF m, n
  <2>2. Ran(d, w, m + n) = Ran(Ran(d, w, m), t, n)
    BY <2>1, RanShift
  <2> QED
    BY <2>2 DEF m, n
<1>3. Ran(d, w, Len(s)) = Ran(d, s, Len(s))
  BY <1>1, RanSame
<1>4. RunAll(d, w) = RunAll(RunAll(d, s), t)
  BY <1>1, <1>2, <1>3, RunAllRan
<1> QED
  BY <1>4 DEF w

LEMMA RunAllOne == ASSUME NEW d, NEW c \in Command PROVE RunAll(d, <<c>>) = Run(d, c)
<1> DEFINE s == <<c>>
<1>1. s \in Seq(Command) /\ Len(s) = 1 /\ s[1] = c
  OBVIOUS
<1> HIDE DEF s
<1>2. Ran(d, s, 1) = Run(Ran(d, s, 0), s[1])
  <2>1. 0 \in Nat /\ 0 + 1 = 1
    OBVIOUS
  <2> QED
    BY <2>1, RanNext
<1>3. RunAll(d, s) = Run(d, c)
  BY <1>1, <1>2, RanFirst, RunAllRan
<1> QED
  BY <1>3 DEF s

LEMMA RunAllHead ==
  ASSUME NEW d, NEW s \in Seq(Command), s # <<>>
  PROVE  RunAll(d, s) = RunAll(Run(d, Head(s)), Tail(s))
<1> DEFINE h == <<Head(s)>>
<1>1. Head(s) \in Command /\ Tail(s) \in Seq(Command) /\ h \in Seq(Command)
  OBVIOUS
<1>2. s = h \o Tail(s)
  OBVIOUS
<1>3. RunAll(d, h) = Run(d, Head(s))
  BY <1>1, RunAllOne
<1> HIDE DEF h
<1>4. RunAll(d, h \o Tail(s)) = RunAll(RunAll(d, h), Tail(s))
  BY <1>1, RunAllConcat
<1> QED
  BY <1>2, <1>3, <1>4

LEMMA RunAllTwo ==
  ASSUME NEW d, NEW a \in Command, NEW b \in Command
  PROVE  RunAll(d, <<a, b>>) = Run(Run(d, a), b)
<1> DEFINE s == <<a, b>>
<1>1. s \in Seq(Command) /\ s # <<>> /\ Head(s) = a /\ Tail(s) = <<b>>
  OBVIOUS
<1> HIDE DEF s
<1>2. RunAll(d, s) = RunAll(Run(d, a), <<b>>)
  BY <1>1, RunAllHead
<1> QED
  BY <1>2, RunAllOne DEF s

LEMMA RunAllThree ==
  ASSUME NEW d, NEW a \in Command, NEW b \in Command, NEW c \in Command
  PROVE  RunAll(d, <<a, b, c>>) = Run(Run(Run(d, a), b), c)
<1> DEFINE s == <<a, b, c>>
<1>1. s \in Seq(Command) /\ s # <<>> /\ Head(s) = a /\ Tail(s) = <<b, c>>
  OBVIOUS
<1> HIDE DEF s
<1>2. RunAll(d, s) = RunAll(Run(d, a), <<b, c>>)
  BY <1>1, RunAllHead
<1> QED
  BY <1>2, RunAllTwo DEF s

(* A pipeline of commands keeps the types.                                 *)
LEMMA RanTypes ==
  ASSUME NEW d \in Data, NEW s \in Seq(Command)
  PROVE  \A k \in 0 .. Len(s) : Ran(d, s, k) \in Data
<1> DEFINE B == {k \in 0 .. Len(s) : Ran(d, s, k) \notin Data}
<1> SUFFICES ASSUME B # {} PROVE FALSE
  OBVIOUS
<1>1. B \in SUBSET Nat
  OBVIOUS
<1> HIDE DEF B
<1>2. PICK k \in B : \A j \in B : k <= j
  BY <1>1, LeastNat
<1> USE DEF B
<1>3. k # 0
  BY <1>2, RanFirst
<1>4. k - 1 \in Nat /\ k - 1 \in 0 .. Len(s) /\ (k - 1) + 1 = k /\ k \in 1 .. Len(s)
  BY <1>2, <1>3
<1>5. Ran(d, s, k - 1) \in Data
  BY <1>2, <1>4
<1>6. Ran(d, s, k) = Run(Ran(d, s, k - 1), s[k])
  BY <1>4, RanNext
<1>7. s[k] \in Command
  BY <1>4
<1> QED
  BY <1>2, <1>5, <1>6, <1>7, RunTypes

LEMMA RunAllTypes ==
  ASSUME NEW d \in Data, NEW s \in Seq(Command)
  PROVE  RunAll(d, s) \in Data
<1>1. Len(s) \in 0 .. Len(s)
  OBVIOUS
<1> QED
  BY <1>1, RanTypes, RunAllRan

-----------------------------------------------------------------------------
(* The commands one by one, field by field.                                *)
Fields(d, vacs, apps, jobs, active, all) ==
  d.vacancy = vacs /\ d.applicants = apps /\ d.userApps = jobs /\ d.active = active /\ d.all = all

LEMMA SetEffect ==
  ASSUME NEW d \in Data, NEW v \in Vacancies, NEW vac \in Vacancy
  PROVE  Fields(Run(d, SetVacancy(v, vac)),
                [d.vacancy EXCEPT ![v] = vac], d.applicants, d.userApps, d.active, d.all)
  BY DEF Run, SetVacancy, Fields, Data

LEMMA HSetEffect ==
  ASSUME NEW d \in Data, NEW v \in Vacancies, NEW u \in Users, NEW app \in Application
  PROVE  Fields(Run(d, HSetApp(v, u, app)),
                d.vacancy, [d.applicants EXCEPT ![<<v, u>>] = app], d.userApps, d.active, d.all)
  BY DEF Run, HSetApp, Fields, Data

LEMMA HDelEffect ==
  ASSUME NEW d \in Data, NEW v \in Vacancies, NEW u \in Users
  PROVE  Fields(Run(d, HDelApp(v, u)),
                d.vacancy, [d.applicants EXCEPT ![<<v, u>>] = NoApplication], d.userApps, d.active, d.all)
  BY DEF Run, HDelApp, Fields, Data

LEMMA SAddEffect ==
  ASSUME NEW d \in Data, NEW v \in Vacancies, NEW u \in Users
  PROVE  Fields(Run(d, SAddApps(v, u)),
                d.vacancy, d.applicants, [d.userApps EXCEPT ![u] = @ \cup {v}], d.active, d.all)
  BY DEF Run, SAddApps, Fields, Data

LEMMA SRemEffect ==
  ASSUME NEW d \in Data, NEW v \in Vacancies, NEW u \in Users
  PROVE  Fields(Run(d, SRemApps(v, u)),
                d.vacancy, d.applicants, [d.userApps EXCEPT ![u] = @ \ {v}], d.active, d.all)
  BY DEF Run, SRemApps, Fields, Data

LEMMA DelEffect ==
  ASSUME NEW d \in Data, NEW u \in Users
  PROVE  Fields(Run(d, DelApps(u)),
                d.vacancy, d.applicants, [d.userApps EXCEPT ![u] = {}], d.active, d.all)
  BY DEF Run, DelApps, Fields, Data

LEMMA ActiveEffect ==
  ASSUME NEW d \in Data, NEW v \in Vacancies
  PROVE  Fields(Run(d, SAddActive(v)),
                d.vacancy, d.applicants, d.userApps, d.active \cup {v}, d.all)
  BY DEF Run, SAddActive, Fields, Data

LEMMA InactiveEffect ==
  ASSUME NEW d \in Data, NEW v \in Vacancies
  PROVE  Fields(Run(d, SRemActive(v)),
                d.vacancy, d.applicants, d.userApps, d.active \ {v}, d.all)
  BY DEF Run, SRemActive, Fields, Data

LEMMA ListEffect ==
  ASSUME NEW d \in Data, NEW v \in Vacancies
  PROVE  Fields(Run(d, ZAddAll(v)),
                d.vacancy, d.applicants, d.userApps, d.active, d.all \cup {v})
  BY DEF Run, ZAddAll, Fields, Data

(* The workers S turned away from v, with the records read as source.      *)
TurnedApps(apps, source, v, S) ==
  [a \in Pairs |-> IF a[1] = v /\ a[2] \in S THEN WithStatus(source[a], "rejected") ELSE apps[a]]
TurnedJobs(jobs, v, S) == [w \in Users |-> IF w \in S THEN jobs[w] \ {v} ELSE jobs[w]]

LEMMA TurnedOneApp ==
  ASSUME NEW apps, NEW source, NEW v \in Vacancies, NEW S \in SUBSET Users, NEW w \in Users
  PROVE  [TurnedApps(apps, source, v, S) EXCEPT ![<<v, w>>] = WithStatus(source[<<v, w>>], "rejected")]
           = TurnedApps(apps, source, v, S \cup {w})
<1> DEFINE f == TurnedApps(apps, source, v, S)
           g == TurnedApps(apps, source, v, S \cup {w})
<1>1. \A a \in Pairs : a = <<v, w>> <=> a[1] = v /\ a[2] = w
  BY DEF Pairs
<1>2. /\ f = [a \in Pairs |-> f[a]] /\ g = [a \in Pairs |-> g[a]]
      /\ \A a \in Pairs : f[a] = IF a[1] = v /\ a[2] \in S THEN WithStatus(source[a], "rejected")
                                 ELSE apps[a]
      /\ \A a \in Pairs : g[a] = IF a[1] = v /\ a[2] \in S \cup {w}
                                 THEN WithStatus(source[a], "rejected") ELSE apps[a]
  BY DEF TurnedApps
<1> HIDE DEF f, g
<1>3. [f EXCEPT ![<<v, w>>] = WithStatus(source[<<v, w>>], "rejected")] = g
  BY <1>1, <1>2
<1> QED
  BY <1>3 DEF f, g

LEMMA TurnedOneJob ==
  ASSUME NEW jobs, NEW v, NEW S \in SUBSET Users, NEW w \in Users
  PROVE  [TurnedJobs(jobs, v, S) EXCEPT ![w] = @ \ {v}] = TurnedJobs(jobs, v, S \cup {w})
  BY DEF TurnedJobs

(* An order of a set passes through all of it.                             *)
LEMMA OrderCovers ==
  ASSUME NEW S, IsFiniteSet(S), NEW order \in SetToSeqs(S)
  PROVE  /\ Len(order) \in Nat /\ \A i \in 1 .. Len(order) : order[i] \in S
         /\ {order[i] : i \in 1 .. Len(order)} = S
<1> DEFINE n == Cardinality(S)
<1>1. n \in Nat
  BY FS_CardinalityType
<1>2. /\ order \in [1 .. n -> S]
      /\ \A i, j \in 1 .. n : i # j => order[i] # order[j]
  BY DEF SetToSeqs
<1>3. order \in Injection(1 .. n, S)
  BY <1>2 DEF Injection, IsInjective
<1>4. Cardinality(1 .. n) = n
  BY <1>1, FS_Interval
<1>5. order \in Surjection(1 .. n, S)
  BY <1>3, <1>4, FS_Injection
<1>6. Len(order) = n
  BY <1>1, <1>2
<1> HIDE DEF n
<1>7. {order[i] : i \in 1 .. n} = S
  BY <1>2, <1>5 DEF Surjection
<1> QED
  BY <1>1, <1>2, <1>6, <1>7

LEMMA TurnedAwayRun ==
  ASSUME TypeInv, NEW d \in Data, NEW v \in Vacancies, NEW S \in SUBSET Users,
         NEW order \in SetToSeqs(S)
  PROVE  Fields(RunAll(d, TurnedAway(v, order)), d.vacancy,
                TurnedApps(d.applicants, db.applicants, v, S), TurnedJobs(d.userApps, v, S),
                d.active, d.all)
<1> DEFINE n == Len(order)
           s == TurnedAway(v, order)
           apps == db.applicants
           Out(k) == {order[i] : i \in 1 .. k}
           As(T) == TurnedApps(d.applicants, apps, v, T)
           Js(T) == TurnedJobs(d.userApps, v, T)
           P(k) == Fields(Ran(d, s, 2 * k), d.vacancy, As(Out(k)), Js(Out(k)), d.active, d.all)
           B == {k \in 0 .. n : ~P(k)}
<1>1. n \in Nat /\ (\A i \in 1 .. n : order[i] \in Users) /\ Out(n) = S
  BY OrderCovers, UsersAssumption, FS_Subset
<1>2. s \in Seq(Command) /\ Len(s) = 2 * n
  BY <1>1, TurnedAwayTypes DEF TurnedAway
<1>3. ASSUME NEW k \in 1 .. n
      PROVE  /\ s[2 * k - 1] = HSetApp(v, order[k], WithStatus(apps[<<v, order[k]>>], "rejected"))
             /\ s[2 * k] = SRemApps(v, order[k])
  <2>1. /\ 2 * k - 1 \in 1 .. 2 * n /\ 2 * k \in 1 .. 2 * n
        /\ ((2 * k - 1) + 1) \div 2 = k /\ (2 * k - 1) % 2 = 1
        /\ (2 * k + 1) \div 2 = k /\ (2 * k) % 2 # 1
    BY <1>1
  <2> QED
    BY <2>1 DEF TurnedAway
<1>a. apps \in [Pairs -> Application]
  BY DEF TypeInv, Data
<1> HIDE DEF s, apps, n
<1>4. P(0)
  <2>1. Out(0) = {} /\ 2 * 0 = 0
    OBVIOUS
  <2>2. As({}) = d.applicants /\ Js({}) = d.userApps
    BY DEF TurnedApps, TurnedJobs, Data
  <2> QED
    BY <2>1, <2>2, RanFirst DEF Fields
<1>5. ASSUME NEW k \in 1 .. n, P(k - 1) PROVE P(k)
  <2>1. /\ 2 * (k - 1) \in Nat /\ 2 * k - 1 \in Nat
        /\ 2 * (k - 1) + 1 = 2 * k - 1 /\ (2 * k - 1) + 1 = 2 * k
        /\ 2 * (k - 1) \in 0 .. Len(s) /\ 2 * k - 1 \in 0 .. Len(s)
    BY <1>1, <1>2
  <2> DEFINE w == order[k]
             T == Out(k - 1)
             e == Ran(d, s, 2 * (k - 1))
             f == Ran(d, s, 2 * k - 1)
             app == WithStatus(apps[<<v, w>>], "rejected")
  <2>2. T \in SUBSET Users /\ w \in Users /\ T \cup {w} = Out(k)
    BY <1>1, <2>1
  <2>3. e \in Data /\ f \in Data
    BY <1>2, <2>1, RanTypes
  <2>4. Fields(e, d.vacancy, As(T), Js(T), d.active, d.all)
    BY <1>5
  <2>5. f = Run(e, HSetApp(v, w, app))
    <3>1. Ran(d, s, 2 * (k - 1) + 1) = Run(Ran(d, s, 2 * (k - 1)), s[2 * (k - 1) + 1])
      BY <2>1, RanNext
    <3> QED
      BY <1>3, <2>1, <3>1
  <2>6. Ran(d, s, 2 * k) = Run(f, SRemApps(v, w))
    <3>1. Ran(d, s, (2 * k - 1) + 1) = Run(Ran(d, s, 2 * k - 1), s[(2 * k - 1) + 1])
      BY <2>1, RanNext
    <3> QED
      BY <1>3, <2>1, <3>1
  <2>7. app \in Application
    BY <1>a, <2>2 DEF WithStatus, Application, Pairs
  <2> HIDE DEF T, w, e, f
  <2>8. /\ [As(T) EXCEPT ![<<v, w>>] = app] = As(T \cup {w})
        /\ [Js(T) EXCEPT ![w] = @ \ {v}] = Js(T \cup {w})
    <3>1. [As(T) EXCEPT ![<<v, w>>] = app] = As(T \cup {w})
      BY <2>2, TurnedOneApp
    <3>2. [Js(T) EXCEPT ![w] = @ \ {v}] = Js(T \cup {w})
      BY <2>2, TurnedOneJob
    <3> QED
      BY <3>1, <3>2
  <2> HIDE DEF As, Js, app
  <2>9. Fields(f, d.vacancy, [As(T) EXCEPT ![<<v, w>>] = app], Js(T), d.active, d.all)
    BY <2>2, <2>3, <2>4, <2>5, <2>7, HSetEffect DEF Fields
  <2>10. Fields(Run(f, SRemApps(v, w)), d.vacancy, As(T \cup {w}), Js(T \cup {w}), d.active, d.all)
    BY <2>2, <2>3, <2>8, <2>9, SRemEffect DEF Fields
  <2> QED
    BY <2>2, <2>6, <2>10
<1>6. B = {}
  <2> SUFFICES ASSUME B # {} PROVE FALSE
    OBVIOUS
  <2> HIDE DEF P
  <2>1. B \in SUBSET Nat
    BY <1>1
  <2> HIDE DEF B
  <2>2. PICK k \in B : \A j \in B : k <= j
    BY <2>1, LeastNat
  <2> USE DEF B
  <2>3. k # 0
    BY <1>4, <2>2
  <2>4. k \in 1 .. n /\ k - 1 \in 0 .. n /\ ~(k <= k - 1)
    BY <1>1, <2>2, <2>3
  <2>5. P(k - 1)
    BY <2>2, <2>4
  <2> QED
    BY <1>5, <2>2, <2>4, <2>5
<1>7. P(n)
  <2> HIDE DEF P
  <2> QED
    BY <1>1, <1>6
<1> QED
  BY <1>1, <1>2, <1>7, RunAllRan DEF s, apps, n

-----------------------------------------------------------------------------
(* Requests one at a time.  What the board of VacancyBoard shows, from the *)
(* data d once the pipeline of the request r has run.                      *)
Vacs(d, r) ==
  [v \in Vacancies |-> IF v \in ToClose(r) THEN AfterClose(d.vacancy[v]) ELSE d.vacancy[v]]
Jobs(d, r) ==
  [u \in Users |-> IF u = r.u THEN d.userApps[u] \cup ToRefill(d, r) ELSE d.userApps[u]]
Actives(d, r) == d.active \ ToClose(r)
LocksOf(l, r) == IF r.op = "apply" /\ r.at = "getvac" THEN l \ {<<r.v, r.u>>} ELSE l

(* The steps of each operation. *)
Course(r) ==
  /\ r.op = "none" => r.at = "idle"
  /\ r.op \in {"create", "delete"} => r.at = "pipe"
  /\ r.op = "apply" => r.at \in {"hexists", "scard", "setnx", "getvac", "pipe"}
  /\ r.op = "accept" => r.at \in {"hget", "getvac", "hgetall", "pipe"}
  /\ r.op = "reject" => r.at \in {"hget", "pipe"}
  /\ r.op = "cancel" => r.at \in {"hget", "getvac", "pipe", "smembers", "zrange", "scan", "sadd"}
  /\ r.op = "myjobs" => r.at \in {"smembers", "zrange", "scan", "sadd"}
  /\ r.op = "close" => r.at \in {"close", "pipe"}
  /\ r.op = "expire" => r.at \in {"list", "now", "next", "close", "pipe"}
  /\ r.at # "pipe" => r.pipe = <<>>

(* Every application is to a vacancy, and every vacancy is in the list.    *)
Filed(d) ==
  /\ \A v \in Vacancies, u \in Users :
       d.applicants[<<v, u>>] # NoApplication => ~Missing(d.vacancy[v])
  /\ \A v \in Vacancies : ~Missing(d.vacancy[v]) => v \in d.all

Open(d, v, u) ==
  IF StalePages THEN d.applicants[<<v, u>>] # NoApplication
  ELSE d.applicants[<<v, u>>].status = "pending"

(* What the reads of a request so far have shown is still so.              *)
ReadByApply(d, l, r) ==
  /\ ~Missing(d.vacancy[r.v]) /\ r.n \in 1 .. d.vacancy[r.v].needed
  /\ r.at \in {"scard", "setnx", "getvac"} => d.applicants[<<r.v, r.u>>] = NoApplication
  /\ r.at \in {"setnx", "getvac"} => Cardinality(d.userApps[r.u]) < MaxActive
  /\ r.at = "getvac" => <<r.v, r.u>> \in l /\ ~r.fresh

ReadByDecision(d, r) ==
  /\ r.at \in {"hget", "getvac", "hgetall"} => Open(d, r.v, r.u)
  /\ r.at \in {"getvac", "hgetall"} => /\ r.app = d.applicants[<<r.v, r.u>>]
                                       /\ r.app.status \notin {"none", "accepted"}
  /\ r.at = "hgetall" => /\ r.vac = AfterAccept(d.vacancy[r.v], r.app) /\ r.vac.status = "filled"
                         /\ ~Full(d.vacancy[r.v])

ReadByJobs(d, r) ==
  /\ r.at = "getvac" => r.app = d.applicants[<<r.v, r.u>>] /\ r.app # NoApplication
  /\ r.at = "zrange" => d.userApps[r.u] = {}

ReadByExpirer(d, r) ==
  /\ r.at \in {"list", "now"} =>
       r.todo \subseteq d.all /\ r.due = {v \in d.all \ r.todo : d.vacancy[v].status = "active"}
  /\ r.at = "now" => r.todo = {}

Reading(d, l, r) ==
  /\ r.op = "apply" /\ r.at # "pipe" => ReadByApply(d, l, r)
  /\ r.op \in {"accept", "reject"} => ReadByDecision(d, r)
  /\ r.op \in {"cancel", "myjobs"} => ReadByJobs(d, r)
  /\ r.op = "close" /\ r.at = "close" => ~Missing(d.vacancy[r.v])
  /\ r.op = "expire" => ReadByExpirer(d, r)

After == RunAll(db, req[Only].pipe)
SerialInv == Course(req[Only]) /\ Filed(After) /\ Reading(After, locks, req[Only])

Alone == Procs = {Only} /\ ~Failures

-----------------------------------------------------------------------------
(* VacancyBoard has its own copies of the records.                         *)
LEMMA SameRecords ==
  /\ Board!NoApplication = NoApplication /\ Board!NoVacancy = NoVacancy /\ Board!Pairs = Pairs
  /\ \A n : Board!NewVacancy(n) = NewVacancy(n) /\ Board!NewApplication(n) = NewApplication(n)
  /\ \A vac : Board!Missing(vac) <=> Missing(vac)
  /\ \A vac, n : Board!Granted(vac, n) = Granted(vac, n)
  /\ \A vac, app : /\ Board!AfterAccept(vac, app) = AfterAccept(vac, app)
                   /\ Board!AfterCancel(vac, app) = AfterCancel(vac, app)
  /\ \A vac : Board!AfterClose(vac) = AfterClose(vac)
  /\ \A app, s : Board!WithStatus(app, s) = WithStatus(app, s)
  BY DEF Board!NoApplication, NoApplication, Board!NoVacancy, NoVacancy, Board!Pairs, Pairs,
         Board!NewVacancy, NewVacancy, Board!NewApplication, NewApplication,
         Board!Missing, Missing, Board!Granted, Granted, Board!AfterAccept, AfterAccept,
         Board!AfterCancel, AfterCancel, Board!AfterClose, AfterClose, Board!WithStatus, WithStatus

LEMMA ShownNow ==
  ASSUME Alone, TypeInv
  PROVE  /\ After \in Data /\ req[Only] \in Request /\ Fits(req[Only]) /\ Only \in Procs
         /\ Settled.vacancy = Vacs(After, req[Only])
         /\ Settled.applicants = After.applicants
         /\ Settled.userApps = Jobs(After, req[Only])
         /\ Settled.active = Actives(After, req[Only])
         /\ SettledLocks = LocksOf(locks, req[Only])
<1>1. Only \in Procs /\ req[Only] \in Request /\ Fits(req[Only]) /\ req[Only].pipe \in Seq(Command)
  BY DEF Alone, TypeInv, Request
<1>2. After \in Data
  BY <1>1, RunAllTypes DEF TypeInv, After
<1> DEFINE r == req[Only]
           d == After
<1>3. Settled = [d EXCEPT
        !.vacancy = [v \in Vacancies |-> IF v \in ToClose(r) THEN AfterClose(@[v]) ELSE @[v]],
        !.active = @ \ ToClose(r),
        !.userApps = [u \in Users |-> IF u = r.u THEN @[u] \cup ToRefill(d, r) ELSE @[u]]]
  BY DEF Settled, After
<1>4. SettledLocks = LocksOf(locks, r)
  BY DEF SettledLocks, LocksOf
<1> HIDE DEF r, d
<1>5. /\ Settled.vacancy = Vacs(d, r) /\ Settled.applicants = d.applicants
      /\ Settled.userApps = Jobs(d, r) /\ Settled.active = Actives(d, r)
  <2>1. d \in Data
    BY <1>2 DEF d
  <2> QED
    BY <1>3, <2>1 DEF Vacs, Jobs, Actives, Data
<1> QED
  BY <1>1, <1>2, <1>4, <1>5 DEF r, d

LEMMA ShownNext ==
  ASSUME Alone, TypeInv'
  PROVE  /\ After' \in Data /\ req'[Only] \in Request /\ Fits(req'[Only])
         /\ Settled.vacancy' = Vacs(After', req'[Only])
         /\ Settled.applicants' = After'.applicants
         /\ Settled.userApps' = Jobs(After', req'[Only])
         /\ Settled.active' = Actives(After', req'[Only])
         /\ SettledLocks' = LocksOf(locks', req'[Only])
<1>1. req'[Only] \in Request /\ Fits(req'[Only]) /\ req'[Only].pipe \in Seq(Command)
  BY DEF Alone, TypeInv, Request
<1>2. After' \in Data
  BY <1>1, RunAllTypes DEF TypeInv, After
<1> DEFINE r == req'[Only]
           d == After'
<1>3. Settled' = [d EXCEPT
        !.vacancy = [v \in Vacancies |-> IF v \in ToClose(r) THEN AfterClose(@[v]) ELSE @[v]],
        !.active = @ \ ToClose(r),
        !.userApps = [u \in Users |-> IF u = r.u THEN @[u] \cup ToRefill(d, r) ELSE @[u]]]
  BY DEF Settled, After
<1>4. SettledLocks' = LocksOf(locks', r)
  BY DEF SettledLocks, LocksOf
<1> HIDE DEF r, d
<1>5. /\ Settled'.vacancy = Vacs(d, r) /\ Settled'.applicants = d.applicants
      /\ Settled'.userApps = Jobs(d, r) /\ Settled'.active = Actives(d, r)
  <2>1. d \in Data
    BY <1>2 DEF d
  <2> QED
    BY <1>3, <2>1 DEF Vacs, Jobs, Actives, Data
<1> QED
  BY <1>1, <1>2, <1>4, <1>5 DEF r, d

(* A request with nothing to close and nothing to refill hides nothing.    *)
LEMMA PlainView ==
  ASSUME NEW d \in Data, NEW r, ToClose(r) = {}, ToRefill(d, r) = {}
  PROVE  Vacs(d, r) = d.vacancy /\ Jobs(d, r) = d.userApps /\ Actives(d, r) = d.active
  BY DEF Vacs, Jobs, Actives, Data

Bare(r) ==
  \/ r.op \notin {"cancel", "myjobs", "expire"}
  \/ r.op \in {"cancel", "myjobs"} /\ r.at \in {"hget", "getvac"}
  \/ r.op = "expire" /\ r.at \in {"list", "now"}

LEMMA Plain ==
  ASSUME NEW d \in Data, NEW r, Bare(r)
  PROVE  Vacs(d, r) = d.vacancy /\ Jobs(d, r) = d.userApps /\ Actives(d, r) = d.active
<1>1. ToClose(r) = {}
  BY DEF ToClose, Bare
<1>2. ToRefill(d, r) = {}
  BY DEF ToRefill, Bare
<1> QED
  BY <1>1, <1>2, PlainView

LEMMA IdleSerial ==
  /\ Course(Idle) /\ Bare(Idle) /\ Idle.pipe = <<>>
  /\ \A d, l : Reading(d, l, Idle) /\ LocksOf(l, Idle) = l
  BY DEF Course, Bare, Idle, Reading, LocksOf

LEMMA IdleIsNone ==
  ASSUME Alone, TypeInv, SerialInv, ~Busy(Only)
  PROVE  req[Only].op = "none" /\ req[Only].pipe = <<>> /\ Bare(req[Only])
<1>1. req[Only].op \in Ops \cup {"none"}
  BY DEF Alone, TypeInv, Request
<1>2. req[Only].op = "none"
  BY <1>1, OpsAssumption DEF Course, SerialInv, Busy
<1> QED
  BY <1>2 DEF SerialInv, Course, Busy, Bare

(* A request that has handed over nothing stands before the data itself.   *)
LEMMA AfterReads ==
  ASSUME req[Only].pipe = <<>>
  PROVE  After = db
  BY RunAllEmpty DEF After

-----------------------------------------------------------------------------
(* A step to the request q, after which the data will be e.                *)
LEMMA StepTo ==
  ASSUME Alone, TypeInv, TypeInv', NEW q, req' = [req EXCEPT ![Only] = q],
         NEW e, e = RunAll(db', q.pipe), Course(q), Filed(e), Reading(e, locks', q)
  PROVE  /\ SerialInv' /\ req'[Only] = q /\ e \in Data /\ q \in Request /\ Fits(q)
         /\ Settled.vacancy' = Vacs(e, q)
         /\ Settled.applicants' = e.applicants
         /\ Settled.userApps' = Jobs(e, q)
         /\ Settled.active' = Actives(e, q)
         /\ SettledLocks' = LocksOf(locks', q)
<1>1. req'[Only] = q
  BY DEF Alone, TypeInv
<1>2. After' = e
  BY <1>1 DEF After
<1>3. SerialInv'
  BY <1>1, <1>2 DEF SerialInv
<1> QED
  BY <1>1, <1>2, <1>3, ShownNext

(* Reads change nothing that is shown.                                     *)
LEMMA ReadTo ==
  ASSUME Alone, TypeInv, TypeInv', SerialInv, Read, NEW q, req' = [req EXCEPT ![Only] = q],
         req[Only].pipe = <<>>, q.pipe = <<>>, Course(q), Reading(db, locks, q),
         \/ Bare(req[Only]) /\ Bare(q)
         \/ /\ Vacs(db, q) = Vacs(db, req[Only]) /\ Jobs(db, q) = Jobs(db, req[Only])
            /\ Actives(db, q) = Actives(db, req[Only]),
         LocksOf(locks, q) = LocksOf(locks, req[Only])
  PROVE  SerialInv' /\ UNCHANGED Board!vars
<1>1. db' = db /\ locks' = locks /\ started' = started
  BY DEF Read
<1>2. After = db
  BY AfterReads
<1>3. db = RunAll(db', q.pipe)
  BY <1>1, RunAllEmpty
<1>4. Filed(db)
  BY <1>2 DEF SerialInv
<1>5. Vacs(db, q) = Vacs(db, req[Only]) /\ Jobs(db, q) = Jobs(db, req[Only])
      /\ Actives(db, q) = Actives(db, req[Only])
  BY Plain DEF TypeInv
<1>6. /\ SerialInv' /\ Settled.vacancy' = Vacs(db, q) /\ Settled.applicants' = db.applicants
      /\ Settled.userApps' = Jobs(db, q) /\ Settled.active' = Actives(db, q)
      /\ SettledLocks' = LocksOf(locks, q)
  BY <1>1, <1>3, <1>4, StepTo
<1>7. /\ Settled.vacancy = Vacs(db, req[Only]) /\ Settled.applicants = db.applicants
      /\ Settled.userApps = Jobs(db, req[Only]) /\ Settled.active = Actives(db, req[Only])
      /\ SettledLocks = LocksOf(locks, req[Only])
  BY <1>2, ShownNow
<1> QED
  BY <1>1, <1>5, <1>6, <1>7 DEF Board!vars

LEMMA ReadDone ==
  ASSUME Alone, TypeInv, TypeInv', SerialInv, Read, Done(Only), req[Only].pipe = <<>>,
         \/ Bare(req[Only])
         \/ /\ Vacs(db, req[Only]) = db.vacancy /\ Jobs(db, req[Only]) = db.userApps
            /\ Actives(db, req[Only]) = db.active,
         LocksOf(locks, req[Only]) = locks
  PROVE  SerialInv' /\ UNCHANGED Board!vars
<1>1. req' = [req EXCEPT ![Only] = Idle]
  BY DEF Done
<1>2. db \in Data
  BY DEF TypeInv
<1>3. /\ Vacs(db, Idle) = Vacs(db, req[Only]) /\ Jobs(db, Idle) = Jobs(db, req[Only])
      /\ Actives(db, Idle) = Actives(db, req[Only])
  BY <1>2, Plain, IdleSerial
<1> QED
  BY <1>1, <1>3, IdleSerial, ReadTo

-----------------------------------------------------------------------------
(* The reads of each operation.                                            *)
LEMMA Started ==
  ASSUME NEW op, NEW step, NEW v, NEW u, NEW n, Start(Only, op, step, v, u, n)
  PROVE  \E q : /\ req' = [req EXCEPT ![Only] = q]
                /\ q.op = op /\ q.at = step /\ q.v = v /\ q.u = u /\ q.n = n /\ q.pipe = <<>>
<1> DEFINE q == [Idle EXCEPT !.op = op, !.at = step, !.v = v, !.u = u, !.n = n]
<1>1. q.op = op /\ q.at = step /\ q.v = v /\ q.u = u /\ q.n = n /\ q.pipe = <<>>
  BY DEF Idle
<1>2. req' = [req EXCEPT ![Only] = q]
  BY DEF Start
<1> HIDE DEF q
<1> QED
  BY <1>1, <1>2

LEMMA BeginReads ==
  ASSUME Alone, TypeInv, TypeInv', SerialInv, NEW v \in Vacancies, NEW u,
         ApplyBegin(Only, v, u) \/ DecideBegin(Only, v, u) \/ CancelBegin(Only, v, u)
           \/ CloseBegin(Only, v)
  PROVE  SerialInv' /\ UNCHANGED Board!vars
<1> DEFINE r == req[Only]
<1>1. ~Busy(Only) /\ Read
  BY DEF ApplyBegin, DecideBegin, CancelBegin, CloseBegin, Free
<1>2. r.op = "none" /\ r.pipe = <<>> /\ Bare(r)
  BY <1>1, IdleIsNone
<1>3. LocksOf(locks, r) = locks
  BY <1>2 DEF LocksOf
<1>4. CASE ApplyBegin(Only, v, u)
  <2>1. PICK n \in 1 .. db.vacancy[v].needed : Start(Only, "apply", "hexists", v, u, n)
    BY <1>4 DEF ApplyBegin
  <2>2. PICK q : /\ req' = [req EXCEPT ![Only] = q] /\ q.op = "apply" /\ q.at = "hexists"
                 /\ q.v = v /\ q.u = u /\ q.n = n /\ q.pipe = <<>>
    BY <2>1, Started
  <2>3. Course(q) /\ Bare(q) /\ LocksOf(locks, q) = locks
    BY <2>2 DEF Course, Bare, LocksOf
  <2>4. Reading(db, locks, q)
    BY <1>4, <2>2 DEF Reading, ReadByApply, ApplyBegin, Exists
  <2> QED
    BY <1>1, <1>2, <1>3, <2>2, <2>3, <2>4, ReadTo
<1>5. CASE DecideBegin(Only, v, u)
  <2>1. PICK op \in {"accept", "reject"} : Start(Only, op, "hget", v, u, 0)
    BY <1>5 DEF DecideBegin
  <2>2. PICK q : /\ req' = [req EXCEPT ![Only] = q] /\ q.op = op /\ q.at = "hget"
                 /\ q.v = v /\ q.u = u /\ q.n = 0 /\ q.pipe = <<>>
    BY <2>1, Started
  <2>3. Course(q) /\ Bare(q) /\ LocksOf(locks, q) = locks
    BY <2>2 DEF Course, Bare, LocksOf
  <2>4. Reading(db, locks, q)
    BY <1>5, <2>2 DEF Reading, ReadByDecision, DecideBegin, Offered, Open
  <2> QED
    BY <1>1, <1>2, <1>3, <2>2, <2>3, <2>4, ReadTo
<1>6. CASE CancelBegin(Only, v, u)
  <2>1. PICK q : /\ req' = [req EXCEPT ![Only] = q] /\ q.op = "cancel" /\ q.at = "hget"
                 /\ q.v = v /\ q.u = u /\ q.n = 0 /\ q.pipe = <<>>
    BY <1>6, Started DEF CancelBegin
  <2>2. Course(q) /\ Bare(q) /\ LocksOf(locks, q) = locks
    BY <2>1 DEF Course, Bare, LocksOf
  <2>3. Reading(db, locks, q)
    BY <2>1 DEF Reading, ReadByJobs
  <2> QED
    BY <1>1, <1>2, <1>3, <2>1, <2>2, <2>3, ReadTo
<1>7. CASE CloseBegin(Only, v)
  <2>1. PICK q : /\ req' = [req EXCEPT ![Only] = q] /\ q.op = "close" /\ q.at = "close"
                 /\ q.v = v /\ q.u = Nothing /\ q.n = 0 /\ q.pipe = <<>>
    BY <1>7, Started DEF CloseBegin
  <2>2. Course(q) /\ Bare(q) /\ LocksOf(locks, q) = locks
    BY <2>1 DEF Course, Bare, LocksOf
  <2>3. Reading(db, locks, q)
    BY <1>7, <2>1 DEF Reading, CloseBegin, Exists
  <2> QED
    BY <1>1, <1>2, <1>3, <2>1, <2>2, <2>3, ReadTo
<1> QED
  BY <1>4, <1>5, <1>6, <1>7

LEMMA ApplyReads ==
  ASSUME Alone, TypeInv, TypeInv', SerialInv, ApplyHExists(Only) \/ ApplySCard(Only)
  PROVE  SerialInv' /\ UNCHANGED Board!vars
<1> DEFINE r == req[Only]
<1>1. /\ r.op = "apply" /\ r.at \in {"hexists", "scard"} /\ r.pipe = <<>> /\ Bare(r)
      /\ LocksOf(locks, r) = locks /\ Read /\ r \in Request /\ Only \in Procs
  BY DEF ApplyHExists, ApplySCard, SerialInv, Course, Bare, LocksOf, Alone, TypeInv
<1>2. ReadByApply(db, locks, r)
  BY <1>1, AfterReads DEF SerialInv, Reading
<1>3. CASE Done(Only)
  BY <1>1, <1>3, ReadDone
<1>4. CASE ApplyHExists(Only) /\ ~Applied(Only)
  <2> DEFINE held == /\ <<r.v, r.u>> \in locks /\ ~ \E x \in Procs : PastLock(x, r.v, r.u)
             q == [r EXCEPT !.at = "scard", !.fresh = held]
  <2>1. req' = [req EXCEPT ![Only] = q]
    BY <1>1, <1>4 DEF ApplyHExists, TypeInv
  <2>2. /\ q.op = r.op /\ q.at = "scard" /\ q.v = r.v /\ q.u = r.u /\ q.n = r.n /\ q.pipe = r.pipe
    BY <1>1 DEF Request
  <2> HIDE DEF q
  <2>3. Course(q) /\ Bare(q) /\ LocksOf(locks, q) = locks
    BY <1>1, <2>2 DEF Course, Bare, LocksOf
  <2>4. Reading(db, locks, q)
    BY <1>1, <1>2, <1>4, <2>2 DEF Reading, ReadByApply, Applied, AppOf
  <2> QED
    BY <1>1, <2>1, <2>2, <2>3, <2>4, ReadTo
<1>5. CASE ApplySCard(Only) /\ ~(Cardinality(db.userApps[r.u]) >= MaxActive)
  <2> DEFINE q == [r EXCEPT !.at = "setnx"]
  <2>1. req' = [req EXCEPT ![Only] = q]
    BY <1>1, <1>5 DEF ApplySCard, Goto, TypeInv
  <2>2. /\ q.op = r.op /\ q.at = "setnx" /\ q.v = r.v /\ q.u = r.u /\ q.n = r.n /\ q.pipe = r.pipe
    BY <1>1 DEF Request
  <2> HIDE DEF q
  <2>3. Course(q) /\ Bare(q) /\ LocksOf(locks, q) = locks
    BY <1>1, <2>2 DEF Course, Bare, LocksOf
  <2>4. Cardinality(db.userApps[r.u]) \in Nat
    <3>1. db.userApps[r.u] \in SUBSET Vacancies
      BY <1>1, KeptTypes DEF TypeInv, Data, Fits
    <3> QED
      BY <3>1, FiniteAssumption, FS_Subset, FS_CardinalityType
  <2>5. Cardinality(db.userApps[r.u]) < MaxActive
    BY <1>5, <2>4, MaxAssumption
  <2>6. Reading(db, locks, q)
    BY <1>1, <1>2, <1>5, <2>2, <2>5 DEF Reading, ReadByApply, ApplySCard
  <2> QED
    BY <1>1, <2>1, <2>2, <2>3, <2>6, ReadTo
<1> QED
  BY <1>3, <1>4, <1>5 DEF ApplyHExists, ApplySCard

LEMMA DecisionReads ==
  ASSUME Alone, TypeInv, TypeInv', SerialInv,
         \/ AcceptHGet(Only)
         \/ AcceptGetVac(Only) /\ (Done(Only) \/ req'[Only].at = "hgetall")
         \/ RejectHGet(Only) /\ Done(Only)
  PROVE  SerialInv' /\ UNCHANGED Board!vars
<1> DEFINE r == req[Only]
<1>1. /\ r.op \in {"accept", "reject"} /\ r.at \in {"hget", "getvac"} /\ r.pipe = <<>> /\ Bare(r)
      /\ LocksOf(locks, r) = locks /\ Read /\ r \in Request /\ Only \in Procs
  BY DEF AcceptHGet, AcceptGetVac, RejectHGet, SerialInv, Course, Bare, LocksOf, Alone, TypeInv
<1>2. ReadByDecision(db, r)
  BY <1>1, AfterReads DEF SerialInv, Reading
<1>3. CASE Done(Only)
  BY <1>1, <1>3, ReadDone
<1>4. CASE AcceptHGet(Only) /\ AppOf(Only).status \notin {"none", "accepted"}
  <2> DEFINE q == [r EXCEPT !.at = "getvac", !.app = AppOf(Only)]
  <2>1. req' = [req EXCEPT ![Only] = q]
    BY <1>1, <1>4 DEF AcceptHGet, TypeInv
  <2>2. /\ q.op = r.op /\ q.at = "getvac" /\ q.v = r.v /\ q.u = r.u /\ q.pipe = r.pipe
        /\ q.app = db.applicants[<<r.v, r.u>>]
    BY <1>1 DEF Request, AppOf
  <2> HIDE DEF q
  <2>3. Course(q) /\ Bare(q) /\ LocksOf(locks, q) = locks
    BY <1>1, <1>4, <2>2 DEF Course, Bare, LocksOf, AcceptHGet
  <2>4. Reading(db, locks, q)
    BY <1>1, <1>2, <1>4, <2>2 DEF Reading, ReadByDecision, AppOf, AcceptHGet
  <2> QED
    BY <1>1, <2>1, <2>2, <2>3, <2>4, ReadTo
<1>5. CASE AcceptGetVac(Only) /\ ~Full(VacOf(Only)) /\ AfterAccept(VacOf(Only), r.app).status = "filled"
  <2> DEFINE vac == AfterAccept(VacOf(Only), r.app)
             q == [r EXCEPT !.at = "hgetall", !.vac = vac]
  <2>1. req' = [req EXCEPT ![Only] = q]
    BY <1>1, <1>5 DEF AcceptGetVac, TypeInv
  <2>2. /\ q.op = r.op /\ q.at = "hgetall" /\ q.v = r.v /\ q.u = r.u /\ q.pipe = r.pipe
        /\ q.app = r.app /\ q.vac = vac
    BY <1>1 DEF Request
  <2> HIDE DEF q
  <2>3. Course(q) /\ Bare(q) /\ LocksOf(locks, q) = locks
    BY <1>1, <1>5, <2>2 DEF Course, Bare, LocksOf, AcceptGetVac
  <2>4. Reading(db, locks, q)
    BY <1>1, <1>2, <1>5, <2>2 DEF Reading, ReadByDecision, VacOf, AcceptGetVac
  <2> QED
    BY <1>1, <2>1, <2>2, <2>3, <2>4, ReadTo
<1>6. ASSUME AcceptGetVac(Only), ~Done(Only), req'[Only].at = "hgetall"
      PROVE  ~Full(VacOf(Only)) /\ AfterAccept(VacOf(Only), r.app).status = "filled"
  <2>1. ~Full(VacOf(Only))
    BY <1>6 DEF AcceptGetVac
  <2>2. ASSUME AfterAccept(VacOf(Only), r.app).status # "filled" PROVE FALSE
    <3>1. \E pipe : Send(Only, pipe)
      BY <1>6, <2>1, <2>2 DEF AcceptGetVac
    <3>2. req'[Only].at = "pipe"
      BY <1>1, <3>1 DEF Send, TypeInv, Request
    <3> QED
      BY <1>6, <3>2
  <2> QED
    BY <2>1, <2>2
<1> QED
  BY <1>3, <1>4, <1>5, <1>6 DEF AcceptHGet

-----------------------------------------------------------------------------
(* The list of a user's jobs.  Its first read decides what will be added,  *)
(* the other steps add what was decided.                                   *)
LEMMA SameRefill ==
  ASSUME NEW d, NEW r, NEW q, r.op # "expire", q.op # "expire", q.u = r.u,
         ToRefill(d, q) = ToRefill(d, r)
  PROVE  Vacs(d, q) = Vacs(d, r) /\ Jobs(d, q) = Jobs(d, r) /\ Actives(d, q) = Actives(d, r)
<1>1. ToClose(r) = {} /\ ToClose(q) = {}
  BY DEF ToClose
<1> QED
  BY <1>1 DEF Vacs, Jobs, Actives

LEMMA NoRefill ==
  ASSUME NEW d \in Data, NEW r, r.op # "expire", ToRefill(d, r) = {}
  PROVE  Vacs(d, r) = d.vacancy /\ Jobs(d, r) = d.userApps /\ Actives(d, r) = d.active
<1>1. ToClose(r) = {}
  BY DEF ToClose
<1> QED
  BY <1>1, PlainView

LEMMA ListsJobs ==
  ASSUME Alone, TypeInv, SerialInv, req[Only].at \in {"smembers", "zrange", "scan", "sadd"}
  PROVE  /\ req[Only].op \in {"cancel", "myjobs"} /\ req[Only].u \in Users /\ req[Only].pipe = <<>>
         /\ LocksOf(locks, req[Only]) = locks /\ Only \in Procs /\ req[Only] \in Request
         /\ req[Only].at = "sadd" => req[Only].v \in Vacancies
<1>1. /\ req[Only].op \in Ops \cup {"none"} /\ Only \in Procs /\ req[Only] \in Request
      /\ Fits(req[Only])
  BY DEF Alone, TypeInv, Request
<1>2. req[Only].op \in {"cancel", "myjobs"}
  BY <1>1, OpsAssumption DEF SerialInv, Course
<1> QED
  BY <1>1, <1>2 DEF SerialInv, Course, Fits, LocksOf

LEMMA JobsReads ==
  ASSUME Alone, TypeInv, TypeInv', SerialInv,
         MyJobsSMembers(Only) \/ MyJobsZRange(Only) \/ MyJobsScan(Only)
  PROVE  SerialInv' /\ UNCHANGED Board!vars
<1> DEFINE r == req[Only]
<1>1. /\ r.at \in {"smembers", "zrange", "scan"} /\ Read
      /\ r.op \in {"cancel", "myjobs"} /\ r.u \in Users /\ r.pipe = <<>>
      /\ LocksOf(locks, r) = locks /\ Only \in Procs /\ r \in Request /\ r.op # "expire"
  BY ListsJobs DEF MyJobsSMembers, MyJobsZRange, MyJobsScan
<1>2. ReadByJobs(db, r) /\ db \in Data
  BY <1>1, AfterReads DEF SerialInv, Reading, TypeInv
<1>3. CASE Done(Only) /\ ToRefill(db, r) = {}
  BY <1>1, <1>2, <1>3, NoRefill, ReadDone
<1>4. CASE MyJobsSMembers(Only)
  <2>1. ToRefill(db, r) = IF db.userApps[r.u] = {} THEN WithRecord(db, db.all, r.u) ELSE {}
    BY <1>1, <1>4 DEF ToRefill, MyJobsSMembers
  <2>2. CASE db.userApps[r.u] # {}
    BY <1>3, <1>4, <2>1, <2>2 DEF MyJobsSMembers
  <2>3. CASE db.userApps[r.u] = {}
    <3> DEFINE q == [r EXCEPT !.at = "zrange"]
    <3>1. req' = [req EXCEPT ![Only] = q]
      BY <1>1, <1>4, <2>3 DEF MyJobsSMembers, Goto, TypeInv
    <3>2. q.op = r.op /\ q.at = "zrange" /\ q.u = r.u /\ q.pipe = r.pipe
      BY <1>1 DEF Request
    <3> HIDE DEF q
    <3>3. Course(q) /\ LocksOf(locks, q) = locks /\ Reading(db, locks, q) /\ q.op # "expire"
      BY <1>1, <2>3, <3>2 DEF Course, LocksOf, Reading, ReadByJobs
    <3>4. ToRefill(db, q) = ToRefill(db, r)
      BY <1>1, <2>1, <3>2 DEF ToRefill
    <3> QED
      BY <1>1, <3>1, <3>2, <3>3, <3>4, SameRefill, ReadTo
  <2> QED
    BY <2>2, <2>3
<1>5. CASE MyJobsZRange(Only)
  <2>1. db.userApps[r.u] = {} /\ ToRefill(db, r) = WithRecord(db, db.all, r.u)
    BY <1>1, <1>2, <1>5 DEF ToRefill, MyJobsZRange, ReadByJobs
  <2>2. CASE db.all = {}
    BY <1>3, <1>5, <2>1, <2>2 DEF MyJobsZRange, WithRecord
  <2>3. CASE db.all # {}
    <3> DEFINE q == [r EXCEPT !.at = "scan", !.todo = db.all]
    <3>1. req' = [req EXCEPT ![Only] = q]
      BY <1>1, <1>5, <2>3 DEF MyJobsZRange, TypeInv
    <3>2. q.op = r.op /\ q.at = "scan" /\ q.u = r.u /\ q.pipe = r.pipe /\ q.todo = db.all
      BY <1>1 DEF Request
    <3> HIDE DEF q
    <3>3. Course(q) /\ LocksOf(locks, q) = locks /\ Reading(db, locks, q) /\ q.op # "expire"
      BY <1>1, <3>2 DEF Course, LocksOf, Reading, ReadByJobs
    <3>4. ToRefill(db, q) = ToRefill(db, r)
      BY <1>1, <2>1, <3>2 DEF ToRefill
    <3> QED
      BY <1>1, <3>1, <3>2, <3>3, <3>4, SameRefill, ReadTo
  <2> QED
    BY <2>2, <2>3
<1>6. CASE MyJobsScan(Only)
  <2>1. ToRefill(db, r) = WithRecord(db, r.todo, r.u)
    BY <1>1, <1>6 DEF ToRefill, MyJobsScan
  <2>2. PICK v \in r.todo :
          IF db.applicants[<<v, r.u>>] # NoApplication
          THEN req' = [req EXCEPT ![Only].at = "sadd", ![Only].v = v, ![Only].todo = r.todo \ {v}]
          ELSE IF r.todo \ {v} = {} THEN Done(Only)
               ELSE req' = [req EXCEPT ![Only].todo = r.todo \ {v}]
    BY <1>6 DEF MyJobsScan
  <2>3. CASE db.applicants[<<v, r.u>>] # NoApplication
    <3> DEFINE q == [r EXCEPT !.at = "sadd", !.v = v, !.todo = r.todo \ {v}]
    <3>1. req' = [req EXCEPT ![Only] = q]
      BY <1>1, <2>2, <2>3 DEF TypeInv
    <3>2. /\ q.op = r.op /\ q.at = "sadd" /\ q.u = r.u /\ q.pipe = r.pipe /\ q.v = v
          /\ q.todo = r.todo \ {v}
      BY <1>1 DEF Request
    <3> HIDE DEF q
    <3>3. Course(q) /\ LocksOf(locks, q) = locks /\ Reading(db, locks, q) /\ q.op # "expire"
      BY <1>1, <3>2 DEF Course, LocksOf, Reading, ReadByJobs
    <3>4. ToRefill(db, q) = WithRecord(db, r.todo \ {v}, r.u) \cup {v}
      BY <1>1, <3>2 DEF ToRefill
    <3>5. ToRefill(db, q) = ToRefill(db, r)
      BY <2>1, <2>3, <3>4 DEF WithRecord
    <3> QED
      BY <1>1, <3>1, <3>2, <3>3, <3>5, SameRefill, ReadTo
  <2>4. CASE db.applicants[<<v, r.u>>] = NoApplication
    <3>1. CASE r.todo \ {v} = {}
      BY <1>3, <2>1, <2>2, <2>4, <3>1 DEF WithRecord
    <3>2. CASE r.todo \ {v} # {}
      <4> DEFINE q == [r EXCEPT !.todo = r.todo \ {v}]
      <4>1. req' = [req EXCEPT ![Only] = q]
        BY <1>1, <2>2, <2>4, <3>2 DEF TypeInv
      <4>2. q.op = r.op /\ q.at = r.at /\ q.u = r.u /\ q.pipe = r.pipe /\ q.todo = r.todo \ {v}
        BY <1>1 DEF Request
      <4> HIDE DEF q
      <4>3. Course(q) /\ LocksOf(locks, q) = locks /\ Reading(db, locks, q) /\ q.op # "expire"
        BY <1>1, <1>6, <4>2 DEF Course, LocksOf, Reading, ReadByJobs, MyJobsScan
      <4>4. ToRefill(db, q) = WithRecord(db, r.todo \ {v}, r.u)
        BY <1>1, <1>6, <4>2 DEF ToRefill, MyJobsScan
      <4>5. ToRefill(db, q) = ToRefill(db, r)
        BY <2>1, <2>4, <4>4 DEF WithRecord
      <4> QED
        BY <1>1, <4>1, <4>2, <4>3, <4>5, SameRefill, ReadTo
    <3> QED
      BY <3>1, <3>2
  <2> QED
    BY <2>3, <2>4
<1> QED
  BY <1>4, <1>5, <1>6

LEMMA JobsAdds ==
  ASSUME Alone, TypeInv, TypeInv', SerialInv, MyJobsSAdd(Only)
  PROVE  SerialInv' /\ UNCHANGED Board!vars
<1> DEFINE r == req[Only]
           e == Run(db, SAddApps(r.v, r.u))
<1>1. /\ r.at = "sadd" /\ r.op \in {"cancel", "myjobs"} /\ r.u \in Users /\ r.v \in Vacancies
      /\ r.pipe = <<>> /\ LocksOf(locks, r) = locks /\ Only \in Procs /\ r \in Request
      /\ r.op # "expire"
  BY ListsJobs DEF MyJobsSAdd
<1>2. db' = e /\ locks' = locks /\ started' = started /\ db \in Data /\ After = db
  BY <1>1, AfterReads DEF MyJobsSAdd, TypeInv
<1>3. Fields(e, db.vacancy, db.applicants, [db.userApps EXCEPT ![r.u] = @ \cup {r.v}],
             db.active, db.all) /\ e \in Data
  BY <1>1, <1>2, SAddEffect DEF TypeInv
<1>4. Filed(e)
  BY <1>2, <1>3 DEF SerialInv, Filed, Fields
<1>5. /\ Settled.vacancy = Vacs(db, r) /\ Settled.applicants = db.applicants
      /\ Settled.userApps = Jobs(db, r) /\ Settled.active = Actives(db, r)
      /\ SettledLocks = locks
  BY <1>1, <1>2, ShownNow
<1>6. /\ ToRefill(db, r) = WithRecord(db, r.todo, r.u) \cup {r.v} /\ ToClose(r) = {}
  BY <1>1 DEF ToRefill, ToClose
<1>7. /\ Vacs(db, r) = db.vacancy /\ Actives(db, r) = db.active
  BY <1>2, <1>6 DEF Vacs, Actives, Data
<1>8. Jobs(db, r) = [u \in Users |-> IF u = r.u
                       THEN db.userApps[u] \cup {r.v} \cup WithRecord(db, r.todo, r.u)
                       ELSE db.userApps[u]]
  BY <1>6 DEF Jobs
<1> HIDE DEF e
<1>9. CASE r.todo = {}
  <2>1. req' = [req EXCEPT ![Only] = Idle]
    BY <1>9 DEF MyJobsSAdd, Done
  <2>2. e = RunAll(db', Idle.pipe)
    BY <1>2, IdleSerial, RunAllEmpty
  <2>3. /\ SerialInv' /\ Settled.vacancy' = Vacs(e, Idle) /\ Settled.applicants' = e.applicants
        /\ Settled.userApps' = Jobs(e, Idle) /\ Settled.active' = Actives(e, Idle)
        /\ SettledLocks' = locks
    <3>1. Course(Idle) /\ Reading(e, locks', Idle) /\ LocksOf(locks', Idle) = locks'
      BY IdleSerial
    <3> QED
      BY <1>2, <1>4, <2>1, <2>2, <3>1, StepTo
  <2>4. Vacs(e, Idle) = e.vacancy /\ Jobs(e, Idle) = e.userApps /\ Actives(e, Idle) = e.active
    BY <1>3, IdleSerial, Plain
  <2>5. Jobs(db, r) = e.userApps
    <3>1. WithRecord(db, r.todo, r.u) = {}
      BY <1>9 DEF WithRecord
    <3>2. Jobs(db, r) = [u \in Users |-> IF u = r.u THEN db.userApps[u] \cup {r.v}
                                        ELSE db.userApps[u]]
      BY <1>8, <3>1
    <3>3. db.userApps \in [Users -> SUBSET Vacancies]
      BY <1>2 DEF Data
    <3>4. e.userApps = [db.userApps EXCEPT ![r.u] = @ \cup {r.v}]
      BY <1>3 DEF Fields
    <3> QED
      BY <3>2, <3>3, <3>4
  <2> QED
    BY <1>2, <1>3, <1>5, <1>7, <2>3, <2>4, <2>5 DEF Board!vars, Fields
<1>10. CASE r.todo # {}
  <2> DEFINE q == [r EXCEPT !.at = "scan", !.v = Nothing]
  <2>1. req' = [req EXCEPT ![Only] = q]
    BY <1>1, <1>10 DEF MyJobsSAdd, TypeInv
  <2>2. q.op = r.op /\ q.at = "scan" /\ q.u = r.u /\ q.pipe = r.pipe /\ q.todo = r.todo
    BY <1>1 DEF Request
  <2> HIDE DEF q
  <2>3. Course(q) /\ LocksOf(locks, q) = locks /\ Reading(e, locks, q)
    BY <1>1, <2>2 DEF Course, LocksOf, Reading, ReadByJobs
  <2>4. e = RunAll(db', q.pipe)
    BY <1>1, <1>2, <2>2, RunAllEmpty
  <2>5. /\ SerialInv' /\ Settled.vacancy' = Vacs(e, q) /\ Settled.applicants' = e.applicants
        /\ Settled.userApps' = Jobs(e, q) /\ Settled.active' = Actives(e, q)
        /\ SettledLocks' = locks
    BY <1>2, <1>4, <2>1, <2>3, <2>4, StepTo
  <2>6. ToRefill(e, q) = WithRecord(e, r.todo, r.u) /\ ToClose(q) = {}
    BY <1>1, <2>2 DEF ToRefill, ToClose
  <2>7. ToRefill(e, q) = WithRecord(db, r.todo, r.u)
    BY <1>3, <2>6 DEF WithRecord, Fields
  <2>8. Vacs(e, q) = db.vacancy /\ Actives(e, q) = db.active
    BY <1>2, <1>3, <2>6 DEF Vacs, Actives, Data, Fields
  <2>9. Jobs(e, q) = Jobs(db, r)
    BY <1>1, <1>2, <1>3, <1>8, <2>2, <2>7 DEF Jobs, Fields, Data
  <2> QED
    BY <1>2, <1>3, <1>5, <1>7, <2>5, <2>8, <2>9 DEF Board!vars, Fields
<1> QED
  BY <1>9, <1>10

-----------------------------------------------------------------------------
(* The expirer reads.                                                      *)
LEMMA ExpireCourse ==
  ASSUME Alone, TypeInv, SerialInv, req[Only].at \in {"list", "now", "next"}
  PROVE  /\ req[Only].op = "expire" /\ req[Only].pipe = <<>> /\ req[Only] \in Request
         /\ Only \in Procs /\ LocksOf(locks, req[Only]) = locks /\ ReadByExpirer(db, req[Only])
<1>1. req[Only].op \in Ops \cup {"none"} /\ Only \in Procs /\ req[Only] \in Request
  BY DEF Alone, TypeInv, Request
<1>2. req[Only].op = "expire"
  BY <1>1, OpsAssumption DEF SerialInv, Course
<1> QED
  BY <1>1, <1>2, AfterReads DEF SerialInv, Course, LocksOf, Reading

LEMMA ExpireReads ==
  ASSUME Alone, TypeInv, TypeInv', SerialInv,
         ExpireBegin(Only) \/ ExpireGet(Only) \/ (ExpireNow(Only) /\ Done(Only)) \/ ExpireNext(Only)
  PROVE  SerialInv' /\ UNCHANGED Board!vars
<1> DEFINE r == req[Only]
<1>1. CASE ExpireBegin(Only)
  <2> DEFINE q == [Idle EXCEPT !.op = "expire", !.at = "list", !.todo = db.all]
  <2>1. ~Busy(Only) /\ Read /\ req' = [req EXCEPT ![Only] = q]
    BY <1>1 DEF ExpireBegin, Free
  <2>2. r.op = "none" /\ r.pipe = <<>> /\ Bare(r) /\ LocksOf(locks, r) = locks
    BY <2>1, IdleIsNone DEF LocksOf
  <2>3. q.op = "expire" /\ q.at = "list" /\ q.todo = db.all /\ q.due = {} /\ q.pipe = <<>>
    BY DEF Idle
  <2> HIDE DEF q
  <2>4. Course(q) /\ Bare(q) /\ LocksOf(locks, q) = locks
    BY <2>3 DEF Course, Bare, LocksOf
  <2>5. Reading(db, locks, q)
    BY <2>3 DEF Reading, ReadByExpirer
  <2> QED
    BY <2>1, <2>2, <2>3, <2>4, <2>5, ReadTo
<1>2. CASE ExpireGet(Only)
  <2>1. /\ r.op = "expire" /\ r.at = "list" /\ r.pipe = <<>> /\ r \in Request /\ Only \in Procs
        /\ LocksOf(locks, r) = locks /\ ReadByExpirer(db, r) /\ Bare(r) /\ Read
    BY <1>2, ExpireCourse DEF ExpireGet, Bare
  <2>2. PICK v \in r.todo :
          LET active == IF db.vacancy[v].status = "active" THEN {v} ELSE {}
              rest == r.todo \ {v}
          IN  req' = [req EXCEPT ![Only].todo = rest, ![Only].due = @ \cup active,
                                 ![Only].at = IF rest = {} THEN "now" ELSE "list"]
    BY <1>2 DEF ExpireGet
  <2> DEFINE active == IF db.vacancy[v].status = "active" THEN {v} ELSE {}
             rest == r.todo \ {v}
             at == IF rest = {} THEN "now" ELSE "list"
             q == [r EXCEPT !.todo = rest, !.due = @ \cup active, !.at = at]
  <2>3. req' = [req EXCEPT ![Only] = q]
    BY <2>1, <2>2 DEF TypeInv
  <2>4. q.op = "expire" /\ q.at = at /\ q.todo = rest /\ q.due = r.due \cup active /\ q.pipe = <<>>
    BY <2>1 DEF Request
  <2> HIDE DEF q
  <2>5. Course(q) /\ Bare(q) /\ LocksOf(locks, q) = locks
    BY <2>4 DEF Course, Bare, LocksOf
  <2>6. r.todo \subseteq db.all /\ r.due = {x \in db.all \ r.todo : db.vacancy[x].status = "active"}
    BY <2>1 DEF ReadByExpirer
  <2>7. q.todo \subseteq db.all /\ q.due = {x \in db.all \ q.todo : db.vacancy[x].status = "active"}
    BY <2>4, <2>6
  <2>8. Reading(db, locks, q)
    BY <2>4, <2>7 DEF Reading, ReadByExpirer
  <2> QED
    BY <2>1, <2>3, <2>4, <2>5, <2>8, ReadTo
<1>3. CASE ExpireNow(Only) /\ Done(Only)
  <2>1. r.pipe = <<>> /\ LocksOf(locks, r) = locks /\ Bare(r) /\ Read
    BY <1>3, ExpireCourse DEF ExpireNow, Bare
  <2> QED
    BY <1>3, <2>1, ReadDone
<1>4. CASE ExpireNext(Only)
  <2>1. /\ r.op = "expire" /\ r.at = "next" /\ r.pipe = <<>> /\ r \in Request /\ Only \in Procs
        /\ LocksOf(locks, r) = locks /\ Read
    BY <1>4, ExpireCourse DEF ExpireNext
  <2>2. PICK v \in r.due :
          req' = [req EXCEPT ![Only].at = "close", ![Only].v = v, ![Only].due = @ \ {v}]
    BY <1>4 DEF ExpireNext
  <2> DEFINE q == [r EXCEPT !.at = "close", !.v = v, !.due = @ \ {v}]
  <2>3. req' = [req EXCEPT ![Only] = q]
    BY <2>1, <2>2 DEF TypeInv
  <2>4. q.op = "expire" /\ q.at = "close" /\ q.v = v /\ q.due = r.due \ {v} /\ q.pipe = <<>>
    BY <2>1 DEF Request
  <2> HIDE DEF q
  <2>5. Course(q) /\ LocksOf(locks, q) = locks /\ Reading(db, locks, q)
    BY <2>4 DEF Course, LocksOf, Reading, ReadByExpirer
  <2>6. ToClose(q) = ToClose(r)
    BY <2>1, <2>4 DEF ToClose
  <2>7. ToRefill(db, q) = {} /\ ToRefill(db, r) = {}
    BY <2>1, <2>4 DEF ToRefill
  <2>8. Vacs(db, q) = Vacs(db, r) /\ Jobs(db, q) = Jobs(db, r) /\ Actives(db, q) = Actives(db, r)
    BY <2>6, <2>7 DEF Vacs, Jobs, Actives
  <2> QED
    BY <2>1, <2>3, <2>4, <2>5, <2>8, ReadTo
<1> QED
  BY <1>1, <1>2, <1>3, <1>4

-----------------------------------------------------------------------------
(* Steps that write, and yet show nothing new.                             *)
LEMMA Unmoved ==
  ASSUME Alone, TypeInv, TypeInv', SerialInv, NEW q, req' = [req EXCEPT ![Only] = q],
         started' = started, NEW e, e = After, e = RunAll(db', q.pipe),
         Course(q), Reading(e, locks', q),
         Vacs(e, q) = Vacs(e, req[Only]), Jobs(e, q) = Jobs(e, req[Only]),
         Actives(e, q) = Actives(e, req[Only]),
         LocksOf(locks', q) = LocksOf(locks, req[Only])
  PROVE  SerialInv' /\ UNCHANGED Board!vars
<1>1. Filed(e)
  BY DEF SerialInv
<1>2. /\ SerialInv' /\ Settled.vacancy' = Vacs(e, q) /\ Settled.applicants' = e.applicants
      /\ Settled.userApps' = Jobs(e, q) /\ Settled.active' = Actives(e, q)
      /\ SettledLocks' = LocksOf(locks', q)
  BY <1>1, StepTo
<1>3. /\ Settled.vacancy = Vacs(e, req[Only]) /\ Settled.applicants = e.applicants
      /\ Settled.userApps = Jobs(e, req[Only]) /\ Settled.active = Actives(e, req[Only])
      /\ SettledLocks = LocksOf(locks, req[Only])
  BY ShownNow
<1> QED
  BY <1>2, <1>3 DEF Board!vars

LEMMA LockTaken ==
  ASSUME Alone, TypeInv, TypeInv', SerialInv, ApplySetNX(Only)
  PROVE  SerialInv' /\ UNCHANGED Board!vars
<1> DEFINE r == req[Only]
           key == <<r.v, r.u>>
<1>1. /\ r.op = "apply" /\ r.at = "setnx" /\ r.pipe = <<>> /\ r \in Request /\ Only \in Procs
      /\ Bare(r) /\ LocksOf(locks, r) = locks /\ db' = db /\ started' = started
  BY DEF ApplySetNX, SerialInv, Course, Bare, LocksOf, Alone, TypeInv
<1>2. ReadByApply(db, locks, r) /\ After = db /\ db \in Data
  BY <1>1, AfterReads DEF SerialInv, Reading, TypeInv
<1>3. CASE Locked(key)
  <2>1. Done(Only) /\ Read
    BY <1>1, <1>3 DEF ApplySetNX, Read
  <2> QED
    BY <1>1, <2>1, ReadDone
<1>4. CASE ~Locked(key)
  <2> DEFINE q == [r EXCEPT !.at = "getvac", !.fresh = FALSE]
  <2>1. locks' = locks \cup {key} /\ key \notin locks
    BY <1>4 DEF ApplySetNX, Locked
  <2>2. req' = [x \in Procs |-> IF x = Only THEN q ELSE req'[x]]
    BY <1>1, <1>4 DEF ApplySetNX, TypeInv
  <2>3. req' = [req EXCEPT ![Only] = q]
    <3>1. \A x \in Procs : x = Only
      BY DEF Alone
    <3>2. req' = [x \in Procs |-> q]
      BY <2>2, <3>1
    <3>3. [req EXCEPT ![Only] = q] = [x \in Procs |-> q]
      BY <3>1 DEF TypeInv
    <3> QED
      BY <3>2, <3>3
  <2>4. /\ q.op = "apply" /\ q.at = "getvac" /\ q.v = r.v /\ q.u = r.u /\ q.n = r.n
        /\ q.pipe = <<>> /\ q.fresh = FALSE
    BY <1>1 DEF Request
  <2> HIDE DEF q
  <2>5. Course(q) /\ Bare(q) /\ LocksOf(locks', q) = locks
    BY <2>1, <2>4 DEF Course, Bare, LocksOf
  <2>6. Reading(db, locks', q)
    BY <1>1, <1>2, <2>1, <2>4 DEF Reading, ReadByApply
  <2>7. db = RunAll(db', q.pipe)
    BY <1>1, <2>4, RunAllEmpty
  <2>8. Vacs(db, q) = Vacs(db, r) /\ Jobs(db, q) = Jobs(db, r) /\ Actives(db, q) = Actives(db, r)
    BY <1>1, <1>2, <2>5, Plain
  <2> QED
    BY <1>1, <1>2, <2>3, <2>5, <2>6, <2>7, <2>8, Unmoved
<1> QED
  BY <1>3, <1>4

LEMMA PipeRuns ==
  ASSUME Alone, TypeInv, TypeInv', SerialInv, PipeStep(Only)
  PROVE  SerialInv' /\ UNCHANGED Board!vars
<1> DEFINE r == req[Only]
           rest == Tail(r.pipe)
           e == After
           q == IF rest = <<>> THEN AfterPipe(r) ELSE [r EXCEPT !.pipe = rest]
<1>1. /\ r.at = "pipe" /\ r.pipe # <<>> /\ r.pipe \in Seq(Command) /\ r \in Request /\ Only \in Procs
      /\ r.op \in Ops \cup {"none"} /\ LocksOf(locks, r) = locks /\ Course(r)
      /\ db' = Run(db, Head(r.pipe)) /\ locks' = locks /\ started' = started
  BY DEF PipeStep, Alone, TypeInv, Fits, Request, LocksOf, SerialInv
<1>2. req' = [req EXCEPT ![Only] = q]
  BY <1>1 DEF PipeStep, TypeInv
<1>3. e = RunAll(db', rest) /\ e \in Data
  BY <1>1, RunAllHead, ShownNow DEF After
<1> HIDE DEF e
<1>4. CASE rest # <<>>
  <2>1. /\ q.op = r.op /\ q.at = "pipe" /\ q.v = r.v /\ q.u = r.u /\ q.todo = r.todo
        /\ q.due = r.due /\ q.pipe = rest
    BY <1>1, <1>4 DEF Request
  <2> HIDE DEF q
  <2>2. Course(q) /\ Reading(e, locks', q) /\ LocksOf(locks', q) = locks
    BY <1>1, <2>1 DEF Course, Reading, ReadByDecision, ReadByJobs, ReadByExpirer, LocksOf
  <2>3. ToClose(q) = ToClose(r) /\ ToRefill(e, q) = ToRefill(e, r)
    BY <1>1, <2>1 DEF ToClose, ToRefill
  <2>4. Vacs(e, q) = Vacs(e, r) /\ Jobs(e, q) = Jobs(e, r) /\ Actives(e, q) = Actives(e, r)
    BY <2>1, <2>3 DEF Vacs, Jobs, Actives
  <2>5. e = RunAll(db', q.pipe)
    BY <1>3, <2>1
  <2> QED
    BY <1>1, <1>2, <2>2, <2>4, <2>5, Unmoved DEF e
<1>5. CASE rest = <<>> /\ r.op = "cancel"
  <2>1. q.op = "cancel" /\ q.at = "smembers" /\ q.u = r.u /\ q.pipe = rest
    BY <1>1, <1>5 DEF Request, AfterPipe
  <2> HIDE DEF q
  <2>2. Course(q) /\ Reading(e, locks', q) /\ LocksOf(locks', q) = locks
    BY <1>1, <1>5, <2>1 DEF Course, Reading, ReadByJobs, LocksOf
  <2>3. ToRefill(e, q) = ToRefill(e, r)
    BY <1>1, <1>5, <2>1 DEF ToRefill
  <2>4. Vacs(e, q) = Vacs(e, r) /\ Jobs(e, q) = Jobs(e, r) /\ Actives(e, q) = Actives(e, r)
    BY <1>5, <2>1, <2>3, SameRefill
  <2>5. e = RunAll(db', q.pipe)
    BY <1>3, <2>1
  <2> QED
    BY <1>1, <1>2, <2>2, <2>4, <2>5, Unmoved DEF e
<1>6. CASE rest = <<>> /\ r.op = "expire" /\ r.due # {}
  <2>1. q.op = "expire" /\ q.at = "next" /\ q.u = r.u /\ q.pipe = rest /\ q.due = r.due
    BY <1>1, <1>6 DEF Request, AfterPipe
  <2> HIDE DEF q
  <2>2. Course(q) /\ Reading(e, locks', q) /\ LocksOf(locks', q) = locks
    BY <1>1, <1>6, <2>1 DEF Course, Reading, ReadByExpirer, LocksOf
  <2>3. ToClose(q) = ToClose(r) /\ ToRefill(e, q) = ToRefill(e, r)
    BY <1>1, <1>6, <2>1 DEF ToClose, ToRefill
  <2>4. Vacs(e, q) = Vacs(e, r) /\ Jobs(e, q) = Jobs(e, r) /\ Actives(e, q) = Actives(e, r)
    BY <2>1, <2>3 DEF Vacs, Jobs, Actives
  <2>5. e = RunAll(db', q.pipe)
    BY <1>3, <2>1
  <2> QED
    BY <1>1, <1>2, <2>2, <2>4, <2>5, Unmoved DEF e
<1>7. CASE rest = <<>> /\ r.op # "cancel" /\ ~(r.op = "expire" /\ r.due # {})
  <2>1. q = Idle
    BY <1>7 DEF AfterPipe
  <2>2. ToClose(r) = {} /\ ToRefill(e, r) = {}
    BY <1>1, <1>7 DEF ToClose, ToRefill, Course
  <2> HIDE DEF q
  <2>3. Course(q) /\ Reading(e, locks', q) /\ LocksOf(locks', q) = locks
    BY <1>1, <2>1, IdleSerial
  <2>4. Vacs(e, q) = Vacs(e, r) /\ Jobs(e, q) = Jobs(e, r) /\ Actives(e, q) = Actives(e, r)
    BY <1>3, <2>1, <2>2, PlainView, Plain, IdleSerial
  <2>5. e = RunAll(db', q.pipe)
    BY <1>3, <1>7, <2>1, IdleSerial
  <2> QED
    BY <1>1, <1>2, <2>3, <2>4, <2>5, Unmoved DEF e
<1> QED
  BY <1>4, <1>5, <1>6, <1>7

-----------------------------------------------------------------------------
(* A vacancy that exists still does once the pipeline has run.             *)
LEMMA ClosedExists ==
  \A vac \in Vacancy : AfterClose(vac) \in Vacancy /\ ~Missing(AfterClose(vac))
  BY DEF AfterClose, Vacancy, Missing

Creates(c) == c.cmd = "SET vacancy" => ~Missing(c.vac)

LEMMA RunStays ==
  ASSUME NEW d \in Data, NEW c \in Command, Creates(c),
         NEW v \in Vacancies, ~Missing(d.vacancy[v])
  PROVE  ~Missing(Run(d, c).vacancy[v])
<1>1. CASE c.cmd = "SET vacancy"
  <2>1. c.v \in Vacancies /\ Run(d, c) = [d EXCEPT !.vacancy[c.v] = c.vac]
    BY <1>1 DEF Run, Command
  <2>2. Run(d, c).vacancy[v] = IF v = c.v THEN c.vac ELSE d.vacancy[v]
    BY <2>1 DEF Data
  <2> QED
    BY <1>1, <2>2 DEF Creates
<1>2. CASE c.cmd # "SET vacancy"
  <2>1. Run(d, c).vacancy = d.vacancy
    BY <1>2 DEF Run, Command, Data
  <2> QED
    BY <2>1
<1> QED
  BY <1>1, <1>2

LEMMA RunAllStays ==
  ASSUME NEW d \in Data, NEW s \in Seq(Command),
         \A i \in 1 .. Len(s) : Creates(s[i]),
         NEW v \in Vacancies, ~Missing(d.vacancy[v])
  PROVE  ~Missing(RunAll(d, s).vacancy[v])
<1> DEFINE B == {k \in 0 .. Len(s) : Missing(Ran(d, s, k).vacancy[v])}
<1>1. B = {}
  <2> SUFFICES ASSUME B # {} PROVE FALSE
    OBVIOUS
  <2>1. B \in SUBSET Nat
    OBVIOUS
  <2> HIDE DEF B
  <2>2. PICK k \in B : \A j \in B : k <= j
    BY <2>1, LeastNat
  <2> USE DEF B
  <2>3. k # 0
    BY <2>2, RanFirst
  <2>4. k - 1 \in Nat /\ k - 1 \in 0 .. Len(s) /\ (k - 1) + 1 = k /\ k \in 1 .. Len(s)
    BY <2>2, <2>3
  <2>5. ~Missing(Ran(d, s, k - 1).vacancy[v])
    BY <2>2, <2>4
  <2>6. Ran(d, s, k) = Run(Ran(d, s, k - 1), s[k])
    BY <2>4, RanNext
  <2>7. s[k] \in Command /\ Ran(d, s, k - 1) \in Data
    BY <2>4, RanTypes
  <2>8. ~Missing(Run(Ran(d, s, k - 1), s[k]).vacancy[v])
    BY <2>4, <2>5, <2>7, RunStays
  <2> QED
    BY <2>2, <2>6, <2>8
<1>2. Len(s) \in 0 .. Len(s)
  OBVIOUS
<1> QED
  BY <1>1, <1>2, RunAllRan

LEMMA StaysAfter ==
  ASSUME Alone, TypeInv, BookInv, NEW v \in Vacancies, ~Missing(db.vacancy[v])
  PROVE  ~Missing(After.vacancy[v])
<1> DEFINE s == req[Only].pipe
<1>1. s \in Seq(Command) /\ Booked(db, req[Only]) /\ db \in Data
  BY DEF Alone, TypeInv, Request, BookInv
<1>2. \A i \in 1 .. Len(s) : Creates(s[i])
  <2>1. CASE \A i \in 1 .. Len(s) : Bounded(db, s[i])
    BY <2>1 DEF Bounded, InBounds, Creates
  <2>2. CASE Creating(db, req[Only])
    <3>1. PICK n \in SlotChoices : s = CreatePipe(req[Only].v, n)
      BY <2>2 DEF Creating
    <3> HIDE DEF s
    <3>2. Creates(SetVacancy(req[Only].v, NewVacancy(n)))
      BY DEF Creates, SetVacancy, NewVacancy, Missing
    <3>3. Creates(ZAddAll(req[Only].v)) /\ Creates(SAddActive(req[Only].v))
      BY DEF Creates, ZAddAll, SAddActive
    <3> QED
      BY <3>1, <3>2, <3>3 DEF CreatePipe
  <2> QED
    BY <1>1, <2>1, <2>2 DEF Booked
<1> HIDE DEF s
<1>3. ~Missing(RunAll(db, s).vacancy[v])
  BY <1>1, <1>2, RunAllStays
<1> QED
  BY <1>3 DEF After, s

-----------------------------------------------------------------------------
(* Time.                                                                   *)
LEMMA TimePasses ==
  ASSUME Alone, TypeInv, TypeInv', BookInv, SerialInv, NEW v \in Vacancies, NEW u,
         (u \in Users /\ LockExpires(v, u)) \/ StartPasses(v)
  PROVE  SerialInv' /\ (Board!Next \/ UNCHANGED Board!vars)
<1> DEFINE r == req[Only]
<1>1. db' = db /\ req' = req /\ After' = After
  BY DEF LockExpires, StartPasses, After
<1>2. /\ After \in Data /\ Settled.vacancy = Vacs(After, r) /\ Settled.applicants = After.applicants
      /\ Settled.userApps = Jobs(After, r) /\ Settled.active = Actives(After, r)
      /\ SettledLocks = LocksOf(locks, r) /\ r \in Request /\ Only \in Procs
  BY ShownNow
<1>3. /\ Settled.vacancy' = Settled.vacancy /\ Settled.applicants' = Settled.applicants
      /\ Settled.userApps' = Settled.userApps /\ Settled.active' = Settled.active
  BY <1>1 DEF Settled
<1>4. SettledLocks' = LocksOf(locks', r)
  BY <1>1 DEF SettledLocks, LocksOf
<1>5. CASE u \in Users /\ LockExpires(v, u)
  <2>1. /\ <<v, u>> \in locks /\ locks' = locks \ {<<v, u>>} /\ started' = started
        /\ InApply(Only, v, u) => r.fresh \/ r.at = "hexists"
    BY <1>2, <1>5 DEF LockExpires
  <2>2. r.op = "apply" /\ r.at = "getvac" => ~r.fresh /\ <<r.v, r.u>> # <<v, u>>
    <3>1. r.op = "apply" /\ r.at = "getvac" => ~r.fresh
      BY DEF SerialInv, Reading, ReadByApply
    <3> QED
      BY <2>1, <3>1 DEF InApply
  <2>3. Reading(After, locks', r)
    BY <2>1, <2>2 DEF SerialInv, Reading, ReadByApply
  <2>4. SerialInv'
    BY <1>1, <2>3 DEF SerialInv
  <2>5. <<v, u>> \in SettledLocks /\ SettledLocks' = SettledLocks \ {<<v, u>>}
    BY <1>2, <1>4, <2>1, <2>2 DEF LocksOf
  <2>6. Board!LockExpires(v, u)
    BY <1>3, <2>1, <2>5 DEF Board!LockExpires
  <2> QED
    BY <1>5, <2>4, <2>6 DEF Board!Next
<1>6. CASE StartPasses(v)
  <2>1. Exists(v) /\ locks' = locks /\ started' = started \cup {v}
    BY <1>6 DEF StartPasses
  <2>2. SerialInv'
    BY <1>1, <2>1 DEF SerialInv
  <2>3. SettledLocks' = SettledLocks
    BY <1>2, <1>4, <2>1
  <2>4. ~Missing(Settled.vacancy[v])
    <3>1. ~Missing(After.vacancy[v])
      BY <2>1, StaysAfter DEF Exists
    <3>2. Settled.vacancy[v] \in {After.vacancy[v], AfterClose(After.vacancy[v])}
      BY <1>2 DEF Vacs
    <3>3. ~Missing(AfterClose(After.vacancy[v]))
      BY <1>2, ClosedExists DEF Data
    <3> QED
      BY <3>1, <3>2, <3>3
  <2>5. Board!StartPasses(v)
    BY <1>3, <2>1, <2>3, <2>4, SameRecords DEF Board!StartPasses, Board!Created
  <2> QED
    BY <2>2, <2>5 DEF Board!Next
<1> QED
  BY <1>5, <1>6

-----------------------------------------------------------------------------
(* The requests take effect.                                               *)
LEMMA Sent ==
  ASSUME Alone, TypeInv, NEW pipe, Send(Only, pipe)
  PROVE  \E q : /\ req' = [req EXCEPT ![Only] = q]
                /\ q.op = req[Only].op /\ q.at = "pipe" /\ q.v = req[Only].v /\ q.u = req[Only].u
                /\ q.todo = req[Only].todo /\ q.due = req[Only].due /\ q.pipe = pipe
<1> DEFINE r == req[Only]
           q == [r EXCEPT !.at = "pipe", !.pipe = pipe, !.vac = NoVacancy, !.app = NoApplication]
<1>1. r \in Request
  BY DEF Alone, TypeInv
<1>2. req' = [req EXCEPT ![Only] = q]
  BY DEF Send
<1>3. /\ q.op = r.op /\ q.at = "pipe" /\ q.v = r.v /\ q.u = r.u
      /\ q.todo = r.todo /\ q.due = r.due /\ q.pipe = pipe
  BY <1>1 DEF Request
<1> HIDE DEF q
<1> QED
  BY <1>2, <1>3

(* A request about one vacancy hands over its pipeline.                    *)
LEMMA SendShows ==
  ASSUME Alone, TypeInv, TypeInv', SerialInv, Read, NEW pipe, Send(Only, pipe),
         req[Only].pipe = <<>>, req[Only].op \in {"apply", "accept", "reject", "close"},
         NEW e, e = RunAll(db, pipe), Filed(e)
  PROVE  /\ SerialInv' /\ started' = started
         /\ Settled.vacancy = db.vacancy /\ Settled.vacancy' = e.vacancy
         /\ Settled.applicants = db.applicants /\ Settled.applicants' = e.applicants
         /\ Settled.userApps = db.userApps /\ Settled.userApps' = e.userApps
         /\ Settled.active = db.active /\ Settled.active' = e.active
         /\ SettledLocks = LocksOf(locks, req[Only]) /\ SettledLocks' = locks
<1>1. db' = db /\ locks' = locks /\ started' = started /\ After = db /\ db \in Data
  BY AfterReads DEF Read, TypeInv
<1>2. PICK q : /\ req' = [req EXCEPT ![Only] = q]
               /\ q.op = req[Only].op /\ q.at = "pipe" /\ q.pipe = pipe
  BY Sent
<1>3. Course(q) /\ Bare(q) /\ Bare(req[Only]) /\ LocksOf(locks', q) = locks
  BY <1>1, <1>2 DEF Course, Bare, LocksOf
<1>4. Reading(e, locks', q)
  BY <1>2 DEF Reading, ReadByDecision
<1>5. e = RunAll(db', q.pipe)
  BY <1>1, <1>2
<1>6. /\ SerialInv' /\ Settled.vacancy' = Vacs(e, q) /\ Settled.applicants' = e.applicants
      /\ Settled.userApps' = Jobs(e, q) /\ Settled.active' = Actives(e, q)
      /\ SettledLocks' = locks /\ e \in Data
  BY <1>2, <1>3, <1>4, <1>5, StepTo
<1>7. /\ Settled.vacancy = Vacs(db, req[Only]) /\ Settled.applicants = db.applicants
      /\ Settled.userApps = Jobs(db, req[Only]) /\ Settled.active = Actives(db, req[Only])
      /\ SettledLocks = LocksOf(locks, req[Only])
  BY <1>1, ShownNow
<1>8. Vacs(e, q) = e.vacancy /\ Jobs(e, q) = e.userApps /\ Actives(e, q) = e.active
  BY <1>3, <1>6, Plain
<1>9. /\ Vacs(db, req[Only]) = db.vacancy /\ Jobs(db, req[Only]) = db.userApps
      /\ Actives(db, req[Only]) = db.active
  BY <1>1, <1>3, Plain
<1> QED
  BY <1>1, <1>6, <1>7, <1>8, <1>9

(* A vacancy is created, a worker deleted. *)
LEMMA CreatesVacancy ==
  ASSUME Alone, TypeInv, TypeInv', SerialInv, NEW v \in Vacancies, CreateBegin(Only, v)
  PROVE  SerialInv' /\ Board!CreateVacancy(v)
<1>1. /\ ~Busy(Only) /\ Missing(db.vacancy[v]) /\ db' = db /\ locks' = locks /\ started' = started
      /\ db \in Data
  BY DEF CreateBegin, Free, Exists, Read, TypeInv
<1>2. PICK n \in SlotChoices :
        req' = [req EXCEPT ![Only] = [Idle EXCEPT !.op = "create", !.at = "pipe", !.v = v,
                  !.pipe = <<SetVacancy(v, NewVacancy(n)), ZAddAll(v), SAddActive(v)>>]]
  BY DEF CreateBegin
<1> DEFINE pipe == <<SetVacancy(v, NewVacancy(n)), ZAddAll(v), SAddActive(v)>>
           q == [Idle EXCEPT !.op = "create", !.at = "pipe", !.v = v, !.pipe = pipe]
           d1 == Run(db, SetVacancy(v, NewVacancy(n)))
           d2 == Run(d1, ZAddAll(v))
           e == Run(d2, SAddActive(v))
<1>3. req' = [req EXCEPT ![Only] = q] /\ q.op = "create" /\ q.at = "pipe" /\ q.pipe = pipe
  BY <1>2 DEF Idle
<1> HIDE DEF q
<1>4. NewVacancy(n) \in Vacancy /\ ~Missing(NewVacancy(n))
  BY SlotsAssumption DEF NewVacancy, Vacancy, Missing
<1>5. SetVacancy(v, NewVacancy(n)) \in Command /\ ZAddAll(v) \in Command
      /\ SAddActive(v) \in Command
  BY <1>4 DEF Command, SetVacancy, ZAddAll, SAddActive
<1>6. e = RunAll(db', q.pipe)
  BY <1>1, <1>3, <1>5, RunAllThree
<1>7. d1 \in Data /\ d2 \in Data /\ e \in Data
  BY <1>1, <1>5, RunTypes
<1>8. Fields(d1, [db.vacancy EXCEPT ![v] = NewVacancy(n)], db.applicants, db.userApps,
             db.active, db.all)
  BY <1>1, <1>4, SetEffect
<1> HIDE DEF d1
<1>9. Fields(d2, d1.vacancy, d1.applicants, d1.userApps, d1.active, d1.all \cup {v})
  BY <1>7, ListEffect
<1> HIDE DEF d2
<1>10. Fields(e, d2.vacancy, d2.applicants, d2.userApps, d2.active \cup {v}, d2.all)
  BY <1>7, ActiveEffect
<1> HIDE DEF e, pipe
<1>11. /\ e.vacancy = [db.vacancy EXCEPT ![v] = NewVacancy(n)] /\ e.applicants = db.applicants
       /\ e.userApps = db.userApps /\ e.active = db.active \cup {v} /\ e.all = db.all \cup {v}
  BY <1>8, <1>9, <1>10 DEF Fields
<1>12. /\ req[Only].op = "none" /\ req[Only].pipe = <<>> /\ Bare(req[Only]) /\ After = db
       /\ LocksOf(locks, req[Only]) = locks
  BY <1>1, IdleIsNone, AfterReads DEF LocksOf
<1>13. Filed(e)
  <2>1. Filed(db)
    BY <1>12 DEF SerialInv
  <2> QED
    BY <1>1, <1>4, <1>11, <2>1 DEF Filed, Data
<1>14. Course(q) /\ Bare(q) /\ LocksOf(locks', q) = locks /\ Reading(e, locks', q)
  BY <1>1, <1>3 DEF Course, Bare, LocksOf, Reading
<1>15. /\ SerialInv' /\ Settled.vacancy' = Vacs(e, q) /\ Settled.applicants' = e.applicants
       /\ Settled.userApps' = Jobs(e, q) /\ Settled.active' = Actives(e, q)
       /\ SettledLocks' = locks
  BY <1>3, <1>6, <1>13, <1>14, StepTo
<1>16. /\ Settled.vacancy = Vacs(db, req[Only]) /\ Settled.applicants = db.applicants
       /\ Settled.userApps = Jobs(db, req[Only]) /\ Settled.active = Actives(db, req[Only])
       /\ SettledLocks = locks
  BY <1>12, ShownNow
<1>17. Vacs(e, q) = e.vacancy /\ Jobs(e, q) = e.userApps /\ Actives(e, q) = e.active
  BY <1>7, <1>14, Plain
<1>18. /\ Vacs(db, req[Only]) = db.vacancy /\ Jobs(db, req[Only]) = db.userApps
       /\ Actives(db, req[Only]) = db.active
  BY <1>1, <1>12, Plain
<1> QED
  BY <1>1, <1>11, <1>15, <1>16, <1>17, <1>18, SameRecords
     DEF Board!CreateVacancy, Board!Created

LEMMA DeletesWorker ==
  ASSUME Alone, TypeInv, TypeInv', SerialInv, NEW u \in Users, DeleteBegin(Only, u)
  PROVE  SerialInv' /\ Board!DeleteWorker(u)
<1> DEFINE pipe == <<DelApps(u)>>
           q == [Idle EXCEPT !.op = "delete", !.at = "pipe", !.u = u, !.pipe = pipe]
           e == Run(db, DelApps(u))
<1>1. /\ ~Busy(Only) /\ u \in Deletable /\ db' = db /\ locks' = locks /\ started' = started
      /\ db \in Data /\ req' = [req EXCEPT ![Only] = q]
  BY DEF DeleteBegin, Free, Read, TypeInv
<1>2. q.op = "delete" /\ q.at = "pipe" /\ q.pipe = pipe
  BY DEF Idle
<1> HIDE DEF q
<1>3. DelApps(u) \in Command
  BY DEF DelApps, Command
<1>4. e = RunAll(db', q.pipe) /\ e \in Data
  BY <1>1, <1>2, <1>3, RunAllOne, RunTypes
<1>5. Fields(e, db.vacancy, db.applicants, [db.userApps EXCEPT ![u] = {}], db.active, db.all)
  BY <1>1, DelEffect
<1> HIDE DEF e, pipe
<1>6. /\ req[Only].op = "none" /\ req[Only].pipe = <<>> /\ Bare(req[Only]) /\ After = db
      /\ LocksOf(locks, req[Only]) = locks
  BY <1>1, IdleIsNone, AfterReads DEF LocksOf
<1>7. Filed(e)
  BY <1>5, <1>6 DEF SerialInv, Filed, Fields
<1>8. Course(q) /\ Bare(q) /\ LocksOf(locks', q) = locks /\ Reading(e, locks', q)
  BY <1>1, <1>2 DEF Course, Bare, LocksOf, Reading
<1>9. /\ SerialInv' /\ Settled.vacancy' = Vacs(e, q) /\ Settled.applicants' = e.applicants
      /\ Settled.userApps' = Jobs(e, q) /\ Settled.active' = Actives(e, q)
      /\ SettledLocks' = locks
  BY <1>1, <1>4, <1>7, <1>8, StepTo
<1>10. /\ Settled.vacancy = Vacs(db, req[Only]) /\ Settled.applicants = db.applicants
       /\ Settled.userApps = Jobs(db, req[Only]) /\ Settled.active = Actives(db, req[Only])
       /\ SettledLocks = locks
  BY <1>6, ShownNow
<1>11. Vacs(e, q) = e.vacancy /\ Jobs(e, q) = e.userApps /\ Actives(e, q) = e.active
  BY <1>4, <1>8, Plain
<1>12. /\ Vacs(db, req[Only]) = db.vacancy /\ Jobs(db, req[Only]) = db.userApps
       /\ Actives(db, req[Only]) = db.active
  BY <1>1, <1>6, Plain
<1> QED
  BY <1>1, <1>5, <1>9, <1>10, <1>11, <1>12 DEF Board!DeleteWorker, Fields

(* An application, or none if no place is left: the lock counts from here. *)
LEMMA SameCount == \A S : Board!Cardinality(S) = Cardinality(S)
  BY DEF Board!Cardinality, Cardinality

LEMMA WritesApplication ==
  ASSUME Alone, TypeInv, TypeInv', SerialInv, ApplyGetVac(Only)
  PROVE  SerialInv' /\ req[Only].v \in Vacancies /\ req[Only].u \in Users
         /\ Board!Apply(req[Only].v, req[Only].u)
<1> DEFINE r == req[Only]
           key == <<r.v, r.u>>
           n == Granted(VacOf(Only), r.n)
<1>1. /\ r.op = "apply" /\ r.at = "getvac" /\ r.pipe = <<>> /\ r \in Request /\ Only \in Procs
      /\ r.v \in Vacancies /\ r.u \in Users /\ Bare(r) /\ Read
  BY DEF ApplyGetVac, SerialInv, Course, Bare, Alone, TypeInv, Fits
<1>2. /\ ReadByApply(db, locks, r) /\ After = db /\ db \in Data /\ db' = db /\ locks' = locks
      /\ started' = started
  BY <1>1, AfterReads DEF SerialInv, Reading, TypeInv, Read
<1>3. /\ ~Missing(db.vacancy[r.v]) /\ r.n \in 1 .. db.vacancy[r.v].needed
      /\ db.applicants[key] = NoApplication /\ Cardinality(db.userApps[r.u]) < MaxActive
      /\ key \in locks /\ LocksOf(locks, r) = locks \ {key}
  BY <1>1, <1>2 DEF ReadByApply, LocksOf
<1>4. n = Board!Granted(db.vacancy[r.v], r.n) /\ n \in Nat
  <2>1. db.vacancy[r.v] \in Vacancy /\ r.n \in Nat
    BY <1>1, <1>2 DEF Data, Request
  <2>2. Granted(db.vacancy[r.v], r.n) \in Nat
    BY <2>1 DEF Granted, Vacancy
  <2> QED
    BY <2>2, SameRecords DEF VacOf
<1> HIDE DEF n
<1>5. CASE n = 0
  <2>1. req' = [req EXCEPT ![Only] = Idle]
    BY <1>5 DEF ApplyGetVac, Done, n
  <2>2. db = RunAll(db', Idle.pipe) /\ Filed(db)
    BY <1>2, IdleSerial, RunAllEmpty DEF SerialInv
  <2>3. Course(Idle) /\ Reading(db, locks', Idle) /\ LocksOf(locks', Idle) = locks
    BY <1>2, IdleSerial
  <2>4. /\ SerialInv' /\ Settled.vacancy' = Vacs(db, Idle) /\ Settled.applicants' = db.applicants
        /\ Settled.userApps' = Jobs(db, Idle) /\ Settled.active' = Actives(db, Idle)
        /\ SettledLocks' = locks
    BY <2>1, <2>2, <2>3, StepTo
  <2>5. /\ Settled.vacancy = Vacs(db, r) /\ Settled.applicants = db.applicants
        /\ Settled.userApps = Jobs(db, r) /\ Settled.active = Actives(db, r)
        /\ SettledLocks = locks \ {key}
    BY <1>2, <1>3, ShownNow
  <2>6. /\ Vacs(db, r) = db.vacancy /\ Jobs(db, r) = db.userApps /\ Actives(db, r) = db.active
    BY <1>1, <1>2, Plain
  <2>7. /\ Vacs(db, Idle) = db.vacancy /\ Jobs(db, Idle) = db.userApps
        /\ Actives(db, Idle) = db.active
    BY <1>2, IdleSerial, Plain
  <2>8. Board!Apply(r.v, r.u)
    BY SameCount, <1>2, <1>3, <1>4, <1>5, <2>4, <2>5, <2>6, <2>7, SameRecords
       DEF Board!Apply, Board!Created, Board!HasRecord, Board!WithinLimit
  <2> QED
    BY <1>1, <2>4, <2>8
<1>6. CASE n # 0
  <2> DEFINE one == HSetApp(r.v, r.u, NewApplication(n))
             two == SAddApps(r.v, r.u)
             d1 == Run(db, one)
             e == Run(d1, two)
  <2>1. Send(Only, <<one, two>>)
    BY <1>6 DEF ApplyGetVac, n
  <2>2. NewApplication(n) \in Application
    BY <1>4 DEF NewApplication, Application
  <2>3. one \in Command /\ two \in Command
    BY <1>1, <2>2 DEF Command, HSetApp, SAddApps
  <2>4. e = RunAll(db, <<one, two>>) /\ d1 \in Data
    BY <1>2, <2>3, RunAllTwo, RunTypes
  <2>5. Fields(d1, db.vacancy, [db.applicants EXCEPT ![key] = NewApplication(n)], db.userApps,
               db.active, db.all)
    BY <1>1, <1>2, <2>2, HSetEffect
  <2> HIDE DEF d1
  <2>6. Fields(e, d1.vacancy, d1.applicants, [d1.userApps EXCEPT ![r.u] = @ \cup {r.v}],
               d1.active, d1.all)
    BY <1>1, <2>4, SAddEffect
  <2> HIDE DEF e
  <2>7. /\ e.vacancy = db.vacancy /\ e.applicants = [db.applicants EXCEPT ![key] = NewApplication(n)]
        /\ e.userApps = [db.userApps EXCEPT ![r.u] = @ \cup {r.v}] /\ e.active = db.active
        /\ e.all = db.all
    BY <2>5, <2>6 DEF Fields
  <2>8. Filed(e)
    <3>1. Filed(db)
      BY <1>2 DEF SerialInv
    <3>2. \A w \in Vacancies, x \in Users :
            e.applicants[<<w, x>>] = IF w = r.v /\ x = r.u THEN NewApplication(n)
                                     ELSE db.applicants[<<w, x>>]
      BY <1>2, <2>7 DEF Data, Pairs
    <3> QED
      BY <1>3, <2>7, <3>1, <3>2 DEF Filed
  <2>9. /\ SerialInv' /\ started' = started
        /\ Settled.vacancy = db.vacancy /\ Settled.vacancy' = e.vacancy
        /\ Settled.applicants = db.applicants /\ Settled.applicants' = e.applicants
        /\ Settled.userApps = db.userApps /\ Settled.userApps' = e.userApps
        /\ Settled.active = db.active /\ Settled.active' = e.active
        /\ SettledLocks = locks \ {key} /\ SettledLocks' = locks
    BY <1>1, <1>3, <2>1, <2>4, <2>8, SendShows
  <2>10. Board!NewApplication(n) = NewApplication(n) /\ Board!NoApplication = NoApplication
         /\ ~Board!Missing(db.vacancy[r.v])
    BY <1>3, SameRecords
  <2>11. SettledLocks' = SettledLocks \cup {key} /\ key \notin SettledLocks
    BY <1>3, <2>9
  <2> HIDE DEF key
  <2>12. Board!Apply(r.v, r.u)
    BY SameCount, <1>3, <1>4, <1>6, <2>7, <2>9, <2>10, <2>11
       DEF Board!Apply, Board!Created, Board!HasRecord, Board!WithinLimit, key
  <2> QED
    BY <1>1, <2>9, <2>12
<1> QED
  BY <1>5, <1>6

(* A rejection. *)
LEMMA WritesRejection ==
  ASSUME Alone, TypeInv, TypeInv', SerialInv, RejectHGet(Only), ~Done(Only)
  PROVE  SerialInv' /\ req[Only].v \in Vacancies /\ req[Only].u \in Users
         /\ Board!RejectApplication(req[Only].v, req[Only].u)
<1> DEFINE r == req[Only]
           key == <<r.v, r.u>>
           app == WithStatus(AppOf(Only), "rejected")
           one == HSetApp(r.v, r.u, app)
           two == SRemApps(r.v, r.u)
           d1 == Run(db, one)
           e == Run(d1, two)
<1>1. /\ r.op = "reject" /\ r.at = "hget" /\ r.pipe = <<>> /\ r \in Request /\ Only \in Procs
      /\ r.v \in Vacancies /\ r.u \in Users /\ Read /\ LocksOf(locks, r) = locks
  BY DEF RejectHGet, SerialInv, Course, Alone, TypeInv, Fits, LocksOf
<1>2. /\ ReadByDecision(db, r) /\ After = db /\ db \in Data
  BY <1>1, AfterReads DEF SerialInv, Reading, TypeInv
<1>3. AppOf(Only) = db.applicants[key] /\ AppOf(Only) # NoApplication /\ Send(Only, <<one, two>>)
  BY DEF RejectHGet, AppOf
<1>4. app \in Application
  BY <1>1, <1>2, <1>3 DEF Data, Pairs, WithStatus, Application
<1>5. one \in Command /\ two \in Command
  BY <1>1, <1>4 DEF Command, HSetApp, SRemApps
<1>6. e = RunAll(db, <<one, two>>) /\ d1 \in Data
  BY <1>2, <1>5, RunAllTwo, RunTypes
<1>7. Fields(d1, db.vacancy, [db.applicants EXCEPT ![key] = app], db.userApps, db.active, db.all)
  BY <1>1, <1>2, <1>4, HSetEffect
<1> HIDE DEF d1
<1>8. Fields(e, d1.vacancy, d1.applicants, [d1.userApps EXCEPT ![r.u] = @ \ {r.v}],
             d1.active, d1.all)
  BY <1>1, <1>6, SRemEffect
<1> HIDE DEF e
<1>9. /\ e.vacancy = db.vacancy /\ e.applicants = [db.applicants EXCEPT ![key] = app]
      /\ e.userApps = [db.userApps EXCEPT ![r.u] = @ \ {r.v}] /\ e.active = db.active
      /\ e.all = db.all
  BY <1>7, <1>8 DEF Fields
<1>10. Filed(e)
  <2>1. Filed(db)
    BY <1>2 DEF SerialInv
  <2>2. ASSUME NEW w \in Vacancies, NEW x \in Users, e.applicants[<<w, x>>] # NoApplication
        PROVE  db.applicants[<<w, x>>] # NoApplication
    <3>1. CASE w = r.v /\ x = r.u
      BY <1>3, <3>1
    <3>2. CASE ~(w = r.v /\ x = r.u)
      <4>1. <<w, x>> \in Pairs /\ <<w, x>> # key
        BY <1>1, <3>2 DEF Pairs
      <4> QED
        BY <1>2, <1>9, <2>2, <4>1 DEF Data
    <3> QED
      BY <3>1, <3>2
  <2> QED
    BY <1>9, <2>1, <2>2 DEF Filed
<1> HIDE DEF app, one, two
<1>11. /\ SerialInv' /\ started' = started
       /\ Settled.vacancy = db.vacancy /\ Settled.vacancy' = e.vacancy
       /\ Settled.applicants = db.applicants /\ Settled.applicants' = e.applicants
       /\ Settled.userApps = db.userApps /\ Settled.userApps' = e.userApps
       /\ Settled.active = db.active /\ Settled.active' = e.active
       /\ SettledLocks = locks /\ SettledLocks' = locks
  BY <1>1, <1>3, <1>6, <1>10, SendShows
<1>12. Board!Offered(r.v, r.u)
  BY <1>1, <1>2, <1>11, SameRecords DEF ReadByDecision, Open, Board!Offered, Board!HasRecord
<1>13. Board!WithStatus(db.applicants[key], "rejected") = app
  BY <1>3, SameRecords DEF app
<1>14. Board!RejectApplication(r.v, r.u)
  BY <1>9, <1>11, <1>12, <1>13 DEF Board!RejectApplication
<1> QED
  BY <1>1, <1>11, <1>14

(* A vacancy is closed, by an operator or by the expirer, whose closings   *)
(* were shown already when it took the clock.                              *)
LEMMA ClosedTwice == \A vac \in Vacancy : AfterClose(AfterClose(vac)) = AfterClose(vac)
  BY DEF AfterClose, Vacancy

LEMMA WritesClosing ==
  ASSUME Alone, TypeInv, TypeInv', BookInv, SerialInv, CloseGetVac(Only)
  PROVE  SerialInv' /\ (Board!Next \/ UNCHANGED Board!vars)
<1> DEFINE r == req[Only]
           new == AfterClose(VacOf(Only))
           one == SetVacancy(r.v, new)
           two == SRemActive(r.v)
           d1 == Run(db, one)
           e == Run(d1, two)
<1>1. /\ r.op \in {"close", "expire"} /\ r.at = "close" /\ r.pipe = <<>> /\ r \in Request
      /\ Only \in Procs /\ r.v \in Vacancies /\ Read /\ LocksOf(locks, r) = locks
  <2>1. /\ r.op \in Ops \cup {"none"} /\ r.at = "close" /\ r \in Request /\ Only \in Procs
        /\ Fits(r) /\ Course(r) /\ Read
    BY DEF CloseGetVac, SerialInv, Alone, TypeInv, Request
  <2>2. r.op \in {"close", "expire"}
    BY <2>1, OpsAssumption DEF Course
  <2> QED
    BY <2>1, <2>2 DEF Course, Fits, LocksOf
<1>2. /\ After = db /\ db \in Data /\ db' = db /\ locks' = locks /\ started' = started
  BY <1>1, AfterReads DEF TypeInv, Read
<1>3. VacOf(Only) = db.vacancy[r.v] /\ Send(Only, <<one, two>>)
  BY DEF CloseGetVac, VacOf
<1>4. ~Missing(db.vacancy[r.v])
  BY <1>1 DEF BookInv, Booked, ExistsIn
<1>5. new \in Vacancy /\ ~Missing(new) /\ AfterClose(new) = new
  BY <1>1, <1>2, <1>3, ClosedExists, ClosedTwice DEF Data
<1>6. one \in Command /\ two \in Command
  BY <1>1, <1>5 DEF Command, SetVacancy, SRemActive
<1>7. e = RunAll(db, <<one, two>>) /\ d1 \in Data /\ e \in Data
  BY <1>2, <1>6, RunAllTwo, RunTypes
<1>8. Fields(d1, [db.vacancy EXCEPT ![r.v] = new], db.applicants, db.userApps, db.active, db.all)
  BY <1>1, <1>2, <1>5, SetEffect
<1> HIDE DEF d1
<1>9. Fields(e, d1.vacancy, d1.applicants, d1.userApps, d1.active \ {r.v}, d1.all)
  BY <1>1, <1>7, InactiveEffect
<1> HIDE DEF e
<1>10. /\ e.vacancy = [db.vacancy EXCEPT ![r.v] = new] /\ e.applicants = db.applicants
       /\ e.userApps = db.userApps /\ e.active = db.active \ {r.v} /\ e.all = db.all
  BY <1>8, <1>9 DEF Fields
<1>11. Filed(e)
  <2>1. Filed(db)
    BY <1>2 DEF SerialInv
  <2> QED
    BY <1>2, <1>4, <1>5, <1>10, <2>1 DEF Filed, Data
<1> HIDE DEF new, one, two
<1>12. CASE r.op = "close"
  <2>1. /\ SerialInv' /\ started' = started
        /\ Settled.vacancy = db.vacancy /\ Settled.vacancy' = e.vacancy
        /\ Settled.applicants = db.applicants /\ Settled.applicants' = e.applicants
        /\ Settled.userApps = db.userApps /\ Settled.userApps' = e.userApps
        /\ Settled.active = db.active /\ Settled.active' = e.active
        /\ SettledLocks = locks /\ SettledLocks' = locks
    BY <1>1, <1>3, <1>7, <1>11, <1>12, SendShows
  <2>2. Board!Created(r.v)
    BY <1>4, <2>1, SameRecords DEF Board!Created
  <2>3. Board!AfterClose(db.vacancy[r.v]) = new
    BY <1>3, SameRecords DEF new
  <2>4. Board!CloseVacancy(r.v)
    BY <1>10, <2>1, <2>2, <2>3 DEF Board!CloseVacancy
  <2> QED
    BY <1>1, <2>1, <2>4 DEF Board!Next
<1>13. CASE r.op = "expire"
  <2>1. PICK q : /\ req' = [req EXCEPT ![Only] = q] /\ q.op = "expire" /\ q.at = "pipe"
                 /\ q.u = r.u /\ q.due = r.due /\ q.pipe = <<one, two>>
    BY <1>3, <1>13, Sent
  <2>2. Course(q) /\ Reading(e, locks', q) /\ LocksOf(locks', q) = locks
    BY <1>2, <2>1 DEF Course, Reading, ReadByExpirer, LocksOf
  <2>3. e = RunAll(db', q.pipe)
    BY <1>2, <1>7, <2>1
  <2>4. /\ SerialInv' /\ Settled.vacancy' = Vacs(e, q) /\ Settled.applicants' = e.applicants
        /\ Settled.userApps' = Jobs(e, q) /\ Settled.active' = Actives(e, q)
        /\ SettledLocks' = locks
    BY <1>11, <2>1, <2>2, <2>3, StepTo
  <2>5. /\ Settled.vacancy = Vacs(db, r) /\ Settled.applicants = db.applicants
        /\ Settled.userApps = Jobs(db, r) /\ Settled.active = Actives(db, r)
        /\ SettledLocks = locks
    BY <1>1, <1>2, ShownNow
  <2>6. ToClose(r) = r.due \cup {r.v} /\ ToClose(q) = r.due
    BY <1>1, <1>13, <2>1 DEF ToClose
  <2>7. ToRefill(db, r) = {} /\ ToRefill(e, q) = {}
    BY <1>13, <2>1 DEF ToRefill
  <2>8. Jobs(e, q) = Jobs(db, r)
    BY <1>10, <2>1, <2>7 DEF Jobs
  <2>9. Actives(e, q) = Actives(db, r)
    BY <1>10, <2>6 DEF Actives
  <2>10. Vacs(e, q) = Vacs(db, r)
    <3>1. ASSUME NEW x \in Vacancies
          PROVE  (IF x \in r.due THEN AfterClose(e.vacancy[x]) ELSE e.vacancy[x])
                   = IF x \in r.due \cup {r.v} THEN AfterClose(db.vacancy[x]) ELSE db.vacancy[x]
      <4>1. e.vacancy[x] = IF x = r.v THEN new ELSE db.vacancy[x]
        BY <1>2, <1>10 DEF Data
      <4>2. x = r.v => AfterClose(db.vacancy[x]) = new
        BY <1>3 DEF new
      <4> QED
        BY <1>5, <4>1, <4>2
    <3> QED
      BY <2>6, <3>1 DEF Vacs
  <2> QED
    BY <1>2, <1>10, <2>4, <2>5, <2>8, <2>9, <2>10 DEF Board!vars
<1> QED
  BY <1>1, <1>12, <1>13

(* The expirer takes effect when it takes the clock. *)
LEMMA ExpiresDue ==
  ASSUME Alone, TypeInv, TypeInv', SerialInv, ExpireNow(Only), ~Done(Only)
  PROVE  SerialInv' /\ Board!ExpireVacancies
<1> DEFINE r == req[Only]
           due == r.due \cap started
           q == [r EXCEPT !.at = "next", !.due = due]
<1>1. /\ r.op = "expire" /\ r.at = "now" /\ r.pipe = <<>> /\ r \in Request /\ Only \in Procs
      /\ LocksOf(locks, r) = locks /\ ReadByExpirer(db, r) /\ Bare(r) /\ Read
  BY ExpireCourse DEF ExpireNow, Bare
<1>2. /\ After = db /\ db \in Data /\ db' = db /\ locks' = locks /\ started' = started
      /\ started \subseteq Vacancies
  BY <1>1, AfterReads DEF TypeInv, Read
<1>3. due # {} /\ req' = [req EXCEPT ![Only] = q]
  BY <1>1 DEF ExpireNow, TypeInv
<1>4. q.op = "expire" /\ q.at = "next" /\ q.u = r.u /\ q.due = due /\ q.pipe = <<>>
  BY <1>1 DEF Request
<1> HIDE DEF q
<1>5. due = {v \in started : db.vacancy[v].status = "active"}
  <2>1. r.due = {v \in db.all : db.vacancy[v].status = "active"}
    BY <1>1 DEF ReadByExpirer
  <2>2. \A v \in started : db.vacancy[v].status = "active" => v \in db.all
    BY <1>2 DEF SerialInv, Filed, Missing
  <2> QED
    BY <2>1, <2>2
<1> HIDE DEF due
<1>6. Course(q) /\ Reading(db, locks', q) /\ LocksOf(locks', q) = locks
  BY <1>2, <1>4 DEF Course, Reading, ReadByExpirer, LocksOf
<1>7. db = RunAll(db', q.pipe) /\ Filed(db)
  BY <1>2, <1>4, RunAllEmpty DEF SerialInv
<1>8. /\ SerialInv' /\ Settled.vacancy' = Vacs(db, q) /\ Settled.applicants' = db.applicants
      /\ Settled.userApps' = Jobs(db, q) /\ Settled.active' = Actives(db, q)
      /\ SettledLocks' = locks
  BY <1>3, <1>6, <1>7, StepTo
<1>9. /\ Settled.vacancy = Vacs(db, r) /\ Settled.applicants = db.applicants
      /\ Settled.userApps = Jobs(db, r) /\ Settled.active = Actives(db, r)
      /\ SettledLocks = locks
  BY <1>1, <1>2, ShownNow
<1>10. Vacs(db, r) = db.vacancy /\ Jobs(db, r) = db.userApps /\ Actives(db, r) = db.active
  BY <1>1, <1>2, Plain
<1>11. ToClose(q) = due /\ ToRefill(db, q) = {}
  BY <1>4 DEF ToClose, ToRefill
<1>12. Jobs(db, q) = db.userApps
  BY <1>2, <1>11 DEF Jobs, Data
<1>13. /\ Vacs(db, q) = [v \in Vacancies |-> IF v \in due THEN AfterClose(db.vacancy[v])
                                             ELSE db.vacancy[v]]
       /\ Actives(db, q) = db.active \ due
  BY <1>11 DEF Vacs, Actives
<1>14. Board!Expired = due
  BY <1>5, <1>9, <1>10 DEF Board!Expired
<1>15. \A vac : Board!AfterClose(vac) = AfterClose(vac)
  BY SameRecords
<1>16. Board!ExpireVacancies
  BY <1>2, <1>3, <1>8, <1>9, <1>10, <1>12, <1>13, <1>14, <1>15 DEF Board!ExpireVacancies
<1> QED
  BY <1>8, <1>16

-----------------------------------------------------------------------------
(* What an accept makes of the records.                                    *)
Pending(apps, v, u) == {w \in Users \ {u} : apps[<<v, w>>].status = "pending"}
Leaving(apps, v, u, vac) == IF vac.status = "filled" THEN Pending(apps, v, u) ELSE {}
AppsAccepted(apps, v, u, app, out) ==
  [a \in Pairs |-> IF a = <<v, u>> THEN WithStatus(app, "accepted")
                   ELSE IF a[1] = v /\ a[2] \in out THEN WithStatus(apps[a], "rejected")
                   ELSE apps[a]]

LEMMA AcceptedExists ==
  ASSUME NEW vac \in Vacancy, NEW app \in Application, ~Missing(vac)
  PROVE  ~Missing(AfterAccept(vac, app))
<1>1. AfterAccept(vac, app).status \in {"filled", vac.status}
  BY DEF AfterAccept, Vacancy
<1> QED
  BY <1>1 DEF Missing

(* What an accept has read, and the effect of its first two commands.      *)
LEMMA Accepting ==
  ASSUME Alone, TypeInv, SerialInv, req[Only].op = "accept", req[Only].at \in {"getvac", "hgetall"},
         NEW vac, vac = AfterAccept(VacOf(Only), req[Only].app), ~Full(VacOf(Only)),
         NEW d, d = RunAll(db, AcceptWrites(req[Only], vac))
  PROVE  /\ req[Only].pipe = <<>> /\ req[Only].v \in Vacancies /\ req[Only].u \in Users
         /\ req[Only] \in Request /\ LocksOf(locks, req[Only]) = locks /\ After = db /\ db \in Data
         /\ req[Only].app = db.applicants[<<req[Only].v, req[Only].u>>]
         /\ req[Only].app.status \notin {"none", "accepted"}
         /\ Open(db, req[Only].v, req[Only].u) /\ VacOf(Only) = db.vacancy[req[Only].v]
         /\ ~Missing(db.vacancy[req[Only].v]) /\ ~Missing(vac)
         /\ AcceptWrites(req[Only], vac) \in Seq(Command) /\ d \in Data
         /\ Fields(d, [db.vacancy EXCEPT ![req[Only].v] = vac],
                   [db.applicants EXCEPT
                      ![<<req[Only].v, req[Only].u>>] = WithStatus(req[Only].app, "accepted")],
                   db.userApps, db.active, db.all)
<1> DEFINE r == req[Only]
           key == <<r.v, r.u>>
           app == WithStatus(r.app, "accepted")
           one == HSetApp(r.v, r.u, app)
           two == SetVacancy(r.v, vac)
           d1 == Run(db, one)
<1>1. /\ r.pipe = <<>> /\ r \in Request /\ Only \in Procs /\ r.v \in Vacancies
      /\ LocksOf(locks, r) = locks /\ Fits(r)
  BY DEF SerialInv, Course, Alone, TypeInv, Fits, LocksOf
<1>2. r.u \in Users
  BY <1>1 DEF Fits, Request
<1>3. /\ ReadByDecision(db, r) /\ After = db /\ db \in Data /\ Filed(db)
  BY <1>1, AfterReads DEF SerialInv, Reading, TypeInv
<1>4. /\ r.app = db.applicants[key] /\ r.app.status \notin {"none", "accepted"}
      /\ Open(db, r.v, r.u) /\ VacOf(Only) = db.vacancy[r.v]
  BY <1>3 DEF ReadByDecision, VacOf
<1>5. ~Missing(db.vacancy[r.v])
  BY <1>1, <1>2, <1>3, <1>4 DEF Filed, NoApplication
<1>6. app \in Application /\ vac \in Vacancy /\ ~Missing(vac)
  <2>1. r.app \in Application /\ db.vacancy[r.v] \in Vacancy
    BY <1>1, <1>3 DEF Request, Data
  <2>2. app \in Application
    BY <2>1 DEF WithStatus, Application
  <2>3. vac \in Vacancy /\ ~Missing(vac)
    BY <1>4, <1>5, <2>1, RecordTypes, AcceptedExists
  <2> QED
    BY <2>2, <2>3
<1>7. one \in Command /\ two \in Command
  BY <1>1, <1>2, <1>6 DEF Command, HSetApp, SetVacancy
<1>8. AcceptWrites(r, vac) = <<one, two>> /\ AcceptWrites(r, vac) \in Seq(Command)
  BY <1>7 DEF AcceptWrites
<1>9. d = Run(d1, two) /\ d1 \in Data /\ d \in Data
  BY <1>3, <1>7, <1>8, RunAllTwo, RunTypes
<1>10. Fields(d1, db.vacancy, [db.applicants EXCEPT ![key] = app], db.userApps, db.active, db.all)
  BY <1>1, <1>2, <1>3, <1>6, HSetEffect
<1> HIDE DEF d1
<1>11. Fields(d, [d1.vacancy EXCEPT ![r.v] = vac], d1.applicants, d1.userApps, d1.active, d1.all)
  BY <1>1, <1>6, <1>9, SetEffect
<1>12. Fields(d, [db.vacancy EXCEPT ![r.v] = vac], [db.applicants EXCEPT ![key] = app],
              db.userApps, db.active, db.all)
  BY <1>10, <1>11 DEF Fields
<1> HIDE DEF one, two, key, app
<1>13. key = <<r.v, r.u>> /\ app = WithStatus(r.app, "accepted")
  BY DEF key, app
<1> QED
  BY <1>1, <1>2, <1>3, <1>4, <1>5, <1>6, <1>8, <1>9, <1>12, <1>13

(* The accept of VacancyBoard, whichever of its two reads was the last.    *)
LEMMA SharesAccept ==
  ASSUME Alone, TypeInv, TypeInv', SerialInv, Read, NEW pipe, Send(Only, pipe),
         req[Only].op = "accept", req[Only].at \in {"getvac", "hgetall"},
         NEW vac, vac = AfterAccept(VacOf(Only), req[Only].app), ~Full(VacOf(Only)),
         NEW out, out = Leaving(db.applicants, req[Only].v, req[Only].u, vac),
         NEW e, e = RunAll(db, pipe),
         Fields(e, [db.vacancy EXCEPT ![req[Only].v] = vac],
                AppsAccepted(db.applicants, req[Only].v, req[Only].u, req[Only].app, out),
                TurnedJobs(db.userApps, req[Only].v, out),
                IF vac.status = "filled" THEN db.active \ {req[Only].v} ELSE db.active, db.all)
  PROVE  SerialInv' /\ req[Only].v \in Vacancies /\ req[Only].u \in Users
         /\ Board!AcceptApplication(req[Only].v, req[Only].u)
<1> DEFINE r == req[Only]
           key == <<r.v, r.u>>
<1>1. /\ r.pipe = <<>> /\ r.v \in Vacancies /\ r.u \in Users /\ r \in Request
      /\ LocksOf(locks, r) = locks /\ After = db /\ db \in Data /\ r.app = db.applicants[key]
      /\ r.app.status \notin {"none", "accepted"} /\ Open(db, r.v, r.u)
      /\ VacOf(Only) = db.vacancy[r.v] /\ ~Missing(db.vacancy[r.v]) /\ ~Missing(vac)
  BY Accepting
<1>a. e.vacancy = [db.vacancy EXCEPT ![r.v] = vac] /\ e.all = db.all
      /\ e.applicants = AppsAccepted(db.applicants, r.v, r.u, r.app, out)
      /\ e.userApps = TurnedJobs(db.userApps, r.v, out)
      /\ e.active = IF vac.status = "filled" THEN db.active \ {r.v} ELSE db.active
  BY DEF Fields
<1>2. Filed(e)
  <2>1. Filed(db)
    BY <1>1 DEF SerialInv
  <2>2. ASSUME NEW w \in Vacancies
        PROVE  Missing(e.vacancy[w]) <=> Missing(db.vacancy[w])
    <3>1. e.vacancy[w] = IF w = r.v THEN vac ELSE db.vacancy[w]
      BY <1>1, <1>a DEF Data
    <3> QED
      BY <1>1, <3>1
  <2>3. ASSUME NEW w \in Vacancies, NEW x \in Users, e.applicants[<<w, x>>] # NoApplication
        PROVE  ~Missing(db.vacancy[w])
    <3>1. CASE w = r.v
      BY <1>1, <3>1
    <3>2. CASE w # r.v
      <4>1. <<w, x>> \in Pairs /\ <<w, x>> # key /\ <<w, x>>[1] # r.v
        BY <3>2 DEF Pairs
      <4>2. e.applicants[<<w, x>>] = db.applicants[<<w, x>>]
        BY <1>a, <4>1 DEF AppsAccepted
      <4> QED
        BY <2>1, <2>3, <4>2 DEF Filed
    <3> QED
      BY <3>1, <3>2
  <2> QED
    BY <1>a, <2>1, <2>2, <2>3 DEF Filed
<1>3. /\ SerialInv' /\ started' = started
      /\ Settled.vacancy = db.vacancy /\ Settled.vacancy' = e.vacancy
      /\ Settled.applicants = db.applicants /\ Settled.applicants' = e.applicants
      /\ Settled.userApps = db.userApps /\ Settled.userApps' = e.userApps
      /\ Settled.active = db.active /\ Settled.active' = e.active
      /\ SettledLocks = locks /\ SettledLocks' = locks
  BY <1>1, <1>2, SendShows
<1>4. Board!Offered(r.v, r.u)
  BY <1>1, <1>3, SameRecords DEF Open, Board!Offered, Board!HasRecord
<1>5. Board!HasRoom(db.vacancy[r.v])
  <2>1. db.vacancy[r.v] \in Vacancy /\ ~Full(db.vacancy[r.v])
    BY <1>1 DEF Data
  <2> QED
    BY <2>1 DEF Board!HasRoom, Full, Vacancy
<1>6. Board!AfterAccept(db.vacancy[r.v], r.app) = vac
  BY <1>1, SameRecords
<1> DEFINE app == Settled.applicants[<<r.v, r.u>>]
           new == Board!AfterAccept(Settled.vacancy[r.v], app)
           gone == IF new.status = "filled" THEN Board!Displaced(r.v, r.u) ELSE {}
<1>7. app = r.app /\ new = vac
  BY <1>1, <1>3, <1>6
<1>8. gone = out
  BY <1>3, <1>7 DEF Board!Displaced, Leaving, Pending
<1>9. Settled.applicants' = [a \in Board!Pairs |->
        IF a = <<r.v, r.u>> THEN Board!WithStatus(app, "accepted")
        ELSE IF a[1] = r.v /\ a[2] \in gone THEN Board!WithStatus(Settled.applicants[a], "rejected")
        ELSE Settled.applicants[a]]
  <2> HIDE DEF gone, app
  <2>1. Settled.applicants' = AppsAccepted(Settled.applicants, r.v, r.u, app, gone)
    BY <1>3, <1>7, <1>8, <1>a
  <2> QED
    BY <2>1, SameRecords DEF AppsAccepted
<1>10. Settled.userApps' = [w \in Users |-> IF w \in gone THEN Settled.userApps[w] \ {r.v}
                                            ELSE Settled.userApps[w]]
  <2> HIDE DEF gone
  <2>1. Settled.userApps' = TurnedJobs(Settled.userApps, r.v, gone)
    BY <1>3, <1>8, <1>a
  <2> QED
    BY <2>1 DEF TurnedJobs
<1>11. /\ Settled.vacancy' = [Settled.vacancy EXCEPT ![r.v] = new]
       /\ Settled.active' = IF new.status = "filled" THEN Settled.active \ {r.v} ELSE Settled.active
       /\ SettledLocks' = SettledLocks /\ started' = started
       /\ app.status # "accepted" /\ Board!HasRoom(Settled.vacancy[r.v])
  <2> HIDE DEF new, app
  <2> QED
    BY <1>1, <1>3, <1>5, <1>7, <1>a
<1>12. Board!AcceptApplication(r.v, r.u)
  BY <1>4, <1>9, <1>10, <1>11 DEF Board!AcceptApplication
<1> QED
  BY <1>1, <1>3, <1>12

(* An accept that leaves places. *)
LEMMA AcceptsOne ==
  ASSUME Alone, TypeInv, TypeInv', SerialInv, AcceptGetVac(Only), ~Done(Only),
         req'[Only].at # "hgetall"
  PROVE  SerialInv' /\ req[Only].v \in Vacancies /\ req[Only].u \in Users
         /\ Board!AcceptApplication(req[Only].v, req[Only].u)
<1> DEFINE r == req[Only]
           vac == AfterAccept(VacOf(Only), r.app)
           pipe == AcceptWrites(r, vac)
           e == RunAll(db, pipe)
<1>1. r.op = "accept" /\ r.at = "getvac" /\ Read /\ ~Full(VacOf(Only))
  BY DEF AcceptGetVac
<1>2. vac.status # "filled" /\ Send(Only, pipe)
  <2>1. ASSUME vac.status = "filled" PROVE FALSE
    <3>1. req' = [req EXCEPT ![Only].at = "hgetall", ![Only].vac = vac]
      BY <1>1, <2>1 DEF AcceptGetVac
    <3>2. req \in [Procs -> Request] /\ Only \in Procs
      BY DEF TypeInv, Alone
    <3>3. req'[Only].at = "hgetall"
      BY <3>1, <3>2 DEF Request
    <3> QED
      BY <3>3
  <2> QED
    BY <1>1, <2>1 DEF AcceptGetVac
<1> HIDE DEF vac
<1>3. /\ r.v \in Vacancies /\ r.u \in Users /\ db \in Data /\ r.app = db.applicants[<<r.v, r.u>>]
      /\ Fields(e, [db.vacancy EXCEPT ![r.v] = vac],
                [db.applicants EXCEPT ![<<r.v, r.u>>] = WithStatus(r.app, "accepted")],
                db.userApps, db.active, db.all)
  BY <1>1, Accepting DEF vac
<1> HIDE DEF e
<1>4. db.applicants \in [Pairs -> Application] /\ db.userApps = [w \in Users |-> db.userApps[w]]
  BY <1>3 DEF Data
<1>5. e.applicants = AppsAccepted(db.applicants, r.v, r.u, r.app, {})
  <2>1. e.applicants = [db.applicants EXCEPT ![<<r.v, r.u>>] = WithStatus(r.app, "accepted")]
    BY <1>3 DEF Fields
  <2> QED
    BY <1>4, <2>1 DEF AppsAccepted
<1>6. e.userApps = TurnedJobs(db.userApps, r.v, {})
  BY <1>3, <1>4 DEF Fields, TurnedJobs
<1>7. Fields(e, [db.vacancy EXCEPT ![r.v] = vac],
             AppsAccepted(db.applicants, r.v, r.u, r.app, {}), TurnedJobs(db.userApps, r.v, {}),
             IF vac.status = "filled" THEN db.active \ {r.v} ELSE db.active, db.all)
  BY <1>2, <1>3, <1>5, <1>6 DEF Fields
<1>8. vac = AfterAccept(VacOf(Only), r.app) /\ e = RunAll(db, pipe)
      /\ {} = Leaving(db.applicants, r.v, r.u, vac)
  BY <1>2 DEF vac, e, Leaving
<1> HIDE DEF pipe
<1> QED
  BY <1>1, <1>2, <1>7, <1>8, SharesAccept

(* An accept that fills the vacancy turns the pending applicants away.     *)
LEMMA AcceptsLast ==
  ASSUME Alone, TypeInv, TypeInv', SerialInv, AcceptHGetAll(Only)
  PROVE  SerialInv' /\ req[Only].v \in Vacancies /\ req[Only].u \in Users
         /\ Board!AcceptApplication(req[Only].v, req[Only].u)
<1> DEFINE r == req[Only]
           vac == r.vac
           out == Pending(db.applicants, r.v, r.u)
           first == AcceptWrites(r, vac)
           last == <<SRemActive(r.v)>>
           d == RunAll(db, first)
<1>1. r.op = "accept" /\ r.at = "hgetall" /\ Read
  BY DEF AcceptHGetAll
<1>2. PICK order \in SetToSeqs(out) : Send(Only, first \o TurnedAway(r.v, order) \o last)
  BY DEF AcceptHGetAll, Pending
<1> DEFINE turned == TurnedAway(r.v, order)
           pipe == first \o turned \o last
           f == RunAll(d, turned)
           e == Run(f, SRemActive(r.v))
<1>3. vac = AfterAccept(VacOf(Only), r.app) /\ vac.status = "filled" /\ ~Full(VacOf(Only))
  <2>1. r.pipe = <<>>
    BY <1>1 DEF SerialInv, Course
  <2>2. ReadByDecision(db, r)
    BY <1>1, <2>1, AfterReads DEF SerialInv, Reading
  <2> QED
    BY <1>1, <2>2 DEF ReadByDecision, VacOf
<1>4. /\ r.v \in Vacancies /\ r.u \in Users /\ db \in Data /\ r.app = db.applicants[<<r.v, r.u>>]
      /\ first \in Seq(Command) /\ d \in Data
      /\ Fields(d, [db.vacancy EXCEPT ![r.v] = vac],
                [db.applicants EXCEPT ![<<r.v, r.u>>] = WithStatus(r.app, "accepted")],
                db.userApps, db.active, db.all)
  BY <1>1, <1>3, Accepting
<1> HIDE DEF first, d
<1>5. turned \in Seq(Command)
  <2>1. out \in SUBSET Users
    BY DEF Pending
  <2> HIDE DEF out
  <2> QED
    BY <1>2, <1>4, <2>1, TurnedAwayTypes
<1>6. Fields(f, d.vacancy, TurnedApps(d.applicants, db.applicants, r.v, out),
             TurnedJobs(d.userApps, r.v, out), d.active, d.all) /\ f \in Data
  <2>1. out \in SUBSET Users
    BY DEF Pending
  <2> HIDE DEF out
  <2>2. Fields(f, d.vacancy, TurnedApps(d.applicants, db.applicants, r.v, out),
               TurnedJobs(d.userApps, r.v, out), d.active, d.all)
    BY <1>2, <1>4, <2>1, TurnedAwayRun
  <2> QED
    BY <1>4, <1>5, <2>2, RunAllTypes
<1>7. e = RunAll(db, pipe)
  <2>1. SRemActive(r.v) \in Command
    BY <1>4 DEF SRemActive, Command
  <2> HIDE DEF turned
  <2>2. first \o turned \in Seq(Command) /\ last \in Seq(Command)
    BY <1>4, <1>5, <2>1
  <2>3. RunAll(db, first \o turned) = f
    BY <1>4, <1>5, RunAllConcat DEF d
  <2> DEFINE both == first \o turned
  <2> HIDE DEF both, last
  <2>4. RunAll(db, both \o last) = RunAll(RunAll(db, both), last)
    BY <2>2, RunAllConcat DEF both
  <2>5. RunAll(db, pipe) = RunAll(f, last)
    BY <2>3, <2>4 DEF both
  <2> QED
    BY <2>1, <2>5, RunAllOne DEF last
<1> HIDE DEF turned, pipe, f
<1>8. Fields(e, f.vacancy, f.applicants, f.userApps, f.active \ {r.v}, f.all)
  BY <1>4, <1>6, InactiveEffect
<1> HIDE DEF e
<1>9. e.applicants = AppsAccepted(db.applicants, r.v, r.u, r.app, out)
  <2>1. e.applicants = TurnedApps(d.applicants, db.applicants, r.v, out)
    BY <1>6, <1>8 DEF Fields
  <2>2. \A a \in Pairs : a = <<r.v, r.u>> => a[1] = r.v /\ a[2] \notin out
    BY DEF Pending
  <2>3. db.applicants \in [Pairs -> Application]
    BY <1>4 DEF Data
  <2>4. d.applicants = [db.applicants EXCEPT ![<<r.v, r.u>>] = WithStatus(r.app, "accepted")]
    BY <1>4 DEF Fields
  <2> HIDE DEF out
  <2>5. \A a \in Pairs : d.applicants[a] = IF a = <<r.v, r.u>> THEN WithStatus(r.app, "accepted")
                                           ELSE db.applicants[a]
    BY <2>3, <2>4
  <2> QED
    BY <2>1, <2>2, <2>5 DEF TurnedApps, AppsAccepted
<1>10. Fields(e, [db.vacancy EXCEPT ![r.v] = vac],
              AppsAccepted(db.applicants, r.v, r.u, r.app, out), TurnedJobs(db.userApps, r.v, out),
              IF vac.status = "filled" THEN db.active \ {r.v} ELSE db.active, db.all)
  BY <1>3, <1>4, <1>6, <1>8, <1>9 DEF Fields
<1>11. out = Leaving(db.applicants, r.v, r.u, vac) /\ Send(Only, pipe)
  BY <1>2, <1>3 DEF Leaving, pipe, turned
<1> HIDE DEF out, vac
<1> QED
  BY <1>1, <1>3, <1>7, <1>10, <1>11, SharesAccept

-----------------------------------------------------------------------------
(* A list of jobs counts as refilled from its beginning.                   *)
LEMMA Refills ==
  ASSUME NEW d \in Data, Filed(d), NEW q, q.op \in {"cancel", "myjobs"},
         q.at \in {"pipe", "smembers"}, q.u \in Users
  PROVE  /\ Vacs(d, q) = d.vacancy /\ Actives(d, q) = d.active
         /\ Jobs(d, q) = [d.userApps EXCEPT ![q.u] = Board!Refilled(@, d.applicants, q.u)]
<1>1. ToClose(q) = {}
  BY DEF ToClose
<1>2. Vacs(d, q) = d.vacancy /\ Actives(d, q) = d.active
  BY <1>1 DEF Vacs, Actives, Data
<1>3. ToRefill(d, q) = IF d.userApps[q.u] = {} THEN WithRecord(d, d.all, q.u) ELSE {}
  BY DEF ToRefill
<1>4. WithRecord(d, d.all, q.u) = {v \in Vacancies : d.applicants[<<v, q.u>>] # NoApplication}
  BY DEF WithRecord, Filed, Data
<1>5. Board!Refilled(d.userApps[q.u], d.applicants, q.u)
        = IF d.userApps[q.u] = {} THEN WithRecord(d, d.all, q.u) ELSE d.userApps[q.u]
  BY <1>4, SameRecords DEF Board!Refilled
<1>6. d.userApps[q.u] \cup ToRefill(d, q) = Board!Refilled(d.userApps[q.u], d.applicants, q.u)
  BY <1>3, <1>5
<1>7. Jobs(d, q) = [d.userApps EXCEPT ![q.u] = Board!Refilled(d.userApps[q.u], d.applicants, q.u)]
  BY <1>6 DEF Jobs, Data
<1> QED
  BY <1>2, <1>7

LEMMA Lists ==
  ASSUME Alone, TypeInv, TypeInv', SerialInv, Read, Bare(req[Only]), req[Only].pipe = <<>>,
         LocksOf(locks, req[Only]) = locks, NEW u \in Users,
         NEW q, req' = [req EXCEPT ![Only] = q], q.op \in {"cancel", "myjobs"},
         q.at = "smembers", q.u = u, q.pipe = <<>>
  PROVE  SerialInv' /\ Board!ListApplications(u)
<1>1. /\ db' = db /\ locks' = locks /\ started' = started /\ After = db /\ db \in Data
      /\ Filed(db)
  BY AfterReads DEF Read, TypeInv, SerialInv
<1>2. Course(q) /\ Reading(db, locks', q) /\ LocksOf(locks', q) = locks
  BY <1>1 DEF Course, Reading, ReadByJobs, LocksOf
<1>3. db = RunAll(db', q.pipe)
  BY <1>1, RunAllEmpty
<1>4. /\ SerialInv' /\ Settled.vacancy' = Vacs(db, q) /\ Settled.applicants' = db.applicants
      /\ Settled.userApps' = Jobs(db, q) /\ Settled.active' = Actives(db, q)
      /\ SettledLocks' = locks
  BY <1>1, <1>2, <1>3, StepTo
<1>5. /\ Settled.vacancy = Vacs(db, req[Only]) /\ Settled.applicants = db.applicants
      /\ Settled.userApps = Jobs(db, req[Only]) /\ Settled.active = Actives(db, req[Only])
      /\ SettledLocks = locks
  BY <1>1, ShownNow
<1>6. /\ Vacs(db, req[Only]) = db.vacancy /\ Jobs(db, req[Only]) = db.userApps
      /\ Actives(db, req[Only]) = db.active
  BY <1>1, Plain
<1>7. /\ Vacs(db, q) = db.vacancy /\ Actives(db, q) = db.active
      /\ Jobs(db, q) = [db.userApps EXCEPT ![u] = Board!Refilled(@, db.applicants, u)]
  BY <1>1, Refills
<1> QED
  BY <1>1, <1>4, <1>5, <1>6, <1>7 DEF Board!ListApplications

LEMMA ListsJobsFirst ==
  ASSUME Alone, TypeInv, TypeInv', SerialInv, NEW u \in Users, MyJobsBegin(Only, u)
  PROVE  SerialInv' /\ Board!ListApplications(u)
<1>1. ~Busy(Only) /\ Read
  BY DEF MyJobsBegin, Free
<1>2. /\ req[Only].op = "none" /\ req[Only].pipe = <<>> /\ Bare(req[Only])
      /\ LocksOf(locks, req[Only]) = locks
  BY <1>1, IdleIsNone DEF LocksOf
<1>3. PICK q : /\ req' = [req EXCEPT ![Only] = q] /\ q.op = "myjobs" /\ q.at = "smembers"
               /\ q.u = u /\ q.pipe = <<>>
  BY Started DEF MyJobsBegin
<1> QED
  BY <1>1, <1>2, <1>3, Lists

LEMMA CancelReads ==
  ASSUME Alone, TypeInv, TypeInv', SerialInv, CancelHGet(Only)
  PROVE  /\ SerialInv' /\ req[Only].u \in Users
         /\ Board!ListApplications(req[Only].u) \/ UNCHANGED Board!vars
<1> DEFINE r == req[Only]
<1>1. /\ r.op = "cancel" /\ r.at = "hget" /\ r.pipe = <<>> /\ r \in Request /\ Only \in Procs
      /\ r.u \in Users /\ Bare(r) /\ Read /\ LocksOf(locks, r) = locks
  BY DEF CancelHGet, SerialInv, Course, Bare, Alone, TypeInv, Fits, LocksOf
<1>2. CASE AppOf(Only) = NoApplication
  <2> DEFINE q == [r EXCEPT !.at = "smembers"]
  <2>1. req' = [req EXCEPT ![Only] = q]
    BY <1>1, <1>2 DEF CancelHGet, Goto, TypeInv
  <2>2. q.op = "cancel" /\ q.at = "smembers" /\ q.u = r.u /\ q.pipe = <<>>
    BY <1>1 DEF Request
  <2> HIDE DEF q
  <2> QED
    BY <1>1, <2>1, <2>2, Lists
<1>3. CASE AppOf(Only) # NoApplication
  <2> DEFINE q == [r EXCEPT !.at = "getvac", !.app = AppOf(Only)]
  <2>1. req' = [req EXCEPT ![Only] = q]
    BY <1>1, <1>3 DEF CancelHGet, TypeInv
  <2>2. /\ q.op = "cancel" /\ q.at = "getvac" /\ q.v = r.v /\ q.u = r.u /\ q.pipe = r.pipe
        /\ q.app = db.applicants[<<r.v, r.u>>]
    BY <1>1 DEF Request, AppOf
  <2> HIDE DEF q
  <2>3. Course(q) /\ Bare(q) /\ LocksOf(locks, q) = locks
    BY <1>1, <2>2 DEF Course, Bare, LocksOf
  <2>4. Reading(db, locks, q)
    BY <1>3, <2>2 DEF Reading, ReadByJobs, AppOf
  <2> QED
    BY <1>1, <2>1, <2>2, <2>3, <2>4, ReadTo
<1> QED
  BY <1>2, <1>3

(* What a cancellation writes.                                             *)
GivesBack(b, v, vac) == IF b THEN <<SetVacancy(v, vac)>> ELSE <<>>
Reopens(c, v) == IF c THEN <<SAddActive(v)>> ELSE <<>>
CancelPipe(v, u, vac, b, c) ==
  <<HDelApp(v, u), SRemApps(v, u)>> \o GivesBack(b, v, vac) \o Reopens(c, v)

LEMMA CancelEffect ==
  ASSUME NEW d \in Data, NEW v \in Vacancies, NEW u \in Users, NEW vac \in Vacancy,
         NEW b \in BOOLEAN, NEW c \in BOOLEAN, NEW e, e = RunAll(d, CancelPipe(v, u, vac, b, c))
  PROVE  /\ e \in Data
         /\ Fields(e, IF b THEN [d.vacancy EXCEPT ![v] = vac] ELSE d.vacancy,
                   [d.applicants EXCEPT ![<<v, u>>] = NoApplication],
                   [d.userApps EXCEPT ![u] = @ \ {v}],
                   IF c THEN d.active \cup {v} ELSE d.active, d.all)
<1> DEFINE one == HDelApp(v, u)
           two == SRemApps(v, u)
           first == <<one, two>>
           s == GivesBack(b, v, vac)
           t == Reopens(c, v)
           d1 == Run(d, one)
           d2 == Run(d1, two)
           d3 == RunAll(d2, s)
<1>1. /\ one \in Command /\ two \in Command /\ SetVacancy(v, vac) \in Command
      /\ SAddActive(v) \in Command
  BY DEF Command, HDelApp, SRemApps, SetVacancy, SAddActive
<1>2. first \in Seq(Command) /\ s \in Seq(Command) /\ t \in Seq(Command)
  BY <1>1 DEF GivesBack, Reopens
<1>3. d2 = RunAll(d, first) /\ d1 \in Data /\ d2 \in Data /\ d3 \in Data
  BY <1>1, <1>2, RunAllTwo, RunTypes, RunAllTypes
<1>4. Fields(d1, d.vacancy, [d.applicants EXCEPT ![<<v, u>>] = NoApplication], d.userApps,
             d.active, d.all)
  BY HDelEffect
<1> HIDE DEF d1, one
<1>5. Fields(d2, d1.vacancy, d1.applicants, [d1.userApps EXCEPT ![u] = @ \ {v}], d1.active, d1.all)
  BY <1>3, SRemEffect
<1> HIDE DEF d2, two
<1>6. Fields(d3, IF b THEN [d2.vacancy EXCEPT ![v] = vac] ELSE d2.vacancy, d2.applicants,
             d2.userApps, d2.active, d2.all)
  <2>1. CASE b
    <3>1. d3 = Run(d2, SetVacancy(v, vac))
      BY <1>1, <2>1, RunAllOne DEF GivesBack
    <3> HIDE DEF d3
    <3>2. Fields(d3, [d2.vacancy EXCEPT ![v] = vac], d2.applicants, d2.userApps, d2.active, d2.all)
      BY <1>3, <3>1, SetEffect
    <3> QED
      BY <2>1, <3>2
  <2>2. CASE ~b
    <3>1. d3 = d2
      BY <2>2, RunAllEmpty DEF GivesBack
    <3> HIDE DEF d3
    <3> QED
      BY <2>2, <3>1 DEF Fields
  <2> QED
    BY <2>1, <2>2
<1>7. e = RunAll(d3, t) /\ e \in Data
  <2> HIDE DEF first, d3, s, t
  <2> DEFINE both == first \o s
  <2>0. RunAll(d, first \o s) = RunAll(RunAll(d, first), s)
    BY <1>2, RunAllConcat
  <2>1. both \in Seq(Command) /\ RunAll(d, both) = d3
    BY <1>2, <1>3, <2>0 DEF d3
  <2> HIDE DEF both
  <2>2. RunAll(d, both \o t) = RunAll(d3, t)
    BY <1>2, <2>1, RunAllConcat
  <2>3. e = RunAll(d, both \o t)
    BY DEF both, first, one, two, s, t, CancelPipe
  <2> QED
    BY <1>2, <1>3, <2>2, <2>3, RunAllTypes
<1> HIDE DEF d3
<1>8. Fields(e, d3.vacancy, d3.applicants, d3.userApps, IF c THEN d3.active \cup {v} ELSE d3.active,
             d3.all)
  <2>1. CASE c
    <3>1. e = Run(d3, SAddActive(v))
      BY <1>1, <1>7, <2>1, RunAllOne DEF Reopens
    <3>2. Fields(Run(d3, SAddActive(v)), d3.vacancy, d3.applicants, d3.userApps,
                 d3.active \cup {v}, d3.all)
      BY <1>3, ActiveEffect
    <3> QED
      BY <2>1, <3>1, <3>2
  <2>2. CASE ~c
    <3>1. e = d3
      BY <1>7, <2>2, RunAllEmpty DEF Reopens
    <3> QED
      BY <2>2, <3>1 DEF Fields
  <2> QED
    BY <2>1, <2>2
<1> QED
  BY <1>4, <1>5, <1>6, <1>7, <1>8 DEF Fields

LEMMA CancelledExists ==
  \A vac \in Vacancy, app \in Application : ~Missing(AfterCancel(vac, app))
  BY DEF AfterCancel, Vacancy, Missing

LEMMA WritesCancellation ==
  ASSUME Alone, TypeInv, TypeInv', SerialInv, CancelGetVac(Only)
  PROVE  SerialInv' /\ req[Only].v \in Vacancies /\ req[Only].u \in Users
         /\ Board!CancelMyJob(req[Only].v, req[Only].u)
<1> DEFINE r == req[Only]
           key == <<r.v, r.u>>
           vac == AfterCancel(VacOf(Only), r.app)
           b == r.app.status = "accepted"
           c == b /\ VacOf(Only).status = "filled" /\ vac.status = "active"
           pipe == CancelPipe(r.v, r.u, vac, b, c)
           e == RunAll(db, pipe)
<1>1. /\ r.op = "cancel" /\ r.at = "getvac" /\ r.pipe = <<>> /\ r \in Request /\ Only \in Procs
      /\ r.v \in Vacancies /\ r.u \in Users /\ Bare(r) /\ Read /\ LocksOf(locks, r) = locks
  BY DEF CancelGetVac, SerialInv, Course, Bare, Alone, TypeInv, Fits, LocksOf
<1>2. /\ ReadByJobs(db, r) /\ After = db /\ db \in Data /\ db' = db /\ locks' = locks
      /\ started' = started /\ Filed(db)
  BY <1>1, AfterReads DEF SerialInv, Reading, TypeInv, Read
<1>3. Send(Only, pipe)
  BY DEF CancelGetVac, CancelPipe, GivesBack, Reopens
<1>4. /\ r.app = db.applicants[key] /\ r.app # NoApplication /\ VacOf(Only) = db.vacancy[r.v]
  BY <1>1, <1>2 DEF ReadByJobs, VacOf
<1>5. vac \in Vacancy /\ ~Missing(vac) /\ r.app \in Application
  <2>1. r.app \in Application /\ VacOf(Only) \in Vacancy
    BY <1>1, <1>2, <1>4 DEF Request, Data
  <2> QED
    BY <2>1, RecordTypes, CancelledExists
<1>6. b \in BOOLEAN /\ c \in BOOLEAN
  OBVIOUS
<1>a. c <=> b /\ db.vacancy[r.v].status = "filled" /\ vac.status = "active"
  BY <1>4
<1>b. b <=> r.app.status = "accepted"
  OBVIOUS
<1> HIDE DEF vac, b, c
<1>7. /\ e \in Data
      /\ Fields(e, IF b THEN [db.vacancy EXCEPT ![r.v] = vac] ELSE db.vacancy,
                [db.applicants EXCEPT ![key] = NoApplication],
                [db.userApps EXCEPT ![r.u] = @ \ {r.v}],
                IF c THEN db.active \cup {r.v} ELSE db.active, db.all)
  <2> HIDE DEF e
  <2>1. e = RunAll(db, CancelPipe(r.v, r.u, vac, b, c))
    BY DEF e
  <2> QED
    BY <1>1, <1>2, <1>5, <1>6, <2>1, CancelEffect
<1> HIDE DEF e
<1>8. /\ e.vacancy = (IF b THEN [db.vacancy EXCEPT ![r.v] = vac] ELSE db.vacancy)
      /\ e.applicants = [db.applicants EXCEPT ![key] = NoApplication]
      /\ e.userApps = [db.userApps EXCEPT ![r.u] = @ \ {r.v}]
      /\ e.active = (IF c THEN db.active \cup {r.v} ELSE db.active) /\ e.all = db.all
  BY <1>7 DEF Fields
<1>9. Filed(e)
  <2>1. ~Missing(db.vacancy[r.v])
    BY <1>1, <1>2, <1>4 DEF Filed
  <2>2. \A w \in Vacancies : Missing(e.vacancy[w]) <=> Missing(db.vacancy[w])
    <3>1. CASE b
      BY <1>2, <1>5, <1>8, <2>1, <3>1 DEF Data
    <3>2. CASE ~b
      BY <1>8, <3>2
    <3> QED
      BY <3>1, <3>2
  <2>3. ASSUME NEW w \in Vacancies, NEW x \in Users, e.applicants[<<w, x>>] # NoApplication
        PROVE  db.applicants[<<w, x>>] # NoApplication
    <3>1. db.applicants \in [Pairs -> Application] /\ <<w, x>> \in Pairs
      BY <1>2 DEF Data, Pairs
    <3> QED
      BY <1>8, <2>3, <3>1
  <2> QED
    BY <1>2, <1>8, <2>2, <2>3 DEF Filed
<1>10. e = RunAll(db, pipe)
  BY DEF e
<1> HIDE DEF pipe
<1>11. PICK q : /\ req' = [req EXCEPT ![Only] = q] /\ q.op = "cancel" /\ q.at = "pipe"
                /\ q.u = r.u /\ q.pipe = pipe
  BY <1>1, <1>3, Sent
<1>12. Course(q) /\ Reading(e, locks', q) /\ LocksOf(locks', q) = locks
  BY <1>2, <1>11 DEF Course, Reading, ReadByJobs, LocksOf
<1>13. e = RunAll(db', q.pipe)
  BY <1>2, <1>10, <1>11
<1>14. /\ SerialInv' /\ Settled.vacancy' = Vacs(e, q) /\ Settled.applicants' = e.applicants
       /\ Settled.userApps' = Jobs(e, q) /\ Settled.active' = Actives(e, q)
       /\ SettledLocks' = locks
  BY <1>9, <1>11, <1>12, <1>13, StepTo
<1>15. /\ Settled.vacancy = Vacs(db, r) /\ Settled.applicants = db.applicants
       /\ Settled.userApps = Jobs(db, r) /\ Settled.active = Actives(db, r)
       /\ SettledLocks = locks
  BY <1>1, <1>2, ShownNow
<1>16. Vacs(db, r) = db.vacancy /\ Jobs(db, r) = db.userApps /\ Actives(db, r) = db.active
  BY <1>1, <1>2, Plain
<1>17. /\ Vacs(e, q) = e.vacancy /\ Actives(e, q) = e.active
       /\ Jobs(e, q) = [e.userApps EXCEPT ![r.u] = Board!Refilled(@, e.applicants, r.u)]
  BY <1>1, <1>7, <1>9, <1>11, Refills
<1>18. Jobs(e, q)
         = [db.userApps EXCEPT ![r.u] = Board!Refilled(@ \ {r.v}, e.applicants, r.u)]
  <2>1. db.userApps \in [Users -> SUBSET Vacancies]
    BY <1>2 DEF Data
  <2>2. e.userApps[r.u] = db.userApps[r.u] \ {r.v}
    BY <1>1, <1>8, <2>1
  <2>3. Jobs(e, q) = [e.userApps EXCEPT ![r.u]
                        = Board!Refilled(db.userApps[r.u] \ {r.v}, e.applicants, r.u)]
    BY <1>17, <2>2
  <2> QED
    BY <1>1, <1>8, <2>1, <2>3
<1>19. Board!AfterCancel(db.vacancy[r.v], r.app) = vac /\ Board!NoApplication = NoApplication
  BY <1>4, SameRecords DEF vac
<1>20. Board!HoldsPlaces(r.app) <=> b
  BY <1>b DEF Board!HoldsPlaces
<1>21. b => Settled.active' = Board!IndexAfterCancel(r.v, db.vacancy[r.v], vac)
  BY <1>8, <1>14, <1>15, <1>16, <1>17, <1>a DEF Board!IndexAfterCancel
<1>22. ~b => Settled.active' = Settled.active
  BY <1>8, <1>14, <1>15, <1>16, <1>17, <1>a
<1>23. /\ Settled.applicants[key] = r.app /\ Settled.vacancy = db.vacancy /\ Board!HasRecord(r.v, r.u)
       /\ Settled.applicants' = [Settled.applicants EXCEPT ![key] = Board!NoApplication]
       /\ Settled.userApps' = [Settled.userApps EXCEPT
                                 ![r.u] = Board!Refilled(@ \ {r.v}, Settled.applicants', r.u)]
       /\ b => Settled.vacancy' = [Settled.vacancy EXCEPT ![r.v] = vac]
       /\ ~b => Settled.vacancy' = Settled.vacancy
       /\ SettledLocks' = SettledLocks /\ started' = started
  BY <1>2, <1>4, <1>8, <1>14, <1>15, <1>16, <1>17, <1>18, <1>19 DEF Board!HasRecord
<1>24. Board!CancelMyJob(r.v, r.u)
  BY <1>19, <1>20, <1>21, <1>22, <1>23 DEF Board!CancelMyJob
<1> QED
  BY <1>1, <1>14, <1>24

-----------------------------------------------------------------------------
(* The steps together.                                                     *)
LEMMA InitSerial ==
  ASSUME Alone, Init
  PROVE  SerialInv /\ Board!Init
<1>1. Only \in Procs /\ TypeInv
  BY InitTypes DEF Alone
<1>2. req[Only] = Idle /\ db = EmptyDb /\ locks = {} /\ started = {}
  BY <1>1 DEF Init
<1>3. After = EmptyDb
  BY <1>2, IdleSerial, AfterReads
<1>4. Filed(EmptyDb)
  BY DEF Filed, EmptyDb, Pairs, Missing, NoVacancy
<1>5. SerialInv
  BY <1>2, <1>3, <1>4, IdleSerial DEF SerialInv
<1>6. /\ Settled.vacancy = Vacs(EmptyDb, Idle) /\ Settled.applicants = EmptyDb.applicants
      /\ Settled.userApps = Jobs(EmptyDb, Idle) /\ Settled.active = Actives(EmptyDb, Idle)
      /\ SettledLocks = LocksOf(locks, Idle) /\ EmptyDb \in Data
  BY <1>1, <1>2, <1>3, ShownNow
<1>7. /\ Settled.vacancy = EmptyDb.vacancy /\ Settled.applicants = EmptyDb.applicants
      /\ Settled.userApps = EmptyDb.userApps /\ Settled.active = EmptyDb.active
      /\ SettledLocks = {}
  BY <1>2, <1>6, IdleSerial, Plain
<1>8. Board!Init
  BY <1>2, <1>7, SameRecords DEF Board!Init, EmptyDb
<1> QED
  BY <1>5, <1>8

LEMMA BeginSerial ==
  ASSUME Alone, TypeInv, TypeInv', SerialInv, Begin(Only)
  PROVE  SerialInv' /\ (Board!Next \/ UNCHANGED Board!vars)
<1>1. ASSUME NEW v \in Vacancies, CreateBegin(Only, v)
      PROVE  SerialInv' /\ Board!Next
  BY <1>1, CreatesVacancy DEF Board!Next
<1>2. ASSUME NEW v \in Vacancies, NEW u,
             ApplyBegin(Only, v, u) \/ DecideBegin(Only, v, u) \/ CancelBegin(Only, v, u)
               \/ CloseBegin(Only, v)
      PROVE  SerialInv' /\ UNCHANGED Board!vars
  BY <1>2, BeginReads
<1>3. ASSUME NEW u \in Users, MyJobsBegin(Only, u)
      PROVE  SerialInv' /\ Board!Next
  BY <1>3, ListsJobsFirst DEF Board!Next
<1>4. ASSUME NEW u \in Users, DeleteBegin(Only, u)
      PROVE  SerialInv' /\ Board!Next
  BY <1>4, DeletesWorker DEF Board!Next
<1>5. ASSUME ExpireBegin(Only)
      PROVE  SerialInv' /\ UNCHANGED Board!vars
  BY <1>5, ExpireReads
<1> QED
  BY <1>1, <1>2, <1>3, <1>4, <1>5 DEF Begin

LEMMA StepSerial ==
  ASSUME Alone, TypeInv, TypeInv', BookInv, SerialInv, Step(Only)
  PROVE  SerialInv' /\ (Board!Next \/ UNCHANGED Board!vars)
<1> DEFINE v == req[Only].v
           u == req[Only].u
<1>1. CASE ApplyHExists(Only) \/ ApplySCard(Only)
  BY <1>1, ApplyReads
<1>2. CASE ApplySetNX(Only)
  BY <1>2, LockTaken
<1>3. CASE ApplyGetVac(Only)
  BY <1>3, WritesApplication DEF Board!Next
<1>4. CASE AcceptHGet(Only)
  BY <1>4, DecisionReads
<1>5. CASE AcceptGetVac(Only)
  <2>1. CASE Done(Only) \/ req'[Only].at = "hgetall"
    BY <1>5, <2>1, DecisionReads
  <2>2. CASE ~Done(Only) /\ req'[Only].at # "hgetall"
    BY <1>5, <2>2, AcceptsOne DEF Board!Next
  <2> QED
    BY <2>1, <2>2
<1>6. CASE AcceptHGetAll(Only)
  BY <1>6, AcceptsLast DEF Board!Next
<1>7. CASE RejectHGet(Only)
  <2>1. CASE Done(Only)
    BY <1>7, <2>1, DecisionReads
  <2>2. CASE ~Done(Only)
    BY <1>7, <2>2, WritesRejection DEF Board!Next
  <2> QED
    BY <2>1, <2>2
<1>8. CASE CancelHGet(Only)
  BY <1>8, CancelReads DEF Board!Next
<1>9. CASE CancelGetVac(Only)
  BY <1>9, WritesCancellation DEF Board!Next
<1>10. CASE MyJobsSMembers(Only) \/ MyJobsZRange(Only) \/ MyJobsScan(Only)
  BY <1>10, JobsReads
<1>11. CASE MyJobsSAdd(Only)
  BY <1>11, JobsAdds
<1>12. CASE CloseGetVac(Only)
  BY <1>12, WritesClosing
<1>13. CASE ExpireGet(Only) \/ ExpireNext(Only)
  BY <1>13, ExpireReads
<1>14. CASE ExpireNow(Only)
  <2>1. CASE Done(Only)
    BY <1>14, <2>1, ExpireReads
  <2>2. CASE ~Done(Only)
    BY <1>14, <2>2, ExpiresDue DEF Board!Next
  <2> QED
    BY <2>1, <2>2
<1>15. CASE PipeStep(Only)
  BY <1>15, PipeRuns
<1> QED
  BY <1>1, <1>2, <1>3, <1>4, <1>5, <1>6, <1>7, <1>8, <1>9, <1>10, <1>11, <1>12, <1>13, <1>14, <1>15
     DEF Step

LEMMA NextSerial ==
  ASSUME Alone, TypeInv, TypeInv', BookInv, SerialInv, [Next]_vars
  PROVE  SerialInv' /\ [Board!Next]_(Board!vars)
<1>1. ASSUME NEW p \in Procs, Begin(p) \/ Step(p) \/ Fail(p) \/ PassOver(p)
      PROVE  SerialInv' /\ (Board!Next \/ UNCHANGED Board!vars)
  <2>1. p = Only /\ ~Fail(p) /\ ~PassOver(p)
    BY DEF Alone, Fail, PassOver
  <2> QED
    BY <1>1, <2>1, BeginSerial, StepSerial
<1>2. ASSUME NEW v \in Vacancies, StartPasses(v)
      PROVE  SerialInv' /\ (Board!Next \/ UNCHANGED Board!vars)
  BY <1>2, TimePasses
<1>3. ASSUME NEW v \in Vacancies, NEW u \in Users, LockExpires(v, u)
      PROVE  SerialInv' /\ (Board!Next \/ UNCHANGED Board!vars)
  BY <1>3, TimePasses
<1>4. CASE UNCHANGED vars
  <2>1. db' = db /\ locks' = locks /\ started' = started /\ req' = req
    BY <1>4 DEF vars
  <2>2. After' = After /\ Settled' = Settled /\ SettledLocks' = SettledLocks
    BY <2>1 DEF After, Settled, SettledLocks
  <2> QED
    BY <2>1, <2>2 DEF SerialInv, Board!vars
<1> QED
  BY <1>1, <1>2, <1>3, <1>4 DEF Next

(* Requests served one at a time, none of which fails, implement           *)
(* VacancyBoard: for any vacancies, users, places and operations, each     *)
(* sequence of Redis commands has the effect of one whole request at its   *)
(* last read and none before or after, refills, displacements and the      *)
(* closings of an expirer's tick included.  What differs under concurrency *)
(* is therefore due to interleaving or failure alone.                      *)
THEOREM SerialImplementsBoard ==
  (\E p : Procs = {p}) /\ ~Failures => (Spec => ImplementsBoard)
<1> SUFFICES ASSUME \E p : Procs = {p}, ~Failures PROVE Spec => ImplementsBoard
  OBVIOUS
<1>1. Alone
  BY DEF Alone, Only
<1>2. Init => TypeInv /\ BookInv /\ SerialInv /\ Board!Init
  BY <1>1, InitTypes, InitBook, InitSerial
<1>3. TypeInv /\ BookInv /\ SerialInv /\ [Next]_vars
        => TypeInv' /\ BookInv' /\ SerialInv' /\ [Board!Next]_(Board!vars)
  BY <1>1, NextTypes, NextBook, NextSerial
<1> QED
  BY <1>2, <1>3, PTL DEF Spec, ImplementsBoard, Board!Spec
=============================================================================
