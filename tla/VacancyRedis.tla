---------------------------- MODULE VacancyRedis ----------------------------
(***************************************************************************)
(* The vacancy board as Redis sees it: several requests run at once, each  *)
(* is a sequence of Redis commands, and Redis executes one command at a    *)
(* time.  rdb.Pipeline() sends its commands together but is no             *)
(* transaction: commands of other clients come in between, and a lost      *)
(* connection or a stopped process loses the rest.                         *)
(*                                                                         *)
(* A step of a request is one command and the Go code up to the next one.  *)
(* Abstractions: reads whose result only goes into a message are left out; *)
(* profiles are in Registration, notifications are left out.               *)
(***************************************************************************)
EXTENDS VacancyData, SequencesExt

CONSTANTS
  Procs,        \* the requests served at the same time
  Ops,          \* the operations of this instance
  Failures,     \* TRUE: a request may stop between two commands
  StalePages,   \* as in VacancyBoard
  Deletable     \* as in VacancyBoard

ASSUME OpsAssumption ==
  Ops \subseteq {"create", "apply", "accept", "reject", "cancel", "close", "expire", "myjobs", "delete"}
ASSUME FailuresAssumption == Failures \in BOOLEAN
ASSUME UsersAssumption == IsFiniteSet(Users)
ASSUME PagesAssumption == StalePages \in BOOLEAN /\ Deletable \subseteq Users

VARIABLES
  db,        \* the keys in Redis
  locks,     \* the apply lock keys not yet expired
  started,   \* vacancies whose StartAt has passed
  req        \* req[p]: the request p is serving

vars == <<db, locks, started, req>>

-----------------------------------------------------------------------------
(* Commands.  "all" is workbot:vacancies:all, "active" the index of active *)
(* vacancies, "apps" the set of a user's applications.                     *)
EmptyDb ==
  [vacancy    |-> [v \in Vacancies |-> NoVacancy],
   applicants |-> [a \in Pairs |-> NoApplication],
   userApps   |-> [u \in Users |-> {}],
   active     |-> {},
   all        |-> {}]

SetVacancy(v, vac)  == [cmd |-> "SET vacancy", v |-> v, vac |-> vac]
HSetApp(v, u, app)  == [cmd |-> "HSET app", v |-> v, u |-> u, app |-> app]
HDelApp(v, u)       == [cmd |-> "HDEL app", v |-> v, u |-> u]
SAddApps(v, u)      == [cmd |-> "SADD apps", v |-> v, u |-> u]
SRemApps(v, u)      == [cmd |-> "SREM apps", v |-> v, u |-> u]
DelApps(u)          == [cmd |-> "DEL apps", u |-> u]
SAddActive(v)       == [cmd |-> "SADD active", v |-> v]
SRemActive(v)       == [cmd |-> "SREM active", v |-> v]
ZAddAll(v)          == [cmd |-> "ZADD all", v |-> v]

Run(d, c) ==
  CASE c.cmd = "SET vacancy" -> [d EXCEPT !.vacancy[c.v] = c.vac]
    [] c.cmd = "HSET app"    -> [d EXCEPT !.applicants[<<c.v, c.u>>] = c.app]
    [] c.cmd = "HDEL app"    -> [d EXCEPT !.applicants[<<c.v, c.u>>] = NoApplication]
    [] c.cmd = "SADD apps"   -> [d EXCEPT !.userApps[c.u] = @ \cup {c.v}]
    [] c.cmd = "SREM apps"   -> [d EXCEPT !.userApps[c.u] = @ \ {c.v}]
    [] c.cmd = "DEL apps"    -> [d EXCEPT !.userApps[c.u] = {}]
    [] c.cmd = "SADD active" -> [d EXCEPT !.active = @ \cup {c.v}]
    [] c.cmd = "SREM active" -> [d EXCEPT !.active = @ \ {c.v}]
    [] c.cmd = "ZADD all"    -> [d EXCEPT !.all = @ \cup {c.v}]

RunAll(d, pipe) == FoldLeft(Run, d, pipe)

-----------------------------------------------------------------------------
(* A request: its operation and arguments, the step it is at, what it has  *)
(* read (todo: ids still to examine, due: vacancies to close), and the     *)
(* commands still to be run.  "fresh" is an auxiliary bit of Apply: when   *)
(* it looked for a record, the lock now held had been taken and its taker  *)
(* was done.                                                               *)
Nothing == "nothing"
Idle == [op |-> "none", at |-> "idle", v |-> Nothing, u |-> Nothing, n |-> 0, fresh |-> FALSE,
         vac |-> NoVacancy, app |-> NoApplication, todo |-> {}, due |-> {}, pipe |-> <<>>]

Busy(p) == req[p].at # "idle"
Free(p, op) == op \in Ops /\ ~Busy(p)

Goto(p, step) == req' = [req EXCEPT ![p].at = step]
Done(p) == req' = [req EXCEPT ![p] = Idle]
Start(p, op, step, v, u, n) ==
  req' = [req EXCEPT ![p] = [Idle EXCEPT !.op = op, !.at = step, !.v = v, !.u = u, !.n = n]]

(* From reading to writing: everything read is in the pipeline now.        *)
Send(p, pipe) ==
  req' = [req EXCEPT ![p] = [@ EXCEPT !.at = "pipe", !.pipe = pipe,
                                      !.vac = NoVacancy, !.app = NoApplication]]

Read == UNCHANGED <<db, locks, started>>

Exists(v) == ~Missing(db.vacancy[v])
AppOf(p) == db.applicants[<<req[p].v, req[p].u>>]
VacOf(p) == db.vacancy[req[p].v]

(* The last command of the pipeline ends the request, except that          *)
(* handleCancelMyJob goes on to list the remaining jobs and the expirer to *)
(* the next vacancy.                                                       *)
AfterPipe(r) ==
  CASE r.op = "cancel" -> [r EXCEPT !.at = "smembers", !.pipe = <<>>]
    [] r.op = "expire" /\ r.due # {} -> [r EXCEPT !.at = "next", !.pipe = <<>>, !.v = Nothing]
    [] OTHER -> Idle

PipeStep(p) ==
  /\ req[p].at = "pipe"
  /\ db' = Run(db, Head(req[p].pipe))
  /\ LET rest == Tail(req[p].pipe)
     IN  req' = [req EXCEPT ![p] = IF rest = <<>> THEN AfterPipe(@) ELSE [@ EXCEPT !.pipe = rest]]
  /\ UNCHANGED <<locks, started>>

-----------------------------------------------------------------------------
(* CreateVacancy: INCR has handed out an id that is in no key and in no    *)
(* other request.                                                          *)
CreateBegin(p, v) ==
  /\ Free(p, "create")
  /\ ~Exists(v) /\ v \notin db.all
  /\ \A q \in Procs : ~(req[q].op = "create" /\ req[q].v = v)
  /\ \E n \in SlotChoices :
       req' = [req EXCEPT ![p] = [Idle EXCEPT !.op = "create", !.at = "pipe", !.v = v,
                 !.pipe = <<SetVacancy(v, NewVacancy(n)), ZAddAll(v), SAddActive(v)>>]]
  /\ Read

-----------------------------------------------------------------------------
(* Apply *)
InApply(p, v, u) == req[p].op = "apply" /\ req[p].v = v /\ req[p].u = u
PastLock(p, v, u) == InApply(p, v, u) /\ req[p].at \in {"getvac", "pipe"}

ApplyBegin(p, v, u) ==
  /\ Free(p, "apply")
  /\ Exists(v)
  /\ \E n \in 1 .. db.vacancy[v].needed : Start(p, "apply", "hexists", v, u, n)
  /\ Read

AppliedUnchecked(p) == FALSE                                      \* mutant
Applied(p) == AppOf(p) # NoApplication

ApplyHExists(p) ==
  /\ req[p].op = "apply" /\ req[p].at = "hexists"
  /\ IF Applied(p)
     THEN Done(p)
     ELSE req' = [req EXCEPT ![p].at = "scard",
                             ![p].fresh = /\ <<req[p].v, req[p].u>> \in locks
                                          /\ ~ \E q \in Procs : PastLock(q, req[p].v, req[p].u)]
  /\ Read

ApplySCard(p) ==
  /\ req[p].op = "apply" /\ req[p].at = "scard"
  /\ IF Cardinality(db.userApps[req[p].u]) >= MaxActive THEN Done(p) ELSE Goto(p, "setnx")
  /\ Read

LockUnread(key) == FALSE                                          \* mutant
Locked(key) == key \in locks

ApplySetNX(p) ==
  LET key == <<req[p].v, req[p].u>>
  IN  /\ req[p].op = "apply" /\ req[p].at = "setnx"
      /\ IF Locked(key)
         THEN Done(p) /\ UNCHANGED locks
         ELSE /\ locks' = locks \cup {key}
              /\ req' = [q \in Procs |->
                   IF q = p THEN [req[q] EXCEPT !.at = "getvac", !.fresh = FALSE]
                   ELSE IF InApply(q, req[p].v, req[p].u) THEN [req[q] EXCEPT !.fresh = FALSE]
                   ELSE req[q]]
      /\ UNCHANGED <<db, started>>

ApplyGetVac(p) ==
  /\ req[p].op = "apply" /\ req[p].at = "getvac"
  /\ LET r == req[p]
         n == Granted(VacOf(p), r.n)
     IN  IF n = 0 THEN Done(p)
         ELSE Send(p, <<HSetApp(r.v, r.u, NewApplication(n)), SAddApps(r.v, r.u)>>)
  /\ Read

-----------------------------------------------------------------------------
(* AcceptApplication and RejectApplication *)
Offered(v, u) ==
  IF StalePages THEN db.applicants[<<v, u>>] # NoApplication
  ELSE db.applicants[<<v, u>>].status = "pending"

DecideBegin(p, v, u) ==
  /\ Offered(v, u)
  /\ \E op \in {"accept", "reject"} : Free(p, op) /\ Start(p, op, "hget", v, u, 0)
  /\ Read

AcceptHGet(p) ==
  /\ req[p].op = "accept" /\ req[p].at = "hget"
  /\ IF AppOf(p).status \in {"none", "accepted"}
     THEN Done(p)
     ELSE req' = [req EXCEPT ![p].at = "getvac", ![p].app = AppOf(p)]
  /\ Read

AcceptWritesNoSlots(r, vac) ==                                    \* mutant
  <<HSetApp(r.v, r.u, WithStatus(r.app, "accepted"))>>
AcceptWrites(r, vac) ==
  <<HSetApp(r.v, r.u, WithStatus(r.app, "accepted")), SetVacancy(r.v, vac)>>

FullUnchecked(vac) == FALSE                                       \* mutant
Full(vac) == vac.filled >= vac.needed

AcceptGetVac(p) ==
  /\ req[p].op = "accept" /\ req[p].at = "getvac"
  /\ LET r == req[p]
         vac == AfterAccept(VacOf(p), r.app)
     IN  IF Full(VacOf(p)) THEN Done(p)
         ELSE IF vac.status # "filled" THEN Send(p, AcceptWrites(r, vac))
         ELSE req' = [req EXCEPT ![p].at = "hgetall", ![p].vac = vac]
  /\ Read

(* HGETALL returns the fields in no particular order; every worker turned  *)
(* away is written in two commands.                                        *)
TurnedAway(v, order) ==
  [i \in 1 .. 2 * Len(order) |->
     LET w == order[(i + 1) \div 2]
     IN  IF i % 2 = 1 THEN HSetApp(v, w, WithStatus(db.applicants[<<v, w>>], "rejected"))
         ELSE SRemApps(v, w)]

AcceptHGetAll(p) ==
  /\ req[p].op = "accept" /\ req[p].at = "hgetall"
  /\ LET r == req[p]
         out == {w \in Users \ {r.u} : db.applicants[<<r.v, w>>].status = "pending"}
     IN  \E order \in SetToSeqs(out) :
           Send(p, AcceptWrites(r, r.vac) \o TurnedAway(r.v, order) \o <<SRemActive(r.v)>>)
  /\ Read

RejectHGet(p) ==
  /\ req[p].op = "reject" /\ req[p].at = "hget"
  /\ LET r == req[p]
     IN  IF AppOf(p) = NoApplication THEN Done(p)
         ELSE Send(p, <<HSetApp(r.v, r.u, WithStatus(AppOf(p), "rejected")), SRemApps(r.v, r.u)>>)
  /\ Read

-----------------------------------------------------------------------------
(* handleCancelMyJob: CancelApply, then the list of the remaining jobs.    *)
CancelBegin(p, v, u) ==
  /\ Free(p, "cancel")
  /\ db.applicants[<<v, u>>] # NoApplication \/ v \in db.userApps[u]
  /\ Start(p, "cancel", "hget", v, u, 0)
  /\ Read

CancelHGet(p) ==
  /\ req[p].op = "cancel" /\ req[p].at = "hget"
  /\ IF AppOf(p) = NoApplication
     THEN Goto(p, "smembers")
     ELSE req' = [req EXCEPT ![p].at = "getvac", ![p].app = AppOf(p)]
  /\ Read

CancelGetVac(p) ==
  /\ req[p].op = "cancel" /\ req[p].at = "getvac"
  /\ LET r == req[p]
         vac == AfterCancel(VacOf(p), r.app)
     IN  Send(p, <<HDelApp(r.v, r.u), SRemApps(r.v, r.u)>>
                 \o (IF r.app.status = "accepted" THEN <<SetVacancy(r.v, vac)>> ELSE <<>>)
                 \o (IF r.app.status = "accepted" /\ VacOf(p).status = "filled"
                        /\ vac.status = "active"
                     THEN <<SAddActive(r.v)>> ELSE <<>>))
  /\ Read

-----------------------------------------------------------------------------
(* GetUserApplicationVacancies, for /myjobs, the vacancy list, the panel   *)
(* and the end of a cancellation: refill an empty set one HEXISTS and one  *)
(* SADD at a time, each a request of its own to Redis.                     *)
MyJobsBegin(p, u) ==
  /\ Free(p, "myjobs")
  /\ Start(p, "myjobs", "smembers", Nothing, u, 0)
  /\ Read

MyJobsSMembers(p) ==
  /\ req[p].at = "smembers"
  /\ IF db.userApps[req[p].u] # {} THEN Done(p) ELSE Goto(p, "zrange")
  /\ Read

MyJobsZRange(p) ==
  /\ req[p].op \in {"myjobs", "cancel"} /\ req[p].at = "zrange"
  /\ IF db.all = {} THEN Done(p)
     ELSE req' = [req EXCEPT ![p].at = "scan", ![p].todo = db.all]
  /\ Read

MyJobsScan(p) ==
  /\ req[p].at = "scan"
  /\ \E v \in req[p].todo :
       LET rest == req[p].todo \ {v}
       IN  IF db.applicants[<<v, req[p].u>>] # NoApplication
           THEN req' = [req EXCEPT ![p].at = "sadd", ![p].v = v, ![p].todo = rest]
           ELSE IF rest = {} THEN Done(p) ELSE req' = [req EXCEPT ![p].todo = rest]
  /\ Read

MyJobsSAdd(p) ==
  /\ req[p].at = "sadd"
  /\ db' = Run(db, SAddApps(req[p].v, req[p].u))
  /\ IF req[p].todo = {} THEN Done(p) ELSE req' = [req EXCEPT ![p].at = "scan", ![p].v = Nothing]
  /\ UNCHANGED <<locks, started>>

-----------------------------------------------------------------------------
(* CloseVacancy *)
CloseBegin(p, v) ==
  /\ Free(p, "close")
  /\ Exists(v)
  /\ Start(p, "close", "close", v, Nothing, 0)
  /\ Read

CloseGetVac(p) ==
  /\ req[p].at = "close"
  /\ Send(p, <<SetVacancy(req[p].v, AfterClose(VacOf(p))), SRemActive(req[p].v)>>)
  /\ Read

(* expireVacancies: list the vacancies one GET at a time, take the clock,  *)
(* then close those that were active when read and have started by now.    *)
(* There is one expirer, and it does not overlap itself.                   *)
ExpireBegin(p) ==
  /\ Free(p, "expire")
  /\ \A q \in Procs : req[q].op # "expire"
  /\ db.all # {}
  /\ req' = [req EXCEPT ![p] = [Idle EXCEPT !.op = "expire", !.at = "list", !.todo = db.all]]
  /\ Read

ExpireGet(p) ==
  /\ req[p].at = "list"
  /\ \E v \in req[p].todo :
       LET active == IF db.vacancy[v].status = "active" THEN {v} ELSE {}
           rest == req[p].todo \ {v}
       IN  req' = [req EXCEPT ![p].todo = rest, ![p].due = @ \cup active,
                              ![p].at = IF rest = {} THEN "now" ELSE "list"]
  /\ Read

ExpireNow(p) ==
  /\ req[p].at = "now"
  /\ LET due == req[p].due \cap started
     IN  IF due = {} THEN Done(p)
         ELSE req' = [req EXCEPT ![p].at = "next", ![p].due = due]
  /\ Read

ExpireNext(p) ==
  /\ req[p].at = "next"
  /\ \E v \in req[p].due :
       req' = [req EXCEPT ![p].at = "close", ![p].v = v, ![p].due = @ \ {v}]
  /\ Read

(* The part of DeleteWorker that concerns the board. *)
DeleteBegin(p, u) ==
  /\ Free(p, "delete")
  /\ u \in Deletable
  /\ req' = [req EXCEPT ![p] = [Idle EXCEPT !.op = "delete", !.at = "pipe", !.u = u,
                                            !.pipe = <<DelApps(u)>>]]
  /\ Read

-----------------------------------------------------------------------------
(* The connection breaks, the context ends or the process stops: what is   *)
(* left of the request is lost.                                            *)
Fail(p) == Failures /\ Busy(p) /\ Done(p) /\ Read

(* Errors that are passed over.  When HGETALL fails, AcceptApplication     *)
(* turns nobody away; the refill and the expirer go on to the next         *)
(* vacancy, whatever they were doing with this one.                        *)
TurnNobodyAway(p) ==
  LET r == req[p]
  IN  /\ r.op = "accept" /\ r.at = "hgetall"
      /\ Send(p, AcceptWrites(r, r.vac) \o <<SRemActive(r.v)>>)

SkipVacancy(p) ==
  LET r == req[p]
  IN  \/ /\ r.at = "scan"
         /\ \E v \in r.todo :
              IF r.todo \ {v} = {} THEN Done(p) ELSE req' = [req EXCEPT ![p].todo = r.todo \ {v}]
      \/ /\ r.at = "sadd"
         /\ IF r.todo = {} THEN Done(p) ELSE req' = [req EXCEPT ![p].at = "scan", ![p].v = Nothing]
      \/ /\ r.at = "list"
         /\ \E v \in r.todo :
              req' = [req EXCEPT ![p].todo = r.todo \ {v},
                                 ![p].at = IF r.todo \ {v} = {} THEN "now" ELSE "list"]
      \/ /\ r.op = "expire" /\ r.at \in {"close", "pipe"}
         /\ req' = [req EXCEPT ![p] = AfterPipe(r)]

PassOver(p) == Failures /\ (TurnNobodyAway(p) \/ SkipVacancy(p)) /\ Read

(* 30 s after SETNX.  A request is assumed to take less than half of that: *)
(* an Apply that looked for a record before the taker of the lock was done *)
(* is over before the lock is.                                             *)
LockExpires(v, u) ==
  /\ <<v, u>> \in locks
  /\ \A p \in Procs : InApply(p, v, u) => req[p].fresh \/ req[p].at = "hexists"
  /\ locks' = locks \ {<<v, u>>}
  /\ UNCHANGED <<db, started, req>>

StartPasses(v) ==
  /\ Exists(v)
  /\ "expire" \in Ops
  /\ started' = started \cup {v}
  /\ UNCHANGED <<db, locks, req>>

-----------------------------------------------------------------------------
Init ==
  /\ db = EmptyDb
  /\ locks = {}
  /\ started = {}
  /\ req = [p \in Procs |-> Idle]

Begin(p) ==
  \/ \E v \in Vacancies : CreateBegin(p, v) \/ CloseBegin(p, v)
  \/ \E v \in Vacancies, u \in Users :
       ApplyBegin(p, v, u) \/ DecideBegin(p, v, u) \/ CancelBegin(p, v, u)
  \/ \E u \in Users : MyJobsBegin(p, u) \/ DeleteBegin(p, u)
  \/ ExpireBegin(p)

Step(p) ==
  \/ ApplyHExists(p) \/ ApplySCard(p) \/ ApplySetNX(p) \/ ApplyGetVac(p)
  \/ AcceptHGet(p) \/ AcceptGetVac(p) \/ AcceptHGetAll(p) \/ RejectHGet(p)
  \/ CancelHGet(p) \/ CancelGetVac(p)
  \/ MyJobsSMembers(p) \/ MyJobsZRange(p) \/ MyJobsScan(p) \/ MyJobsSAdd(p)
  \/ CloseGetVac(p)
  \/ ExpireGet(p) \/ ExpireNow(p) \/ ExpireNext(p)
  \/ PipeStep(p)

Next ==
  \/ \E p \in Procs : Begin(p) \/ Step(p) \/ Fail(p) \/ PassOver(p)
  \/ \E v \in Vacancies : StartPasses(v)
  \/ \E v \in Vacancies, u \in Users : LockExpires(v, u)

Spec == Init /\ [][Next]_vars
-----------------------------------------------------------------------------
Steps == {"idle", "hexists", "scard", "setnx", "getvac", "pipe", "hget", "hgetall",
          "smembers", "zrange", "scan", "sadd", "close", "list", "now", "next"}

(* Every variable has its type. *)
TypeOK ==
  /\ db.vacancy \in [Vacancies -> Vacancy]
  /\ db.applicants \in [Pairs -> Application]
  /\ db.userApps \in [Users -> SUBSET Vacancies]
  /\ db.active \subseteq Vacancies /\ db.all \subseteq Vacancies
  /\ locks \subseteq Pairs /\ started \subseteq Vacancies
  /\ \A p \in Procs :
       /\ req[p].at \in Steps
       /\ req[p].v \in Vacancies \cup {Nothing} /\ req[p].u \in Users \cup {Nothing}
       /\ req[p].vac \in Vacancy /\ req[p].app \in Application
       /\ req[p].todo \subseteq Vacancies /\ req[p].due \subseteq Vacancies

(* SETNX lets at most one Apply of a user to a vacancy go on to write,     *)
(* however many copies Telegram delivers and whatever else runs.           *)
ApplyMutex ==
  \A v \in Vacancies, u \in Users, p, q \in Procs :
    PastLock(p, v, u) /\ PastLock(q, v, u) => p = q

(* No interleaving of accepts, cancellations and broken connections books  *)
(* a vacancy to twice its places.                                          *)
OverbookingBounded ==
  \A v \in Vacancies : Exists(v) => db.vacancy[v].filled < 2 * db.vacancy[v].needed

(* The check for an earlier application and the lock together: when Apply  *)
(* is about to write its record there is none to overwrite, although the   *)
(* check was made several commands ago and the lock may have changed hands *)
(* in between.  Holds while records are not removed by a cancellation.     *)
ApplyWritesFirst ==
  \A p \in Procs :
    /\ req[p].op = "apply"
    /\ \/ req[p].at = "getvac"
       \/ req[p].at = "pipe" /\ Head(req[p].pipe).cmd = "HSET app"
    => AppOf(p) = NoApplication

-----------------------------------------------------------------------------
(* Requests served one at a time implement VacancyBoard.  A request takes  *)
(* effect at its last read, when it hands over its pipeline; what it still *)
(* has to write from then on is counted as written.                        *)
Only == CHOOSE p \in Procs : TRUE

WithRecord(d, S, u) == {v \in S : d.applicants[<<v, u>>] # NoApplication}

(* What the list of a user's jobs is about to add to the user's set.       *)
ToRefill(d, r) ==
  IF r.op \notin {"cancel", "myjobs"} THEN {}
  ELSE CASE r.at \in {"pipe", "smembers", "zrange"} ->
              IF d.userApps[r.u] = {} THEN WithRecord(d, d.all, r.u) ELSE {}
         [] r.at = "scan" -> WithRecord(d, r.todo, r.u)
         [] r.at = "sadd" -> WithRecord(d, r.todo, r.u) \cup {r.v}
         [] OTHER -> {}

(* What the expirer is about to close. *)
ToClose(r) ==
  IF r.op # "expire" THEN {}
  ELSE CASE r.at \in {"next", "pipe"} -> r.due
         [] r.at = "close" -> r.due \cup {r.v}
         [] OTHER -> {}

Settled ==
  LET r == req[Only]
      d == RunAll(db, r.pipe)
  IN  [d EXCEPT
        !.vacancy = [v \in Vacancies |-> IF v \in ToClose(r) THEN AfterClose(@[v]) ELSE @[v]],
        !.active = @ \ ToClose(r),
        !.userApps = [u \in Users |-> IF u = r.u THEN @[u] \cup ToRefill(d, r) ELSE @[u]]]

(* The lock counts from the moment the application does. *)
SettledLocks ==
  LET r == req[Only]
  IN  IF r.op = "apply" /\ r.at = "getvac" THEN locks \ {<<r.v, r.u>>} ELSE locks

Board == INSTANCE VacancyBoard WITH
  vacancy <- Settled.vacancy, applicants <- Settled.applicants,
  userApps <- Settled.userApps, activeSet <- Settled.active,
  locks <- SettledLocks, started <- started

(* One request at a time and no failure: every command sequence is one     *)
(* whole request of VacancyBoard.                                          *)
ImplementsBoard == Board!Spec

-----------------------------------------------------------------------------
(* What a comment of the program says and two requests at once belie.      *)
Quiet == \A p \in Procs : ~Busy(p)

(* AcceptApplication increments SlotsFilled: once all requests are over it *)
(* counts every accepted worker.                                           *)
SlotsCoverAccepted ==
  Quiet => \A v \in Vacancies :
    LET accepted == {u \in Users : db.applicants[<<v, u>>].status = "accepted"}
    IN  MapThenSumSet(LAMBDA u : db.applicants[<<v, u>>].count, accepted) <= db.vacancy[v].filled

=============================================================================
