--------------------------- MODULE OperatorPanel ---------------------------
(***************************************************************************)
(* Who works in the panel (foremen, their sessions) and what reaches them: *)
(* the notification of a cancelled application, saved by the webhook       *)
(* handler in a list per operator, the count of unread ones, and the       *)
(* support chat with a worker, a list of the same make.                    *)
(*                                                                         *)
(* One Redis command of a request is one step, with the Go code up to the  *)
(* next; the commands of CancelApply, which are in VacancyRedis, count as  *)
(* one here.  A request may get an error from any of its commands, an      *)
(* answer may be lost, and the process may be killed: Telegram delivers    *)
(* again what was not answered with 200.                                   *)
(*                                                                         *)
(* Abstractions: an entry is the update or reply it records and when it    *)
(* was stamped; time is the number of entries stamped.  Foremen have       *)
(* different logins and a chat ID each.  Sessions of one operator are one, *)
(* which ends at any time, by logging out or after its 24 hours.           *)
(***************************************************************************)
EXTENDS Naturals, Sequences, FiniteSets

CONSTANTS
  Requests,      \* the requests handled at a time
  Operators,     \* the super admin and every foreman there ever is
  Foremen,       \* the foremen among them
  Chats,         \* the workers with a support chat
  Cancels,       \* "cancel" buttons under applications
  Messages,      \* messages of workers to the support
  Replies,       \* replies of operators to them
  KeyOf,         \* the operator a cancellation concerns, the chat of the others
  Cap,           \* entries a list keeps, 100 in the code
  MaxSends,      \* bound on how often a worker sends an update
  MaxEntries,    \* bound on entries
  MaxFailures    \* bound on errors, lost answers and kills

Nothing == "nothing"

Updates == Cancels \cup Messages
Keys == Operators \cup Chats
Moments == 1 .. MaxEntries
Entries == (Updates \cup Replies) \X Moments

ASSUME OperatorsAssumption == Foremen \subseteq Operators
ASSUME SortsAssumption ==
  /\ Cancels \cap (Messages \cup Replies) = {} /\ Messages \cap Replies = {}
  /\ Updates \cap Operators = {} /\ Nothing \notin Updates
ASSUME FiniteAssumption == IsFiniteSet(Requests)
ASSUME KeyOfAssumption ==
  /\ \A u \in Updates \cup Replies : KeyOf[u] \in Keys
  /\ \A c \in Cancels : KeyOf[c] \in Operators
ASSUME CapAssumption == Cap \in Nat \ {0}
ASSUME BoundsAssumption ==
  MaxSends \in Nat /\ MaxEntries \in Nat /\ MaxFailures \in Nat

VARIABLES
  records,       \* foremen with a record, workbot:foreman:<id>
  listed,        \* foremen in workbot:foremans:all
  created,       \* foremen whose id has been handed out
  sessions,      \* operators with a live session
  log,           \* workbot:admin:notifications:<id> and workbot:chat:<id>, newest first
  mark,          \* workbot:admin:notifications:<id>:last_read, 0 when there is none
  clock,         \* entries stamped so far
  saved,         \* updates and replies with an entry pushed
  withdrawn,     \* applications withdrawn
  sends,         \* how often each update was sent by its worker
  undelivered,   \* updates Telegram will deliver again
  forgone,       \* updates of which a step failed and was passed over
  req,           \* the requests being handled
  failures

panelVars == <<records, listed, created, sessions>>
listVars == <<log, mark, clock, saved>>
botVars == <<withdrawn, sends, undelivered, forgone>>
vars == <<panelVars, listVars, botVars, req, failures>>

(* A request: its step, the update or reply it handles or the operator it  *)
(* serves, whether it has the vacancy, whether a goroutine it started is   *)
(* still to send the operator a message, and the time it took.             *)
Idle == [at |-> "idle", for |-> Nothing, known |-> FALSE, calling |-> FALSE,
         time |-> 0]

At(r, step) == req[r].at = step
Become(r, q) == req' = [req EXCEPT ![r] = q]
Goto(r, step) == Become(r, [req[r] EXCEPT !.at = step])
Busy == {req[r].for : r \in Requests}

Failing == failures < MaxFailures /\ failures' = failures + 1
Working == UNCHANGED failures

Init ==
  /\ records = {} /\ listed = {} /\ created = {} /\ sessions = {}
  /\ log = [k \in Keys |-> <<>>]
  /\ mark = [o \in Operators |-> 0]
  /\ clock = 0 /\ saved = {}
  /\ withdrawn = {} /\ undelivered = {} /\ forgone = {}
  /\ sends = [u \in Updates |-> 0]
  /\ req = [r \in Requests |-> Idle]
  /\ failures = 0

-----------------------------------------------------------------------------
(* Foremen and sessions.  INCR never hands out an id twice; the record and *)
(* the listing are written by one pipeline, which may be cut.              *)
CreateForeman(f) ==
  /\ f \notin created
  /\ created' = created \cup {f}
  /\ records' = records \cup {f}
  /\ \/ listed' = listed \cup {f} /\ Working
     \/ UNCHANGED listed /\ Failing
  /\ UNCHANGED <<sessions, listVars, botVars, req>>

DeleteForeman(f) ==
  /\ f \in listed
  /\ records' = records \ {f}
  /\ \/ listed' = listed \ {f} /\ Working
     \/ UNCHANGED listed /\ Failing
  /\ UNCHANGED <<created, sessions, listVars, botVars, req>>

(* FindForemanByLogin goes through the listing and skips who has no record.*)
MayLogIn(o) == o \in Foremen => o \in listed \cap records

(* The session is a copy of the foreman: it outlives the record.           *)
DoLogin(o) ==
  /\ MayLogIn(o)
  /\ sessions' = sessions \cup {o}
  /\ UNCHANGED <<records, listed, created, listVars, botVars, req, failures>>

EndSession(o) ==
  /\ o \in sessions
  /\ sessions' = sessions \ {o}
  /\ UNCHANGED <<records, listed, created, listVars, botVars, req, failures>>

-----------------------------------------------------------------------------
(* Requests that will stamp an entry; MaxEntries bounds how many begin.    *)
ToStamp == {r \in Requests : req[r].at \in {"getvac", "cancel", "chatid", "stamp"}}
Room == clock + Cardinality(ToStamp) < MaxEntries

(* Telegram delivers an update, for the first time or again.               *)
Begin(r, u) ==
  /\ At(r, "idle")
  /\ Room
  /\ Become(r, [Idle EXCEPT !.at = IF u \in Cancels THEN "getvac" ELSE "stamp", !.for = u])
  /\ UNCHANGED <<panelVars, listVars, withdrawn, forgone, failures>>

(* The worker presses the button, once more perhaps, or writes a message;  *)
(* the foreman of a vacancy did exist.                                     *)
Send(r, u) ==
  /\ sends[u] < (IF u \in Cancels THEN MaxSends ELSE 1)
  /\ u \in Cancels /\ KeyOf[u] \in Foremen => KeyOf[u] \in created
  /\ sends' = [sends EXCEPT ![u] = @ + 1]
  /\ UNCHANGED undelivered
  /\ Begin(r, u)

Redeliver(r, u) ==
  /\ u \in undelivered
  /\ undelivered' = undelivered \ {u}
  /\ UNCHANGED sends
  /\ Begin(r, u)

-----------------------------------------------------------------------------
(* handleCancelMyJob.  Its errors are passed over: Telegram gets its 200.  *)
GetVacancy(r) ==
  /\ At(r, "getvac")
  /\ \/ Become(r, [req[r] EXCEPT !.at = "cancel", !.known = TRUE]) /\ Working
     \/ Goto(r, "cancel") /\ Failing
  /\ UNCHANGED <<panelVars, listVars, botVars>>

IfItWasThere(r) == req[r].known /\ req[r].for \notin withdrawn    \* mutant
(* CancelApply has no objection to an application that is gone, so only    *)
(* without the vacancy there is nobody to notify.                          *)
Notifies(r) == req[r].known

CancelApply(r) ==
  /\ At(r, "cancel")
  /\ withdrawn' = withdrawn \cup {req[r].for}
  /\ Become(r, [req[r] EXCEPT !.at = IF Notifies(r) THEN "chatid" ELSE "answer",
                              !.known = FALSE])
  /\ forgone' = IF req[r].known THEN forgone ELSE forgone \cup {req[r].for}
  /\ UNCHANGED <<panelVars, listVars, sends, undelivered, failures>>

(* It fails, before or after the application was removed. *)
CancelFails(r) ==
  /\ At(r, "cancel")
  /\ withdrawn' \in {withdrawn, withdrawn \cup {req[r].for}}
  /\ forgone' = forgone \cup {req[r].for}
  /\ Goto(r, "answer")
  /\ Failing
  /\ UNCHANGED <<panelVars, listVars, sends, undelivered>>

(* GetForemanTelegramChatID reads the record; the goroutine that sends the *)
(* message shares the context of the request.                              *)
GetChatID(r) ==
  /\ At(r, "chatid")
  /\ \/ /\ Become(r, [req[r] EXCEPT !.at = "stamp", !.calling = KeyOf[req[r].for] \in records])
        /\ Working
     \/ Goto(r, "stamp") /\ Failing
  /\ UNCHANGED <<panelVars, listVars, botVars>>

SendAlert(r) ==
  /\ req[r].calling
  /\ Become(r, [req[r] EXCEPT !.calling = FALSE])
  /\ UNCHANGED <<panelVars, listVars, botVars, failures>>

-----------------------------------------------------------------------------
(* SaveAdminNotification and SaveChatMessage: take the time, LPUSH, LTRIM. *)
Key(r) == KeyOf[req[r].for]
Entry(r) == <<req[r].for, req[r].time>>

Stamp(r) ==
  /\ At(r, "stamp")
  /\ clock' = clock + 1
  /\ Become(r, [req[r] EXCEPT !.at = "push", !.time = clock'])
  /\ UNCHANGED <<panelVars, log, mark, saved, botVars, failures>>

AtTheEnd(e, s) == Append(s, e)                                    \* mutant
Pushed(e, s) == <<e>> \o s

LPush(r) ==
  /\ At(r, "push")
  /\ log' = [log EXCEPT ![Key(r)] = Pushed(Entry(r), @)]
  /\ saved' = saved \cup {req[r].for}
  /\ Become(r, [req[r] EXCEPT !.at = "trim", !.time = 0])
  /\ UNCHANGED <<panelVars, mark, clock, botVars, failures>>

First(n, s) == SubSeq(s, 1, IF Len(s) < n THEN Len(s) ELSE n)

LTrim(r) ==
  /\ At(r, "trim")
  /\ log' = [log EXCEPT ![Key(r)] = First(Cap, @)]
  /\ Goto(r, "answer")
  /\ UNCHANGED <<panelVars, mark, clock, saved, botVars, failures>>

(* The pipeline fails, before LPUSH or between the two; nobody looks.      *)
SaveFails(r) ==
  /\ \/ At(r, "push") /\ forgone' = forgone \cup ({req[r].for} \ Replies)
     \/ At(r, "trim") /\ UNCHANGED forgone
  /\ Goto(r, "answer")
  /\ Failing
  /\ UNCHANGED <<panelVars, listVars, withdrawn, sends, undelivered>>

Detached(r) ==                                                    \* mutant
  /\ At(r, "answer")
  /\ Become(r, [Idle EXCEPT !.calling = req[r].calling])
  /\ UNCHANGED <<panelVars, listVars, botVars, failures>>

(* The handler returns, and with it ends the context of its goroutine.  A  *)
(* worker's message is acknowledged before; a reply of an operator is sent *)
(* by a goroutine with a context of its own.                               *)
Answer(r) ==
  /\ At(r, "answer")
  /\ Become(r, Idle)
  /\ UNCHANGED <<panelVars, listVars, botVars, failures>>

(* The acknowledgement cannot be sent, or the 200 does not arrive.         *)
AnswerFails(r) ==
  /\ At(r, "answer")
  /\ undelivered' = undelivered \cup ({req[r].for} \ Replies)
  /\ Become(r, Idle)
  /\ Failing
  /\ UNCHANGED <<panelVars, listVars, withdrawn, sends, forgone>>

(* The process is killed, with every request and goroutine in it. *)
Kill ==
  /\ \E r \in Requests : ~At(r, "idle")
  /\ undelivered' = undelivered \cup (Busy \cap Updates)
  /\ req' = [r \in Requests |-> Idle]
  /\ Failing
  /\ UNCHANGED <<panelVars, listVars, withdrawn, sends, forgone>>

-----------------------------------------------------------------------------
(* An operator answers a worker, each reply once. *)
SendWorkerChat(r, o, u) ==
  /\ At(r, "idle")
  /\ Room
  /\ o \in sessions
  /\ u \notin Busy \cup saved
  /\ Become(r, [Idle EXCEPT !.at = "stamp", !.for = u])
  /\ UNCHANGED <<panelVars, listVars, botVars, failures>>

(* listNotifications: LRANGE, then MarkNotificationsRead with the time it  *)
(* takes itself, whatever LRANGE answered; POST /admin/notifications/read  *)
(* is the same without the list.                                           *)
ListNotifications(r, o) ==
  /\ At(r, "idle")
  /\ o \in sessions
  /\ Become(r, [Idle EXCEPT !.at = "now", !.for = o])
  /\ UNCHANGED <<panelVars, listVars, botVars, failures>>

TakeTime(r) ==
  /\ At(r, "now")
  /\ Become(r, [req[r] EXCEPT !.at = "mark", !.time = clock])
  /\ UNCHANGED <<panelVars, listVars, botVars, failures>>

MarkRead(r) ==
  /\ At(r, "mark")
  /\ \/ mark' = [mark EXCEPT ![req[r].for] = req[r].time] /\ Working
     \/ UNCHANGED mark /\ Failing
  /\ Become(r, Idle)
  /\ UNCHANGED <<panelVars, log, clock, saved, botVars>>

ElementsOf(s) == {s[i] : i \in DOMAIN s}

AllOf(o) == ElementsOf(log[o])                                    \* mutant
(* CountUnreadAdminNotifications *)
Unread(o) == {e \in ElementsOf(log[o]) : e[2] > mark[o]}

-----------------------------------------------------------------------------
Handler(r) ==
  \/ GetVacancy(r) \/ CancelApply(r) \/ GetChatID(r)
  \/ Stamp(r) \/ LPush(r) \/ LTrim(r) \/ Answer(r)
  \/ TakeTime(r) \/ MarkRead(r)

Next ==
  \/ \E f \in Foremen : CreateForeman(f) \/ DeleteForeman(f)
  \/ \E o \in Operators : DoLogin(o) \/ EndSession(o)
  \/ \E r \in Requests :
       \/ \E u \in Updates : Send(r, u) \/ Redeliver(r, u)
       \/ \E o \in Operators : ListNotifications(r, o)
       \/ \E o \in Operators, u \in Replies : SendWorkerChat(r, o, u)
       \/ Handler(r) \/ SendAlert(r)
       \/ CancelFails(r) \/ SaveFails(r) \/ AnswerFails(r)
  \/ Kill

Spec == Init /\ [][Next]_vars

(* Goroutines run, Telegram repeats what was not answered, and an operator *)
(* who may keeps logging in and opening the list.                          *)
FairSpec ==
  /\ Spec
  /\ \A r \in Requests : WF_vars(Handler(r)) /\ WF_vars(SendAlert(r))
  /\ \A u \in Updates : WF_vars(\E r \in Requests : Redeliver(r, u))
  /\ \A o \in Operators :
       /\ WF_vars(DoLogin(o))
       /\ SF_vars(\E r \in Requests : ListNotifications(r, o))

-----------------------------------------------------------------------------
Steps == {"idle", "getvac", "cancel", "chatid", "stamp", "push", "trim",
          "answer", "now", "mark"}

(* The shape of the state: who a request serves fits its step. *)
TypeOK ==
  /\ records \subseteq Foremen /\ listed \subseteq Foremen /\ created \subseteq Foremen
  /\ sessions \subseteq Operators
  /\ log \in [Keys -> Seq(Entries)]
  /\ mark \in [Operators -> Nat]
  /\ clock \in 0 .. MaxEntries
  /\ saved \subseteq Updates \cup Replies
  /\ withdrawn \subseteq Cancels
  /\ undelivered \subseteq Updates /\ forgone \subseteq Updates
  /\ sends \in [Updates -> Nat]
  /\ failures \in Nat
  /\ req \in [Requests -> [at : Steps, for : {Nothing} \cup Operators \cup Updates \cup Replies,
                           known : BOOLEAN, calling : BOOLEAN, time : 0 .. MaxEntries]]
  /\ \A r \in Requests :
       /\ req[r].at \in {"getvac", "cancel", "chatid"} \/ req[r].calling => req[r].for \in Cancels
       /\ req[r].at \in {"stamp", "push", "trim", "answer"} => req[r].for \in Updates \cup Replies
       /\ req[r].at \in {"now", "mark"} => req[r].for \in Operators
       /\ At(r, "push") => req[r].time > 0

(* No cancellation and no message gets lost on its way to the list: it is  *)
(* in it, or was before newer ones pushed it out, or is being handled, or  *)
(* will be delivered again, or an error on its way was passed over.  It    *)
(* takes CancelApply to accept an application that a killed request has    *)
(* removed already (handleCancelMyJob, SaveAdminNotification,              *)
(* handleChatMessage, ServeHTTP's status).                                 *)
HandledIsRecorded ==
  \A u \in Updates :
    sends[u] > 0 => u \in saved \cup forgone \cup undelivered \cup Busy

(* LPUSH and LTRIM, which other requests may come between, add up to a     *)
(* list of the newest entries, of which an entry pushed later never takes  *)
(* the place of a newer one (SaveAdminNotification, SaveChatMessage).      *)
Recent == INSTANCE RecentLog WITH recent <- [k \in Keys |-> First(Cap, log[k])]

ImplementsRecentLog == Recent!Spec

(* When no more is saved for an operator who may log in, the count of      *)
(* unread notifications becomes 0 and stays 0, whatever old mark a slow    *)
(* page still writes (listNotifications, CountUnreadAdminNotifications).   *)
Quiet(o) == \A r \in Requests : At(r, "push") => Key(r) # o

BadgeClears ==
  \A o \in Operators :
    <>[](MayLogIn(o) /\ Quiet(o)) => <>[](Unread(o) = {})
=============================================================================
