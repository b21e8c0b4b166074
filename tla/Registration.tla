---------------------------- MODULE Registration ----------------------------
(***************************************************************************)
(* The registration dialogue of one worker (handlers.go), the profile      *)
(* record and the sets it is listed in (state.go), and the deletion of the *)
(* worker by the operator.  Telegram delivers updates over several         *)
(* connections and delivers an update again until it is answered with 200. *)
(*                                                                         *)
(* One Redis command is one step: a handler reads the profile, later       *)
(* writes back what it made of it, and other handlers run in between.  An  *)
(* update arrives with the first read of its handler.  A request may fail  *)
(* before any of its later steps, and after the last one; two saves may    *)
(* fail without a word.                                                    *)
(*                                                                         *)
(* Abstractions: of an answer only the city it names is kept; the text of  *)
(* an answer is chosen when it is interpreted; of EditingField the three   *)
(* values no handler compares are "other"; of CityChangedAt only whether   *)
(* the 14 days are running.  Buttons once sent stay in the chat; the menu  *)
(* button of the profile is left out: it sends a registered worker another *)
(* edit button.                                                            *)
(***************************************************************************)
EXTENDS Naturals

CONSTANTS
  Requests,      \* the requests being handled at a time
  Cities,        \* the cities a place or an answer may name
  Kinds,         \* the kinds of updates the worker sends
  MaxDeletions,  \* bound on deletions of the worker
  MaxFailures    \* bound on failures

ASSUME KindsAssumption ==
  Kinds \subseteq {"text", "start", "contact", "location", "confirm", "edit", "support"}
ASSUME BoundsAssumption == MaxDeletions \in Nat /\ MaxFailures \in Nat

VARIABLES
  profile,       \* workbot:user:<id>:profile, Empty when there is none
  all,           \* is the worker in workbot:workers:all
  members,       \* the cities with the worker in workbot:city:<city>:workers
  buttons,       \* has a summary with its buttons, confirm and edit, been sent
  undelivered,   \* the updates Telegram will deliver again
  req,           \* the requests being handled
  patient,       \* from now on the worker only answers what is asked
  deletions, failures

vars == <<profile, all, members, buttons, undelivered, req, patient, deletions, failures>>

NoCity == "no city"
ASSUME CitiesAssumption == NoCity \notin Cities

Empty == [state |-> "new", editing |-> "", city |-> NoCity, cooling |-> FALSE]

(* What module.go and handleCallback tell apart; "text" is any text that   *)
(* is no command and no button of the menu.                                *)
Update(kind, city) == [kind |-> kind, city |-> city]
Updates ==
  [kind : Kinds \ {"location"}, city : {NoCity}] \cup [kind : Kinds \cap {"location"}, city : Cities]

(* What a request of the operator carries, and an idle one shows. *)
Deletion == [kind |-> "delete", city |-> NoCity]

Request(at, u, p, then) == [at |-> at, u |-> u, p |-> p, then |-> then]
Idle == Request("idle", Deletion, Empty, "done")

Init ==
  /\ profile = Empty
  /\ all = FALSE
  /\ members = {}
  /\ buttons = FALSE
  /\ undelivered = {}
  /\ req = [r \in Requests |-> Idle]
  /\ patient = FALSE
  /\ deletions = 0 /\ failures = 0

-----------------------------------------------------------------------------
(* What the handler of update u will write, having read profile p: the     *)
(* profiles it may save and what it does afterwards.                       *)
Saving(p, then) == [p |-> p, then |-> then]
Registered(p) == p.state \in {"registered", "support"}

(* handleStart: back to the menu, or to the first question.  A changed     *)
(* user name costs a registered worker one more save of the same profile.  *)
OnStart(p) ==
  CASE p.state = "registered" -> {Saving(p, "done")}
    [] p.state = "support" ->
         {Saving([p EXCEPT !.state = "registered"], then) : then \in {"done", "save"}}
    [] OTHER -> {Saving([p EXCEPT !.state = "await_name"], "done")}

ContactConfirms(p) ==                                             \* mutant
  {Saving([p EXCEPT !.editing = "", !.state = "await_confirm"], "send")}

ContactAsksAgain(p) ==                                            \* mutant
  IF p.editing = "phone"
  THEN {Saving(p, "send")}
  ELSE {Saving([p EXCEPT !.state = "await_loc"], "done")}

OnContact(p) ==
  IF p.editing = "phone"
  THEN {Saving([p EXCEPT !.editing = "", !.state = "await_confirm"], "send")}
  ELSE {Saving([p EXCEPT !.state = "await_loc"], "done")}

(* A new city: the 14 days start only when the city was being edited. *)
Moved(p, c) ==
  [p EXCEPT !.city = c, !.cooling = @ \/ p.editing = "location",
            !.editing = "", !.state = "await_confirm"]

(* The geocoder answers or fails, before the profile is read. *)
OnLocation(p, c) ==
  {Saving(Moved(p, c), "send"), Saving([p EXCEPT !.state = "await_city_manual"], "done")}

OnConfirm(p) == {Saving([p EXCEPT !.state = "registered", !.editing = ""], "list")}

EditUnheardOf(p) == {Saving([p EXCEPT !.state = "edit"], "done")} \* mutant

OnEdit(p) == {Saving([p EXCEPT !.state = "await_edit"], "done")}

OnSupport(p) ==
  IF p.state = "registered" THEN {Saving([p EXCEPT !.state = "support"], "done")} ELSE {}

Savings(u, p) ==
  CASE u.kind = "start"    -> OnStart(p)
    [] u.kind = "contact"  -> OnContact(p)
    [] u.kind = "location" -> OnLocation(p, u.city)
    [] u.kind = "confirm"  -> OnConfirm(p)
    [] u.kind = "edit"     -> OnEdit(p)
    [] u.kind = "support"  -> OnSupport(p)
    [] OTHER               -> {}

(* What handleText will write, once it has taken state s from one read and *)
(* the profile from a second one.                                          *)
Numbered(p) ==
  {[p EXCEPT !.state = "await_name", !.editing = "other"],
   [p EXCEPT !.state = "await_dob", !.editing = "other"],
   [p EXCEPT !.state = "await_citizen", !.editing = "other"],
   [p EXCEPT !.state = "await_phone", !.editing = "phone"]}
    \cup IF p.cooling THEN {} ELSE {[p EXCEPT !.state = "await_loc", !.editing = "location"]}

OnText(s, p) ==
  CASE s = "new"           -> OnStart(p)
    [] s = "await_name"    -> {Saving([p EXCEPT !.state = "await_dob"], "done")}
    [] s = "await_dob"     -> {Saving([p EXCEPT !.state = "await_citizen"], "done")}
    [] s = "await_citizen" -> {Saving([p EXCEPT !.state = "await_phone"], "done")}
    [] s = "await_edit"    -> {Saving(q, "done") : q \in Numbered(p)}
    [] s = "await_city_manual" -> {Saving(Moved(p, c), "send") : c \in Cities}
    [] OTHER -> {}

-----------------------------------------------------------------------------
(* The steps of a request. *)
Become(r, q) == req' = [req EXCEPT ![r] = q]
At(r, label) == req[r].at = label

(* The first read.  A text is dispatched on the state read here. *)
Handle(r, u) ==
  /\ At(r, "idle")
  /\ \/ /\ u.kind = "text"
        /\ Become(r, Request("dispatched", u, profile, "done"))
     \/ \E s \in Savings(u, profile) : Become(r, Request("save", u, s.p, s.then))
     \/ /\ u.kind # "text"
        /\ Savings(u, profile) = {} \/ (u.kind = "start" /\ profile.state = "registered")
        /\ Become(r, Request("done", u, Empty, "done"))

(* Telegram delivers a fresh update: a button must have been sent. *)
Pressable(u) == u.kind \in {"confirm", "edit"} => buttons

Receive(r, u) ==
  /\ ~patient
  /\ Pressable(u)
  /\ Handle(r, u)
  /\ UNCHANGED <<profile, all, members, buttons, undelivered, patient, deletions, failures>>

(* Telegram delivers an update again. *)
Redeliver(r, u) ==
  /\ u \in undelivered
  /\ undelivered' = undelivered \ {u}
  /\ Handle(r, u)
  /\ UNCHANGED <<profile, all, members, buttons, patient, deletions, failures>>

(* The updates that answer what the worker was last asked. *)
Asked(u) ==
  LET s == profile.state
  IN  CASE s \in {"new", "support"} -> u.kind = "start"
        [] s = "await_phone" -> u.kind = "contact"
        [] s = "await_loc" -> u.kind = "location"
        [] s = "await_confirm" /\ buttons -> u.kind = "confirm"
        [] s = "registered" -> FALSE
        [] OTHER -> u.kind = "text"

Answer(r, u) ==
  /\ patient
  /\ Asked(u)
  /\ Handle(r, u)
  /\ UNCHANGED <<profile, all, members, buttons, undelivered, patient, deletions, failures>>

(* The second read of a text. *)
Interpret(r) ==
  /\ At(r, "dispatched")
  /\ \/ /\ req[r].p.state = "await_confirm"
        /\ Become(r, Request("send", req[r].u, Empty, "done"))
     \/ \E s \in OnText(req[r].p.state, profile) :
          Become(r, Request("save", req[r].u, s.p, s.then))
  /\ UNCHANGED <<profile, all, members, buttons, undelivered, patient, deletions, failures>>

(* A text that only gets an answer: no date, no number, the city edited    *)
(* too early, a state that asks for no text, or a worker registered since. *)
AnswerOnly(r) ==
  /\ At(r, "dispatched")
  /\ \/ req[r].p.state \in {"await_dob", "await_edit", "await_phone", "await_loc",
                            "registered", "support"}
     \/ req[r].p.state = "new" /\ profile.state = "registered"
  /\ Become(r, Request("done", req[r].u, Empty, "done"))
  /\ UNCHANGED <<profile, all, members, buttons, undelivered, patient, deletions, failures>>

SaveProfile(r) ==
  /\ At(r, "save")
  /\ profile' = req[r].p
  /\ Become(r, [req[r] EXCEPT !.at = req[r].then, !.then = "done"])
  /\ UNCHANGED <<all, members, buttons, undelivered, patient, deletions, failures>>

(* The two commands of RegisterUser's pipeline. *)
ListAll(r) ==
  /\ At(r, "list")
  /\ all' = TRUE
  /\ Become(r, [req[r] EXCEPT !.at = "list city"])
  /\ UNCHANGED <<profile, members, buttons, undelivered, patient, deletions, failures>>

ListCity(r) ==
  /\ At(r, "list city")
  /\ members' = members \cup {req[r].p.city}
  /\ Become(r, [req[r] EXCEPT !.at = "done"])
  /\ UNCHANGED <<profile, all, buttons, undelivered, patient, deletions, failures>>

SendConfirmSummary(r) ==
  /\ At(r, "send")
  /\ buttons' = TRUE
  /\ Become(r, [req[r] EXCEPT !.at = "done"])
  /\ UNCHANGED <<profile, all, members, undelivered, patient, deletions, failures>>

Reply(r) ==
  /\ At(r, "done")
  /\ Become(r, Idle)
  /\ UNCHANGED <<profile, all, members, buttons, undelivered, patient, deletions, failures>>

-----------------------------------------------------------------------------
(* DeleteWorker reads the city, then runs its pipeline.  The page may be   *)
(* an old one: whether the worker is listed is not asked.                  *)
DeleteWorker(r) ==
  /\ At(r, "idle")
  /\ deletions < MaxDeletions
  /\ deletions' = deletions + 1
  /\ Become(r, Request("erase", Deletion, [Empty EXCEPT !.city = profile.city], "done"))
  /\ UNCHANGED <<profile, all, members, buttons, undelivered, patient, failures>>

Erase(r) ==
  /\ At(r, "erase")
  /\ profile' = Empty
  /\ Become(r, [req[r] EXCEPT !.at = "unlist"])
  /\ UNCHANGED <<all, members, buttons, undelivered, patient, deletions, failures>>

Unlist(r) ==
  /\ At(r, "unlist")
  /\ all' = FALSE
  /\ Become(r, IF req[r].p.city = NoCity THEN Idle ELSE [req[r] EXCEPT !.at = "unlist city"])
  /\ UNCHANGED <<profile, members, buttons, undelivered, patient, deletions, failures>>

UnlistCity(r) ==
  /\ At(r, "unlist city")
  /\ members' = members \ {req[r].p.city}
  /\ Become(r, Idle)
  /\ UNCHANGED <<profile, all, buttons, undelivered, patient, deletions, failures>>

-----------------------------------------------------------------------------
(* A request ends with an error or with the process: an update that was    *)
(* not answered with 200 is delivered again.                               *)
FailSilently(r) ==                                                \* mutant
  /\ ~At(r, "idle")
  /\ failures < MaxFailures
  /\ failures' = failures + 1
  /\ Become(r, Idle)
  /\ UNCHANGED <<profile, all, members, buttons, undelivered, patient, deletions>>

Fail(r) ==
  /\ ~At(r, "idle")
  /\ failures < MaxFailures
  /\ failures' = failures + 1
  /\ undelivered' = undelivered \cup ({req[r].u} \ {Deletion})
  /\ Become(r, Idle)
  /\ UNCHANGED <<profile, all, members, buttons, patient, deletions>>

(* handleStart goes on when a save fails, and answers 200; RegisterUser    *)
(* does not.                                                               *)
SaveIgnored(r) ==
  /\ At(r, "save")
  /\ req[r].p.state = "registered" /\ req[r].then \in {"done", "save"}
  /\ failures < MaxFailures
  /\ failures' = failures + 1
  /\ Become(r, [req[r] EXCEPT !.at = req[r].then, !.then = "done"])
  /\ UNCHANGED <<profile, all, members, buttons, undelivered, patient, deletions>>

(* 14 days pass; no request takes that long. *)
CooldownEnds ==
  /\ profile.cooling
  /\ \A r \in Requests : At(r, "idle")
  /\ profile' = [profile EXCEPT !.cooling = FALSE]
  /\ UNCHANGED <<all, members, buttons, undelivered, req, patient, deletions, failures>>

BecomePatient ==
  /\ ~patient
  /\ patient' = TRUE
  /\ UNCHANGED <<profile, all, members, buttons, undelivered, req, deletions, failures>>

Proceed(r) ==
  \/ SaveProfile(r) \/ ListAll(r) \/ ListCity(r) \/ SendConfirmSummary(r) \/ Reply(r)
  \/ Erase(r) \/ Unlist(r) \/ UnlistCity(r)

Next ==
  \/ \E r \in Requests :
       \/ \E u \in Updates : Receive(r, u) \/ Redeliver(r, u) \/ Answer(r, u)
       \/ Interpret(r) \/ AnswerOnly(r) \/ Proceed(r)
       \/ DeleteWorker(r) \/ Fail(r) \/ SaveIgnored(r)
  \/ CooldownEnds \/ BecomePatient

Spec == Init /\ [][Next]_vars

(* Handlers finish, Telegram does deliver again, and a patient worker goes *)
(* on answering and in the end gives answers that are understood.          *)
FairSpec ==
  /\ Spec
  /\ \A r \in Requests :
       /\ WF_vars(Proceed(r)) /\ WF_vars(AnswerOnly(r)) /\ SF_vars(Interpret(r))
       /\ WF_vars(\E u \in Updates : Redeliver(r, u) \/ Answer(r, u))
-----------------------------------------------------------------------------
Profiles == [state : {"new", "await_name", "await_dob", "await_citizen", "await_phone",
                      "await_loc", "await_city_manual", "await_confirm", "await_edit",
                      "registered", "support"},
             editing : {"", "other", "phone", "location"},
             city : Cities \cup {NoCity}, cooling : BOOLEAN]
Labels == {"idle", "dispatched", "save", "list", "list city", "send", "done",
           "erase", "unlist", "unlist city"}
Thens == {"done", "save", "send", "list"}

(* Every variable has its type: the profile is in a state of state.go.     *)
TypeOK ==
  /\ profile \in Profiles
  /\ all \in BOOLEAN /\ buttons \in BOOLEAN /\ patient \in BOOLEAN
  /\ members \subseteq Cities \cup {NoCity}
  /\ undelivered \subseteq Updates
  /\ req \in [Requests -> [at : Labels, u : Updates \cup {Deletion}, p : Profiles,
                           then : Thens]]
  /\ deletions \in 0 .. MaxDeletions /\ failures \in 0 .. MaxFailures

Listed(p) == all /\ p.city \in members
Confirming ==
  \/ \E r \in Requests : req[r].u.kind = "confirm" /\ req[r].at \in {"save", "list", "list city"}
  \/ Update("confirm", NoCity) \in undelivered

(* A registered worker is among the workers and in the city of the profile,*)
(* where vacancies are announced, or a confirmation is on its way: being   *)
(* handled, or to be delivered again.                                      *)
RegisteredIsListed == Registered(profile) => Listed(profile) \/ Confirming

(* Who was asked to confirm, or did, has a city, unless an operator        *)
(* deleted the worker, whose old buttons go on working.                    *)
KnowsCity ==
  profile.state \in {"await_confirm", "registered", "support"} /\ profile.city = NoCity
    => deletions > 0

(* A worker who from some time on only answers what is asked ends up       *)
(* registered and listed, whatever was edited, interrupted, deleted or     *)
(* delivered again before.                                                 *)
PatientGetsListed ==
  patient ~> profile.state = "registered" /\ Listed(profile)
=============================================================================
