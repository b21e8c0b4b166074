------------------------- MODULE RegistrationProofs -------------------------
(***************************************************************************)
(* Proofs about Registration, for any number of requests at a time and any *)
(* cities.                                                                 *)
(***************************************************************************)
EXTENDS Registration, TLAPS

(* What a handler makes of profile p is harmless to the listing: it does   *)
(* not go on to list the worker, and makes nobody registered and moves     *)
(* nobody who stays registered.                                            *)
Harmless(s, p) ==
  s.then # "list" /\ (Registered(s.p) => Registered(p) /\ s.p.city = p.city)
Results == [p : Profiles, then : Thens]

Unregistered == {"await_name", "await_dob", "await_citizen", "await_phone",
                 "await_loc", "await_city_manual", "await_confirm", "await_edit"}

(* A profile on the way of a dialogue is well typed and not registered. *)
LEMMA InDialogue ==
  ASSUME NEW p \in Profiles, NEW state \in Unregistered,
         NEW editing \in {"", "other", "phone", "location"}
  PROVE  /\ [p EXCEPT !.state = state] \in Profiles
         /\ ~Registered([p EXCEPT !.state = state])
         /\ [p EXCEPT !.state = state, !.editing = editing] \in Profiles
         /\ ~Registered([p EXCEPT !.state = state, !.editing = editing])
         /\ [p EXCEPT !.editing = editing, !.state = state] \in Profiles
         /\ ~Registered([p EXCEPT !.editing = editing, !.state = state])
BY DEF Profiles, Unregistered, Registered

(* So is one that has moved. *)
LEMMA MovedProfile ==
  ASSUME NEW p \in Profiles, NEW c \in Cities
  PROVE  Moved(p, c) \in Profiles /\ ~Registered(Moved(p, c))
BY DEF Profiles, Moved, Registered

(* Saving an unregistered profile is harmless. *)
LEMMA SavingDialogue ==
  ASSUME NEW p \in Profiles, NEW q \in Profiles, ~Registered(q), NEW then \in Thens \ {"list"}
  PROVE  Saving(q, then) \in Results /\ Harmless(Saving(q, then), p)
<1>1. Saving(q, then).p = q /\ Saving(q, then).then = then
  BY DEF Saving
<1>2. Saving(q, then) \in Results
  BY DEF Saving, Results, Thens
<1> QED
  BY <1>1, <1>2 DEF Harmless, Thens

(* Back to the menu, or to the first question. *)
LEMMA StartHarmless ==
  ASSUME NEW p \in Profiles, NEW s \in OnStart(p)
  PROVE  s \in Results /\ Harmless(s, p)
<1>1. CASE p.state = "registered"
  <2>1. s = Saving(p, "done")
    BY <1>1 DEF OnStart
  <2>2. s.p = p /\ s.then = "done" /\ s \in Results
    BY <2>1 DEF Saving, Results, Thens
  <2> QED
    BY <1>1, <2>2 DEF Harmless, Registered
<1>2. CASE p.state = "support"
  <2> DEFINE q == [p EXCEPT !.state = "registered"]
  <2>1. PICK then \in {"done", "save"} : s = Saving(q, then)
    BY <1>2 DEF OnStart
  <2>2. q \in Profiles /\ q.city = p.city
    BY DEF Profiles
  <2>3. s.p = q /\ s.then = then /\ s \in Results
    BY <2>1, <2>2 DEF Saving, Results, Thens
  <2> QED
    BY <1>2, <2>2, <2>3 DEF Harmless, Registered
<1>3. CASE p.state \notin {"registered", "support"}
  <2>1. s = Saving([p EXCEPT !.state = "await_name"], "done")
    BY <1>3 DEF OnStart
  <2>2. "await_name" \in Unregistered /\ "done" \in Thens \ {"list"}
    BY DEF Unregistered, Thens
  <2> QED
    BY <2>1, <2>2, InDialogue, SavingDialogue
<1> QED
  BY <1>1, <1>2, <1>3

(* What the handler of an update saves: only a confirmation registers. *)
LEMMA SavingsOf ==
  ASSUME NEW p \in Profiles, NEW u \in Updates, NEW s \in Savings(u, p)
  PROVE  /\ s \in Results
         /\ \/ u.kind = "confirm" /\ s.then = "list"
            \/ Harmless(s, p)
<1> USE DEF Unregistered, Thens
<1>1. CASE u.kind = "start"
  BY <1>1, StartHarmless DEF Savings
<1>2. CASE u.kind = "contact"
  <2>1. \/ s = Saving([p EXCEPT !.editing = "", !.state = "await_confirm"], "send")
        \/ s = Saving([p EXCEPT !.state = "await_loc"], "done")
    BY <1>2 DEF Savings, OnContact
  <2>2. CASE s = Saving([p EXCEPT !.editing = "", !.state = "await_confirm"], "send")
    BY <2>2, InDialogue, SavingDialogue
  <2>3. CASE s = Saving([p EXCEPT !.state = "await_loc"], "done")
    BY <2>3, InDialogue, SavingDialogue
  <2> QED
    BY <2>1, <2>2, <2>3
<1>3. CASE u.kind = "location"
  <2>1. u.city \in Cities
    BY <1>3 DEF Updates
  <2>2. \/ s = Saving(Moved(p, u.city), "send")
        \/ s = Saving([p EXCEPT !.state = "await_city_manual"], "done")
    BY <1>3 DEF Savings, OnLocation
  <2>3. CASE s = Saving(Moved(p, u.city), "send")
    BY <2>1, <2>3, MovedProfile, SavingDialogue
  <2>4. CASE s = Saving([p EXCEPT !.state = "await_city_manual"], "done")
    BY <2>4, InDialogue, SavingDialogue
  <2> QED
    BY <2>2, <2>3, <2>4
<1>4. CASE u.kind = "confirm"
  <2>1. s = Saving([p EXCEPT !.state = "registered", !.editing = ""], "list")
    BY <1>4 DEF Savings, OnConfirm
  <2>2. [p EXCEPT !.state = "registered", !.editing = ""] \in Profiles
    BY DEF Profiles
  <2> QED
    BY <1>4, <2>1, <2>2 DEF Saving, Results
<1>5. CASE u.kind = "edit"
  <2>1. s = Saving([p EXCEPT !.state = "await_edit"], "done")
    BY <1>5 DEF Savings, OnEdit
  <2> QED
    BY <2>1, InDialogue, SavingDialogue
<1>6. CASE u.kind = "support"
  <2> DEFINE q == [p EXCEPT !.state = "support"]
  <2>1. p.state = "registered" /\ s = Saving(q, "done")
    BY <1>6 DEF Savings, OnSupport
  <2>2. q \in Profiles /\ q.city = p.city
    BY DEF Profiles
  <2>3. s.p = q /\ s.then = "done" /\ s \in Results
    BY <2>1, <2>2 DEF Saving, Results
  <2> QED
    BY <2>1, <2>2, <2>3 DEF Harmless, Registered
<1> QED
  BY <1>1, <1>2, <1>3, <1>4, <1>5, <1>6 DEF Savings

(* What the handler of a text saves is harmless. *)
LEMMA TextsOf ==
  ASSUME NEW p \in Profiles, NEW state, NEW s \in OnText(state, p)
  PROVE  s \in Results /\ Harmless(s, p)
<1> USE DEF Unregistered, Thens
<1>1. CASE state = "new"
  BY <1>1, StartHarmless DEF OnText
<1>2. CASE state \in {"await_name", "await_dob", "await_citizen"}
  <2>1. PICK next \in {"await_dob", "await_citizen", "await_phone"} :
          s = Saving([p EXCEPT !.state = next], "done")
    BY <1>2 DEF OnText
  <2> QED
    BY <2>1, InDialogue, SavingDialogue
<1>3. CASE state = "await_edit"
  <2>1. PICK q \in Numbered(p) : s = Saving(q, "done")
    BY <1>3 DEF OnText
  <2>2. PICK next \in Unregistered, editing \in {"", "other", "phone", "location"} :
          q = [p EXCEPT !.state = next, !.editing = editing]
    BY DEF Numbered
  <2> QED
    BY <2>1, <2>2, InDialogue, SavingDialogue
<1>4. CASE state = "await_city_manual"
  <2>1. PICK c \in Cities : s = Saving(Moved(p, c), "send")
    BY <1>4 DEF OnText
  <2> QED
    BY <2>1, MovedProfile, SavingDialogue
<1> QED
  BY <1>1, <1>2, <1>3, <1>4 DEF OnText

-----------------------------------------------------------------------------
(* At the start nothing is known of the worker. *)
LEMMA InitTypes == Init => TypeOK
<1> SUFFICES ASSUME Init PROVE TypeOK
  OBVIOUS
<1>1. Empty \in Profiles
  BY DEF Empty, Profiles
<1>2. Idle \in [at : Labels, u : Updates \cup {Deletion}, p : Profiles, then : Thens]
  BY <1>1 DEF Idle, Request, Labels, Thens
<1>3. req \in [Requests -> [at : Labels, u : Updates \cup {Deletion},
                           p : Profiles, then : Thens]]
  BY <1>2 DEF Init
<1>4. deletions \in 0 .. MaxDeletions /\ failures \in 0 .. MaxFailures
  BY BoundsAssumption DEF Init
<1> QED
  BY <1>1, <1>3, <1>4 DEF Init, TypeOK

(* A request that takes a next step takes it from a well-typed state to a  *)
(* well-typed state.                                                       *)
RequestType == [at : Labels, u : Updates \cup {Deletion}, p : Profiles, then : Thens]

LEMMA BecomeTypes ==
  ASSUME req \in [Requests -> RequestType], NEW r \in Requests, NEW q \in RequestType, Become(r, q)
  PROVE  /\ req' \in [Requests -> RequestType]
         /\ req'[r] = q
         /\ \A h \in Requests \ {r} : req'[h] = req[h]
BY DEF Become

(* The first step of a request: what it may have become. *)
LEMMA Handled ==
  ASSUME profile \in Profiles, NEW r \in Requests, NEW u \in Updates, Handle(r, u)
  PROVE  \E q \in RequestType :
           /\ At(r, "idle") /\ Become(r, q) /\ q.u = u
           /\ \/ q.at \in {"dispatched", "done"}
              \/ /\ q.at = "save"
                 /\ \/ u.kind = "confirm" /\ q.then = "list"
                    \/ Harmless(q, profile)
<1>1. CASE u.kind = "text" /\ Become(r, Request("dispatched", u, profile, "done"))
  <2>1. Request("dispatched", u, profile, "done") \in RequestType
    BY DEF Request, RequestType, Labels, Thens
  <2> QED
    BY <1>1, <2>1 DEF Handle, Request
<1>2. CASE Become(r, Request("done", u, Empty, "done"))
  <2>1. Request("done", u, Empty, "done") \in RequestType
    BY DEF Request, RequestType, Labels, Thens, Empty, Profiles
  <2> QED
    BY <1>2, <2>1 DEF Handle, Request
<1>3. ASSUME NEW s \in Savings(u, profile), Become(r, Request("save", u, s.p, s.then))
      PROVE  \E q \in RequestType :
               /\ Become(r, q) /\ q.u = u /\ q.at = "save"
               /\ \/ u.kind = "confirm" /\ q.then = "list"
                  \/ Harmless(q, profile)
  <2> DEFINE q == Request("save", u, s.p, s.then)
  <2>1. /\ s.p \in Profiles /\ s.then \in Thens
        /\ (u.kind = "confirm" /\ s.then = "list") \/ Harmless(s, profile)
    BY SavingsOf DEF Results
  <2>2. q \in RequestType
    BY <2>1 DEF Request, RequestType, Labels
  <2>3. q.u = u /\ q.at = "save" /\ q.p = s.p /\ q.then = s.then
    BY DEF Request
  <2>4. Become(r, q)
    BY <1>3
  <2> HIDE DEF q
  <2>5. \/ u.kind = "confirm" /\ q.then = "list"
        \/ Harmless(q, profile)
    BY <2>1, <2>3 DEF Harmless
  <2> QED
    BY <2>2, <2>3, <2>4, <2>5
<1> QED
  BY <1>1, <1>2, <1>3 DEF Handle

(* Every step keeps the types. *)
LEMMA NextTypes == TypeOK /\ [Next]_vars => TypeOK'
<1> SUFFICES ASSUME TypeOK, [Next]_vars PROVE TypeOK'
  OBVIOUS
<1>0. /\ req \in [Requests -> RequestType] /\ profile \in Profiles
      /\ undelivered \subseteq Updates
      /\ Empty \in Profiles
  BY DEF TypeOK, RequestType, Empty, Profiles
<1>1. ASSUME NEW r \in Requests, NEW u \in Updates, Handle(r, u)
      PROVE  req' \in [Requests -> RequestType]
  BY <1>0, <1>1, Handled, BecomeTypes
<1>2. ASSUME NEW r \in Requests, NEW u \in Updates,
             Receive(r, u) \/ Redeliver(r, u) \/ Answer(r, u)
      PROVE  TypeOK'
  BY <1>1, <1>2 DEF Receive, Redeliver, Answer, TypeOK, RequestType
<1>3. ASSUME NEW r \in Requests, NEW at \in Labels, NEW p \in Profiles, NEW then \in Thens
      PROVE  /\ [req[r] EXCEPT !.at = at] \in RequestType
             /\ [req[r] EXCEPT !.at = at, !.then = then] \in RequestType
             /\ Request(at, req[r].u, p, then) \in RequestType
             /\ Request(at, Deletion, p, then) \in RequestType
             /\ req[r].u \in Updates \cup {Deletion} /\ req[r].p \in Profiles
             /\ Idle \in RequestType
  BY <1>0, <1>3 DEF RequestType, Request, Idle, Labels, Thens
<1>4. ASSUME NEW r \in Requests, Interpret(r)
      PROVE  TypeOK'
  <2>1. PICK at \in Labels, p \in Profiles, then \in Thens :
          Become(r, Request(at, req[r].u, p, then))
    <3>1. CASE Become(r, Request("send", req[r].u, Empty, "done"))
      BY <1>0, <3>1 DEF Labels, Thens
    <3>2. ASSUME NEW s \in OnText(req[r].p.state, profile),
                 Become(r, Request("save", req[r].u, s.p, s.then))
          PROVE  \E at \in Labels, p \in Profiles, then \in Thens :
                   Become(r, Request(at, req[r].u, p, then))
      <4>1. s.p \in Profiles /\ s.then \in Thens /\ "save" \in Labels
        BY <1>0, TextsOf DEF Results, Labels
      <4> QED
        BY <3>2, <4>1
    <3> QED
      BY <1>4, <3>1, <3>2 DEF Interpret
  <2>2. req' \in [Requests -> RequestType]
    BY <1>0, <1>3, <2>1, BecomeTypes
  <2> QED
    BY <1>4, <2>2 DEF Interpret, TypeOK, RequestType
<1>5. ASSUME NEW r \in Requests, AnswerOnly(r) \/ SendConfirmSummary(r) \/ Reply(r)
      PROVE  TypeOK'
  <2>1. req' \in [Requests -> RequestType]
    BY <1>0, <1>3, <1>5, BecomeTypes DEF AnswerOnly, SendConfirmSummary, Reply, Labels, Thens
  <2> QED
    BY <1>5, <2>1 DEF AnswerOnly, SendConfirmSummary, Reply, TypeOK, RequestType
<1>6. ASSUME NEW r \in Requests, SaveProfile(r)
      PROVE  TypeOK'
  <2>1. req[r].then \in Labels /\ req[r].p \in Profiles /\ "done" \in Thens
    BY <1>0 DEF RequestType, Labels, Thens
  <2>2. req' \in [Requests -> RequestType]
    BY <1>0, <1>3, <1>6, <2>1, BecomeTypes DEF SaveProfile
  <2> QED
    BY <1>6, <2>1, <2>2 DEF SaveProfile, TypeOK, RequestType
<1>7. ASSUME NEW r \in Requests, ListAll(r) \/ ListCity(r) \/ UnlistCity(r) \/ Unlist(r) \/ Erase(r)
      PROVE  TypeOK'
  <2>1. req' \in [Requests -> RequestType]
    BY <1>0, <1>3, <1>7, BecomeTypes
    DEF ListAll, ListCity, UnlistCity, Unlist, Erase, Labels, Thens
  <2>2. req[r].p.city \in Cities \cup {NoCity}
    BY <1>0 DEF RequestType, Profiles
  <2> QED
    BY <1>0, <1>7, <2>1, <2>2
    DEF ListAll, ListCity, UnlistCity, Unlist, Erase, TypeOK, RequestType
<1>8. ASSUME NEW r \in Requests, DeleteWorker(r)
      PROVE  TypeOK'
  <2>1. [Empty EXCEPT !.city = profile.city] \in Profiles
    BY <1>0 DEF Profiles, Empty
  <2>2. req' \in [Requests -> RequestType]
    BY <1>0, <1>3, <1>8, <2>1, BecomeTypes DEF DeleteWorker, Labels, Thens
  <2>3. deletions' \in 0 .. MaxDeletions
    BY <1>8, BoundsAssumption DEF DeleteWorker, TypeOK
  <2> QED
    BY <1>8, <2>2, <2>3 DEF DeleteWorker, TypeOK, RequestType
<1>9. ASSUME NEW r \in Requests, Fail(r)
      PROVE  TypeOK'
  <2>1. req' \in [Requests -> RequestType]
    BY <1>0, <1>3, <1>9, BecomeTypes DEF Fail, Labels, Thens
  <2>2. failures' \in 0 .. MaxFailures
    BY <1>9, BoundsAssumption DEF Fail, TypeOK
  <2>3. undelivered' \subseteq Updates
    <3>1. req[r].u \in Updates \cup {Deletion}
      BY <1>0 DEF RequestType
    <3> QED
      BY <1>0, <1>9, <3>1 DEF Fail
  <2> QED
    BY <1>9, <2>1, <2>2, <2>3 DEF Fail, TypeOK, RequestType
<1>12. ASSUME NEW r \in Requests, SaveIgnored(r)
      PROVE  TypeOK'
  <2>1. req[r].then \in Labels /\ "done" \in Thens
    BY <1>12 DEF SaveIgnored, Labels, Thens
  <2>2. req' \in [Requests -> RequestType]
    BY <1>0, <1>3, <1>12, <2>1, BecomeTypes DEF SaveIgnored
  <2>3. failures' \in 0 .. MaxFailures
    BY <1>12, BoundsAssumption DEF SaveIgnored, TypeOK
  <2> QED
    BY <1>12, <2>2, <2>3 DEF SaveIgnored, TypeOK, RequestType
<1>10. CASE CooldownEnds
  <2>1. profile' \in Profiles
    BY <1>0, <1>10 DEF CooldownEnds, Profiles
  <2> QED
    BY <1>10, <2>1 DEF CooldownEnds, TypeOK
<1>11. CASE BecomePatient \/ UNCHANGED vars
  BY <1>11 DEF BecomePatient, vars, TypeOK
<1> QED
  BY <1>2, <1>4, <1>5, <1>6, <1>7, <1>8, <1>9, <1>10, <1>11, <1>12 DEF Next, Proceed

(* Whatever arrives, fails and is deleted, the worker's records are well   *)
(* typed.                                                                  *)
THEOREM RegistrationTypes == Spec => []TypeOK
BY InitTypes, NextTypes, PTL DEF Spec

-----------------------------------------------------------------------------
(* A registered profile is listed, or the request that will list it is     *)
(* past its save.  The same holds for a registered profile that a request  *)
(* is about to save.                                                       *)
Lists(q) == q.at \in {"list", "list city"}
DueIn(c) == c \in members \/ \E r \in Requests : Lists(req[r]) /\ req[r].p.city = c
Due(p) ==
  Registered(p) => /\ all \/ \E r \in Requests : At(r, "list")
                   /\ DueIn(p.city)

Confirms(q) == q.u.kind = "confirm"
RequestDue(q) ==
  /\ Lists(q) => Confirms(q)
  /\ q.at = "save" => \/ Confirms(q) /\ q.then = "list"
                      \/ q.then # "list" /\ Due(q.p)
  /\ q.at \notin {"erase", "unlist", "unlist city"}

ListInv == Due(profile) /\ \A r \in Requests : RequestDue(req[r])

(* A step that writes none of the sets, and moves a request between places *)
(* where it lists nobody, leaves due what is due.                          *)
LEMMA DueKept ==
  ASSUME NEW p, NEW r \in Requests, req \in [Requests -> RequestType], req' \in [Requests -> RequestType],
         all => all', members \subseteq members',
         \A h \in Requests \ {r} : req'[h] = req[h],
         Lists(req[r]) => \/ Lists(req'[r]) /\ req'[r].p = req[r].p
                          \/ req[r].p.city \in members',
         At(r, "list") => At(r, "list")' \/ all',
         Due(p)
  PROVE  Due(p)'
<1>1. CASE ~Registered(p)
  BY <1>1 DEF Due, Registered
<1>2. CASE Registered(p)
  <2>1. (all \/ \E h \in Requests : At(h, "list")) /\ DueIn(p.city)
    BY <1>2 DEF Due
  <2>2. all' \/ \E h \in Requests : At(h, "list")'
    BY <2>1 DEF At
  <2>3. DueIn(p.city)'
    BY <2>1 DEF DueIn, Lists
  <2> QED
    BY <2>2, <2>3 DEF Due, Registered
<1> QED
  BY <1>1, <1>2

(* A step of request r that keeps what is due of the profile keeps what is *)
(* due of the others.                                                      *)
LEMMA StepKeeps ==
  ASSUME TypeOK, TypeOK', ListInv,
         NEW r \in Requests,
         \A h \in Requests \ {r} : req'[h] = req[h],
         all => all', members \subseteq members',
         Lists(req[r]) => \/ Lists(req'[r]) /\ req'[r].p = req[r].p
                          \/ req[r].p.city \in members',
         At(r, "list") => At(r, "list")' \/ all'
  PROVE  /\ Due(profile) /\ profile' = profile => Due(profile)'
         /\ \A h \in Requests \ {r} : RequestDue(req[h])'
<1>0. req \in [Requests -> RequestType] /\ req' \in [Requests -> RequestType]
  BY DEF TypeOK, RequestType
<1>1. ASSUME NEW p, Due(p) PROVE Due(p)'
  BY <1>0, <1>1, DueKept
<1>2. ASSUME Due(profile), profile' = profile
      PROVE  Due(profile)'
  <2>1. PICK p : p = profile
    OBVIOUS
  <2>2. Due(p)'
    BY <1>1, <1>2, <2>1
  <2> QED
    BY <1>2, <2>1, <2>2 DEF Due, DueIn, Registered, At
<1>3. ASSUME NEW h \in Requests \ {r}
      PROVE  RequestDue(req[h])'
  <2>1. req'[h] = req[h] /\ RequestDue(req[h])
    BY DEF ListInv
  <2>2. PICK p : p = req[h].p
    OBVIOUS
  <2>3. Due(p) => Due(p)'
    BY <1>1
  <2>4. Due(req[h].p) => Due(req[h].p)'
    BY <2>1, <2>2, <2>3 DEF Due, DueIn, Registered, At
  <2> QED
    BY <2>1, <2>4 DEF RequestDue, Confirms
<1> QED
  BY <1>2, <1>3

(* Where nobody is deleted and no request fails, every step keeps what is  *)
(* due.                                                                    *)
LEMMA NextDue ==
  ASSUME MaxDeletions = 0, MaxFailures = 0, TypeOK, TypeOK', ListInv, [Next]_vars
  PROVE  ListInv'
<1>0. /\ req \in [Requests -> RequestType] /\ req' \in [Requests -> RequestType]
      /\ profile \in Profiles
      /\ Due(profile) /\ \A r \in Requests : RequestDue(req[r])
  BY DEF TypeOK, RequestType, ListInv
<1>1. ASSUME NEW r \in Requests, NEW q, Become(r, q)
      PROVE  req'[r] = q /\ \A h \in Requests \ {r} : req'[h] = req[h]
  BY <1>0, <1>1 DEF Become
<1>2. ASSUME NEW r \in Requests, NEW u \in Updates,
             Receive(r, u) \/ Redeliver(r, u) \/ Answer(r, u)
      PROVE  ListInv'
  <2>1. profile' = profile /\ all' = all /\ members' = members /\ Handle(r, u)
    BY <1>2 DEF Receive, Redeliver, Answer
  <2>2. PICK q \in RequestType :
          /\ At(r, "idle") /\ Become(r, q) /\ q.u = u
          /\ \/ q.at \in {"dispatched", "done"}
             \/ /\ q.at = "save"
                /\ \/ u.kind = "confirm" /\ q.then = "list"
                   \/ Harmless(q, profile)
    BY <1>0, <2>1, Handled
  <2>3. req'[r] = q /\ \A h \in Requests \ {r} : req'[h] = req[h]
    BY <1>1, <2>2
  <2>4. Due(profile)' /\ \A h \in Requests \ {r} : RequestDue(req[h])'
    BY <1>0, <2>1, <2>2, <2>3, StepKeeps DEF At, Lists
  <2>5. RequestDue(req[r])'
    <3>1. CASE q.at \in {"dispatched", "done"}
      BY <2>3, <3>1 DEF RequestDue, Lists
    <3>2. CASE q.at = "save" /\ u.kind = "confirm" /\ q.then = "list"
      BY <2>2, <2>3, <3>2 DEF RequestDue, Lists, Confirms
    <3>3. CASE q.at = "save" /\ Harmless(q, profile)
      <4>1. Due(q.p)'
        BY <2>1, <2>4, <3>3 DEF Due, Harmless, Registered
      <4>2. q.then # "list"
        BY <3>3 DEF Harmless
      <4>3. Due(req[r].p)'
        BY <2>3, <4>1 DEF Due, DueIn, Registered, At
      <4> QED
        BY <2>3, <3>3, <4>2, <4>3 DEF RequestDue, Lists
    <3> QED
      BY <2>2, <3>1, <3>2, <3>3
  <2> QED
    BY <2>4, <2>5 DEF ListInv
<1>3. ASSUME NEW r \in Requests, Interpret(r)
      PROVE  ListInv'
  <2>1. profile' = profile /\ all' = all /\ members' = members /\ At(r, "dispatched")
    BY <1>3 DEF Interpret
  <2>2. PICK q : /\ Become(r, q)
                 /\ q.at = "send" \/ (q.at = "save" /\ Harmless(q, profile))
    <3>1. CASE Become(r, Request("send", req[r].u, Empty, "done"))
      BY <3>1 DEF Request
    <3>2. ASSUME NEW s \in OnText(req[r].p.state, profile),
                 Become(r, Request("save", req[r].u, s.p, s.then))
          PROVE  \E q : Become(r, q) /\ q.at = "save" /\ Harmless(q, profile)
      <4>1. Harmless(s, profile)
        BY <1>0, TextsOf
      <4>2. Harmless(Request("save", req[r].u, s.p, s.then), profile)
        BY <4>1 DEF Harmless, Request
      <4>3. Request("save", req[r].u, s.p, s.then).at = "save"
        BY DEF Request
      <4> QED
        BY <3>2, <4>2, <4>3
    <3> QED
      BY <1>3, <3>1, <3>2 DEF Interpret
  <2>3. req'[r] = q /\ \A h \in Requests \ {r} : req'[h] = req[h]
    BY <1>1, <2>2
  <2>4. Due(profile)' /\ \A h \in Requests \ {r} : RequestDue(req[h])'
    BY <1>0, <2>1, <2>3, StepKeeps DEF At, Lists
  <2>5. RequestDue(req[r])'
    <3>1. CASE q.at = "send"
      BY <2>3, <3>1 DEF RequestDue, Lists
    <3>2. CASE q.at = "save" /\ Harmless(q, profile)
      <4>1. Due(q.p)'
        BY <2>1, <2>4, <3>2 DEF Due, Harmless, Registered
      <4>2. q.then # "list"
        BY <3>2 DEF Harmless
      <4>3. Due(req[r].p)'
        BY <2>3, <4>1 DEF Due, DueIn, Registered, At
      <4> QED
        BY <2>3, <3>2, <4>2, <4>3 DEF RequestDue, Lists
    <3> QED
      BY <2>2, <3>1, <3>2
  <2> QED
    BY <2>4, <2>5 DEF ListInv
<1>4. ASSUME NEW r \in Requests, AnswerOnly(r) \/ SendConfirmSummary(r) \/ Reply(r)
      PROVE  ListInv'
  <2>1. profile' = profile /\ all' = all /\ members' = members /\ ~Lists(req[r])
    BY <1>4 DEF AnswerOnly, SendConfirmSummary, Reply, At, Lists
  <2>2. PICK q : Become(r, q) /\ q.at \in {"done", "idle"}
    BY <1>0, <1>4 DEF AnswerOnly, SendConfirmSummary, Reply, Idle, Request, RequestType
  <2>3. req'[r] = q /\ \A h \in Requests \ {r} : req'[h] = req[h]
    BY <1>1, <2>2
  <2>4. Due(profile)' /\ \A h \in Requests \ {r} : RequestDue(req[h])'
    BY <1>0, <2>1, <2>3, StepKeeps DEF At, Lists
  <2>5. RequestDue(req[r])'
    BY <2>2, <2>3 DEF RequestDue, Lists
  <2> QED
    BY <2>4, <2>5 DEF ListInv
<1>5. ASSUME NEW r \in Requests, SaveProfile(r)
      PROVE  ListInv'
  <2>1. profile' = req[r].p /\ all' = all /\ members' = members /\ At(r, "save")
    BY <1>5 DEF SaveProfile
  <2>2. /\ req'[r].u = req[r].u /\ req'[r].p = req[r].p
        /\ req'[r].at = req[r].then /\ req'[r].then = "done"
    BY <1>0, <1>5 DEF SaveProfile, Become, RequestType
  <2>3. \A h \in Requests \ {r} : req'[h] = req[h]
    BY <1>0, <1>5 DEF SaveProfile, Become
  <2>4. \A h \in Requests \ {r} : RequestDue(req[h])'
    BY <2>1, <2>3, StepKeeps DEF At, Lists
  <2>5. \/ Confirms(req[r]) /\ req[r].then = "list"
        \/ req[r].then # "list" /\ Due(req[r].p)
    BY <1>0, <2>1 DEF RequestDue, At
  <2>6. req[r].then \in Thens
    BY <1>0 DEF RequestType
  <2>7. CASE Confirms(req[r]) /\ req[r].then = "list"
    <3>1. Due(profile)'
      BY <2>1, <2>2, <2>3, <2>7 DEF Due, DueIn, Lists, At
    <3>2. RequestDue(req[r])'
      BY <2>2, <2>3, <2>7 DEF RequestDue, Confirms, Lists
    <3> QED
      BY <2>4, <3>1, <3>2 DEF ListInv
  <2>8. CASE req[r].then # "list" /\ Due(req[r].p)
    <3>1. PICK p : p = req[r].p
      OBVIOUS
    <3>2. Due(p)
      BY <2>8, <3>1
    <3>3. Due(p)'
      BY <1>0, <2>1, <2>3, <3>2, DueKept DEF At, Lists
    <3>4. Due(profile)'
      BY <2>1, <3>1, <3>3 DEF Due, DueIn, Registered, At
    <3>5. Due(req[r].p)'
      BY <2>2, <2>3, <3>1, <3>3 DEF Due, DueIn, Registered, At
    <3>6. RequestDue(req[r])'
      BY <2>2, <2>3, <2>6, <2>8, <3>5 DEF RequestDue, Lists, Thens
    <3> QED
      BY <2>4, <3>4, <3>6 DEF ListInv
  <2> QED
    BY <2>5, <2>7, <2>8
<1>6. ASSUME NEW r \in Requests, ListAll(r)
      PROVE  ListInv'
  <2>1. profile' = profile /\ all' /\ members' = members /\ At(r, "list")
    BY <1>6 DEF ListAll
  <2>2. req'[r].u = req[r].u /\ req'[r].p = req[r].p /\ req'[r].at = "list city"
    BY <1>0, <1>6 DEF ListAll, Become, RequestType
  <2>3. \A h \in Requests \ {r} : req'[h] = req[h]
    BY <1>0, <1>6 DEF ListAll, Become
  <2>4. Due(profile)' /\ \A h \in Requests \ {r} : RequestDue(req[h])'
    BY <1>0, <2>1, <2>2, <2>3, StepKeeps DEF At, Lists
  <2>5. RequestDue(req[r])'
    BY <1>0, <2>1, <2>2, <2>3 DEF RequestDue, Lists, Confirms, At
  <2> QED
    BY <2>4, <2>5 DEF ListInv
<1>7. ASSUME NEW r \in Requests, ListCity(r)
      PROVE  ListInv'
  <2>1. /\ profile' = profile /\ all' = all /\ At(r, "list city")
        /\ members' = members \cup {req[r].p.city}
    BY <1>7 DEF ListCity
  <2>2. req'[r].at = "done"
    BY <1>0, <1>7 DEF ListCity, Become, RequestType
  <2>3. \A h \in Requests \ {r} : req'[h] = req[h]
    BY <1>0, <1>7 DEF ListCity, Become
  <2>4. Due(profile)' /\ \A h \in Requests \ {r} : RequestDue(req[h])'
    BY <1>0, <2>1, <2>2, <2>3, StepKeeps DEF At, Lists
  <2>5. RequestDue(req[r])'
    BY <2>2, <2>3 DEF RequestDue, Lists
  <2> QED
    BY <2>4, <2>5 DEF ListInv
<1>8. ASSUME NEW r \in Requests, Erase(r) \/ Unlist(r) \/ UnlistCity(r)
      PROVE  FALSE
  BY <1>0, <1>8 DEF Erase, Unlist, UnlistCity, RequestDue, At
<1>9. ASSUME NEW r \in Requests, DeleteWorker(r) \/ Fail(r) \/ SaveIgnored(r)
      PROVE  FALSE
  BY <1>9 DEF DeleteWorker, Fail, SaveIgnored, TypeOK
<1>10. CASE CooldownEnds
  <2>1. all' = all /\ members' = members /\ req' = req
    BY <1>10 DEF CooldownEnds
  <2>2. Registered(profile)' => Registered(profile) /\ profile'.city = profile.city
    BY <1>0, <1>10 DEF CooldownEnds, Registered, Profiles
  <2>3. Due(profile)'
    BY <1>0, <2>1, <2>2 DEF Due, DueIn, Lists, At
  <2>4. ASSUME NEW r \in Requests PROVE RequestDue(req[r])'
    BY <1>0, <2>1 DEF RequestDue, Due, DueIn, Lists, Confirms, Registered, At
  <2> QED
    BY <2>3, <2>4 DEF ListInv
<1>11. CASE BecomePatient \/ UNCHANGED vars
  <2>1. profile' = profile /\ all' = all /\ members' = members /\ req' = req
    BY <1>11 DEF BecomePatient, vars
  <2>2. Due(profile)'
    BY <1>0, <2>1 DEF Due, DueIn, Lists, Registered, At
  <2>3. ASSUME NEW r \in Requests PROVE RequestDue(req[r])'
    BY <1>0, <2>1 DEF RequestDue, Due, DueIn, Lists, Confirms, Registered, At
  <2> QED
    BY <2>2, <2>3 DEF ListInv
<1> QED
  BY <1>2, <1>3, <1>4, <1>5, <1>6, <1>7, <1>8, <1>9, <1>10, <1>11 DEF Next, Proceed

(* However the updates of a worker overlap, the worker is never registered *)
(* and forgotten: while nobody is deleted and no request fails, what       *)
(* handlers save out of turn undoes no listing.                            *)
THEOREM NoUpdateUnlists ==
  ASSUME MaxDeletions = 0, MaxFailures = 0
  PROVE  Spec => []RegisteredIsListed
<1>1. ASSUME Init PROVE ListInv
  <2>1. ~Registered(profile)
    BY <1>1 DEF Init, Registered, Empty
  <2>2. \A r \in Requests : req[r].at = "idle"
    BY <1>1 DEF Init, Idle, Request
  <2> QED
    BY <2>1, <2>2 DEF ListInv, Due, RequestDue, Lists
<1>2. TypeOK /\ TypeOK' /\ ListInv /\ [Next]_vars => ListInv'
  BY NextDue
<1>3. ListInv => RegisteredIsListed
  BY DEF ListInv, Due, DueIn, RequestDue, Confirms, Lists, At, RegisteredIsListed, Listed, Confirming
<1> QED
  BY RegistrationTypes, <1>1, <1>2, <1>3, PTL DEF Spec
-----------------------------------------------------------------------------
(* With one request at a time the list may be cut short, by a failure, but *)
(* then the confirmation comes again; and a deletion unlists a profile     *)
(* that is erased already.                                                 *)
Listing(q) == Confirms(q) /\ ((q.at = "save" /\ q.then = "list") \/ Lists(q))

SerialRequest(q, p, a) ==
  /\ q.at = "save" => Listing(q) \/ Harmless(q, p)
  /\ Lists(q) => Confirms(q) /\ q.p.city = p.city
  /\ q.at = "list city" => a
  /\ q.at \in {"unlist", "unlist city"} => ~Registered(p)

Accounted ==
  Registered(profile) => \/ Listed(profile)
                         \/ \E r \in Requests : Listing(req[r])
                         \/ Update("confirm", NoCity) \in undelivered

SerialInv == Accounted /\ \A r \in Requests : SerialRequest(req[r], profile, all)

LEMMA ConfirmHandled ==
  ASSUME NEW r \in Requests, NEW u \in Updates, u.kind = "confirm", Handle(r, u)
  PROVE  \E p : Become(r, Request("save", u, p, "list"))
<1>1. \A s \in Savings(u, profile) : s.then = "list"
  BY DEF Savings, OnConfirm, Saving
<1>2. Savings(u, profile) # {}
  BY DEF Savings, OnConfirm
<1> QED
  BY <1>1, <1>2 DEF Handle

LEMMA NextSerial ==
  ASSUME \A r, h \in Requests : r = h,
         TypeOK, TypeOK', SerialInv, [Next]_vars
  PROVE  SerialInv'
<1>0. /\ req \in [Requests -> RequestType] /\ req' \in [Requests -> RequestType]
      /\ profile \in Profiles /\ undelivered \subseteq Updates
      /\ Accounted /\ \A r \in Requests : SerialRequest(req[r], profile, all)
  BY DEF TypeOK, RequestType, SerialInv
<1>b. ASSUME NEW r \in Requests, NEW q, Become(r, q)
      PROVE  req'[r] = q /\ \A h \in Requests : req'[h] = q
  BY <1>0, <1>b DEF Become
<1>1. ASSUME NEW r \in Requests, NEW u \in Updates,
             Receive(r, u) \/ Redeliver(r, u) \/ Answer(r, u)
      PROVE  SerialInv'
  <2>1. /\ profile' = profile /\ all' = all /\ members' = members /\ Handle(r, u)
        /\ \/ undelivered' = undelivered
           \/ undelivered' = undelivered \ {u}
    BY <1>1 DEF Receive, Redeliver, Answer
  <2>2. PICK q \in RequestType :
          /\ At(r, "idle") /\ Become(r, q) /\ q.u = u
          /\ \/ q.at \in {"dispatched", "done"}
             \/ /\ q.at = "save"
                /\ \/ u.kind = "confirm" /\ q.then = "list"
                   \/ Harmless(q, profile)
    BY <1>0, <2>1, Handled
  <2>3. req'[r] = q /\ \A h \in Requests : req'[h] = q
    BY <1>b, <2>2
  <2>4. SerialRequest(q, profile', all')
    BY <2>1, <2>2 DEF SerialRequest, Listing, Confirms, Lists, Harmless, Registered
  <2>5. u.kind = "confirm" => Listing(q)
    <3> SUFFICES ASSUME u.kind = "confirm" PROVE Listing(q)
      OBVIOUS
    <3>1. PICK p : Become(r, Request("save", u, p, "list"))
      BY <2>1, ConfirmHandled
    <3>2. q = Request("save", u, p, "list")
      BY <1>b, <2>3, <3>1
    <3> QED
      BY <3>2 DEF Listing, Confirms, Request
  <2>6. Accounted'
    <3>1. \A h \in Requests : ~Listing(req[h])
      BY <2>2 DEF Listing, Lists, At
    <3>2. Registered(profile) => \/ Listed(profile)
                                 \/ Update("confirm", NoCity) \in undelivered
      BY <1>0, <3>1 DEF Accounted
    <3>3. CASE u.kind = "confirm"
      BY <2>3, <2>5, <3>3 DEF Accounted
    <3>4. CASE u.kind # "confirm"
      <4>1. u # Update("confirm", NoCity)
        BY <3>4 DEF Update
      <4> QED
        BY <2>1, <3>2, <4>1 DEF Accounted, Listed, Registered
    <3> QED
      BY <3>3, <3>4
  <2> QED
    BY <2>3, <2>4, <2>6 DEF SerialInv
<1>2. ASSUME NEW r \in Requests, Interpret(r)
      PROVE  SerialInv'
  <2>1. /\ profile' = profile /\ all' = all /\ members' = members /\ At(r, "dispatched")
        /\ undelivered' = undelivered
    BY <1>2 DEF Interpret
  <2>2. PICK q : /\ Become(r, q)
                 /\ q.at = "send" \/ (q.at = "save" /\ Harmless(q, profile))
    <3>1. CASE Become(r, Request("send", req[r].u, Empty, "done"))
      BY <3>1 DEF Request
    <3>2. ASSUME NEW s \in OnText(req[r].p.state, profile),
                 Become(r, Request("save", req[r].u, s.p, s.then))
          PROVE  \E q : Become(r, q) /\ q.at = "save" /\ Harmless(q, profile)
      <4>1. Harmless(s, profile)
        BY <1>0, TextsOf
      <4>2. Harmless(Request("save", req[r].u, s.p, s.then), profile)
        BY <4>1 DEF Harmless, Request
      <4>3. Request("save", req[r].u, s.p, s.then).at = "save"
        BY DEF Request
      <4> QED
        BY <3>2, <4>2, <4>3
    <3> QED
      BY <1>2, <3>1, <3>2 DEF Interpret
  <2>3. req'[r] = q /\ \A h \in Requests : req'[h] = q
    BY <1>b, <2>2
  <2>4. SerialRequest(q, profile', all')
    BY <2>1, <2>2 DEF SerialRequest, Lists, Harmless, Registered
  <2>5. \A h \in Requests : ~Listing(req[h])
    BY <2>1 DEF Listing, Lists, At
  <2>6. Accounted'
    BY <1>0, <2>1, <2>5 DEF Accounted, Listed, Registered
  <2> QED
    BY <2>3, <2>4, <2>6 DEF SerialInv
<1>3. ASSUME NEW r \in Requests, AnswerOnly(r) \/ SendConfirmSummary(r) \/ Reply(r)
      PROVE  SerialInv'
  <2>1. /\ profile' = profile /\ all' = all /\ members' = members
        /\ undelivered' = undelivered /\ req[r].at \in {"dispatched", "send", "done"}
    BY <1>3 DEF AnswerOnly, SendConfirmSummary, Reply, At
  <2>2. PICK q : Become(r, q) /\ q.at \in {"done", "idle"}
    BY <1>0, <1>3 DEF AnswerOnly, SendConfirmSummary, Reply, Idle, Request, RequestType
  <2>3. req'[r] = q /\ \A h \in Requests : req'[h] = q
    BY <1>b, <2>2
  <2>4. SerialRequest(q, profile', all')
    BY <2>2 DEF SerialRequest, Lists
  <2>5. \A h \in Requests : ~Listing(req[h])
    BY <2>1 DEF Listing, Lists
  <2>6. Accounted'
    BY <1>0, <2>1, <2>5 DEF Accounted, Listed, Registered
  <2> QED
    BY <2>3, <2>4, <2>6 DEF SerialInv
<1>4. ASSUME NEW r \in Requests, SaveProfile(r)
      PROVE  SerialInv'
  <2> DEFINE q == [req[r] EXCEPT !.at = req[r].then, !.then = "done"]
  <2>1. /\ profile' = req[r].p /\ all' = all /\ members' = members
        /\ undelivered' = undelivered /\ req[r].at = "save" /\ Become(r, q)
    BY <1>4 DEF SaveProfile, At
  <2>2. q.at = req[r].then /\ q.u = req[r].u /\ q.p = req[r].p /\ q.then = "done"
    BY <1>0 DEF RequestType
  <2> HIDE DEF q
  <2>3. req'[r] = q /\ \A h \in Requests : req'[h] = q
    BY <1>b, <2>1
  <2>4. req[r].then \in {"done", "save", "send", "list"}
    BY <1>0 DEF RequestType, Thens
  <2>5. Listing(req[r]) \/ Harmless(req[r], profile)
    BY <1>0, <2>1 DEF SerialRequest
  <2>6. CASE Listing(req[r])
    <3>1. Confirms(req[r]) /\ req[r].then = "list"
      BY <2>1, <2>6 DEF Listing, Lists
    <3>2. Listing(q) /\ SerialRequest(q, profile', all')
      BY <2>1, <2>2, <3>1 DEF SerialRequest, Listing, Confirms, Lists
    <3> QED
      BY <2>3, <3>2 DEF SerialInv, Accounted
  <2>7. CASE ~Listing(req[r]) /\ Harmless(req[r], profile)
    <3>1. req[r].then # "list" /\ (Registered(profile') => Registered(profile)
                                    /\ profile'.city = profile.city)
      BY <2>1, <2>7 DEF Harmless
    <3>2. SerialRequest(q, profile', all')
      BY <2>1, <2>2, <2>4, <3>1 DEF SerialRequest, Lists, Harmless, Registered
    <3>3. Accounted'
      BY <1>0, <2>1, <2>7, <3>1 DEF Accounted, Listed, Registered
    <3> QED
      BY <2>3, <3>2, <3>3 DEF SerialInv
  <2> QED
    BY <2>5, <2>6, <2>7
<1>5. ASSUME NEW r \in Requests, ListAll(r) PROVE SerialInv'
  <2> DEFINE q == [req[r] EXCEPT !.at = "list city"]
  <2>1. profile' = profile /\ all' /\ req[r].at = "list" /\ Become(r, q)
    BY <1>5 DEF ListAll, At
  <2>2. q.at = "list city" /\ q.u = req[r].u /\ q.p = req[r].p
    BY <1>0 DEF RequestType
  <2> HIDE DEF q
  <2>3. req'[r] = q /\ \A h \in Requests : req'[h] = q
    BY <1>b, <2>1
  <2>4. Listing(q) /\ SerialRequest(q, profile', all')
    BY <1>0, <2>1, <2>2 DEF SerialRequest, Listing, Confirms, Lists
  <2> QED
    BY <2>3, <2>4 DEF SerialInv, Accounted
<1>6. ASSUME NEW r \in Requests, ListCity(r) PROVE SerialInv'
  <2> DEFINE q == [req[r] EXCEPT !.at = "done"]
  <2>1. /\ profile' = profile /\ all' = all /\ members' = members \cup {req[r].p.city}
        /\ req[r].at = "list city" /\ Become(r, q)
    BY <1>6 DEF ListCity, At
  <2>2. q.at = "done"
    BY <1>0 DEF RequestType
  <2> HIDE DEF q
  <2>3. req'[r] = q /\ \A h \in Requests : req'[h] = q
    BY <1>b, <2>1
  <2>4. SerialRequest(q, profile', all')
    BY <2>2 DEF SerialRequest, Lists
  <2>5. Listed(profile)'
    BY <1>0, <2>1 DEF SerialRequest, Lists, Listed
  <2> QED
    BY <2>3, <2>4, <2>5 DEF SerialInv, Accounted
<1>7. ASSUME NEW r \in Requests, DeleteWorker(r) PROVE SerialInv'
  <2> DEFINE q == Request("erase", Deletion, [Empty EXCEPT !.city = profile.city], "done")
  <2>1. /\ profile' = profile /\ all' = all /\ members' = members
        /\ undelivered' = undelivered /\ req[r].at = "idle" /\ Become(r, q)
    BY <1>7 DEF DeleteWorker, At
  <2>2. q.at = "erase"
    BY DEF Request
  <2> HIDE DEF q
  <2>3. req'[r] = q /\ \A h \in Requests : req'[h] = q
    BY <1>b, <2>1
  <2>4. SerialRequest(q, profile', all')
    BY <2>2 DEF SerialRequest, Lists
  <2>5. \A h \in Requests : ~Listing(req[h])
    BY <2>1 DEF Listing, Lists
  <2>6. Accounted'
    BY <1>0, <2>1, <2>5 DEF Accounted, Listed, Registered
  <2> QED
    BY <2>3, <2>4, <2>6 DEF SerialInv
<1>8. ASSUME NEW r \in Requests, Erase(r) \/ Unlist(r) \/ UnlistCity(r) PROVE SerialInv'
  <2>1. ~Registered(profile') /\ (profile' = profile \/ profile' = Empty)
    <3>1. CASE Erase(r)
      BY <3>1 DEF Erase, Registered, Empty
    <3>2. CASE Unlist(r) \/ UnlistCity(r)
      <4>1. profile' = profile /\ req[r].at \in {"unlist", "unlist city"}
        BY <3>2 DEF Unlist, UnlistCity, At
      <4>2. ~Registered(profile)
        BY <1>0, <4>1 DEF SerialRequest
      <4> QED
        BY <4>1, <4>2
    <3> QED
      BY <1>8, <3>1, <3>2
  <2>2. PICK q : Become(r, q) /\ q.at \in {"idle", "unlist", "unlist city"}
    <3>1. CASE Erase(r)
      <4>1. [req[r] EXCEPT !.at = "unlist"].at = "unlist"
        BY <1>0 DEF RequestType
      <4> QED
        BY <3>1, <4>1 DEF Erase
    <3>2. CASE Unlist(r) \/ UnlistCity(r)
      <4>1. Idle.at = "idle" /\ [req[r] EXCEPT !.at = "unlist city"].at = "unlist city"
        BY <1>0 DEF RequestType, Idle, Request
      <4>2. Become(r, Idle) \/ Become(r, [req[r] EXCEPT !.at = "unlist city"])
        BY <3>2 DEF Unlist, UnlistCity
      <4> QED
        BY <4>1, <4>2
    <3> QED
      BY <1>8, <3>1, <3>2
  <2>3. req'[r] = q /\ \A h \in Requests : req'[h] = q
    BY <1>b, <2>2
  <2>4. SerialRequest(q, profile', all')
    BY <2>1, <2>2 DEF SerialRequest, Lists, Registered
  <2>5. Accounted'
    BY <2>1 DEF Accounted, Registered
  <2> QED
    BY <2>3, <2>4, <2>5 DEF SerialInv
<1>9. ASSUME NEW r \in Requests, Fail(r) PROVE SerialInv'
  <2>1. /\ profile' = profile /\ all' = all /\ members' = members /\ Become(r, Idle)
        /\ undelivered' = undelivered \cup ({req[r].u} \ {Deletion})
    BY <1>9 DEF Fail
  <2>2. req'[r] = Idle /\ \A h \in Requests : req'[h] = Idle
    BY <1>b, <2>1
  <2>3. SerialRequest(Idle, profile', all')
    BY DEF SerialRequest, Idle, Request, Lists
  <2>4. ASSUME NEW h \in Requests, Listing(req[h])
        PROVE  Update("confirm", NoCity) \in undelivered'
    <3>1. req[r].u.kind = "confirm" /\ req[r].u \in Updates \cup {Deletion}
      BY <1>0, <2>4 DEF Listing, Confirms, RequestType
    <3>2. req[r].u # Deletion /\ req[r].u \in Updates
      BY <3>1 DEF Deletion
    <3>3. req[r].u = Update("confirm", NoCity)
      BY <3>1, <3>2 DEF Updates, Update
    <3> QED
      BY <2>1, <3>2, <3>3
  <2>5. Accounted'
    BY <1>0, <2>1, <2>4 DEF Accounted, Listed, Registered
  <2> QED
    BY <2>2, <2>3, <2>5 DEF SerialInv
<1>12. ASSUME NEW r \in Requests, SaveIgnored(r) PROVE SerialInv'
  <2> DEFINE q == [req[r] EXCEPT !.at = req[r].then, !.then = "done"]
  <2>1. /\ profile' = profile /\ all' = all /\ members' = members
        /\ undelivered' = undelivered /\ req[r].at = "save" /\ Become(r, q)
        /\ req[r].then \in {"done", "save"}
    BY <1>12 DEF SaveIgnored, At
  <2>2. q.at = req[r].then /\ q.p = req[r].p /\ q.then = "done"
    BY <1>0 DEF RequestType
  <2> HIDE DEF q
  <2>3. req'[r] = q /\ \A h \in Requests : req'[h] = q
    BY <1>b, <2>1
  <2>4. \A h \in Requests : ~Listing(req[h])
    BY <2>1 DEF Listing, Lists
  <2>5. Harmless(req[r], profile)
    BY <1>0, <2>1, <2>4 DEF SerialRequest
  <2>6. SerialRequest(q, profile', all')
    BY <2>1, <2>2, <2>5 DEF SerialRequest, Lists, Harmless, Registered
  <2>7. Accounted'
    BY <1>0, <2>1, <2>4 DEF Accounted, Listed, Registered
  <2> QED
    BY <2>3, <2>6, <2>7 DEF SerialInv
<1>10. CASE CooldownEnds
  <2>1. /\ all' = all /\ members' = members /\ req' = req /\ undelivered' = undelivered
        /\ \A r \in Requests : req[r].at = "idle"
    BY <1>10 DEF CooldownEnds, At
  <2>2. Registered(profile)' => Registered(profile) /\ profile'.city = profile.city
    BY <1>0, <1>10 DEF CooldownEnds, Registered, Profiles
  <2>3. \A r \in Requests : SerialRequest(req'[r], profile', all')
    BY <2>1 DEF SerialRequest, Lists
  <2>4. Accounted'
    BY <1>0, <2>1, <2>2 DEF Accounted, Listed, Listing, Lists
  <2> QED
    BY <2>3, <2>4 DEF SerialInv
<1>11. CASE BecomePatient \/ UNCHANGED vars
  <2>1. /\ profile' = profile /\ all' = all /\ members' = members /\ req' = req
        /\ undelivered' = undelivered
    BY <1>11 DEF BecomePatient, vars
  <2>2. Accounted'
    BY <1>0, <2>1 DEF Accounted, Listed, Registered
  <2> QED
    BY <1>0, <2>1, <2>2 DEF SerialInv
<1> QED
  BY <1>1, <1>2, <1>3, <1>4, <1>5, <1>6, <1>7, <1>8, <1>9, <1>10, <1>11, <1>12 DEF Next, Proceed

(* Whose updates are served one after the other is registered and listed,  *)
(* or a confirmation is on its way, whatever fails, comes again or is      *)
(* deleted: a request that dies between saving the profile and listing the *)
(* worker is always one that Telegram delivers again.                      *)
THEOREM FailuresUnlistNobody ==
  ASSUME \A r, h \in Requests : r = h
  PROVE  Spec => []RegisteredIsListed
<1>1. ASSUME Init PROVE SerialInv
  <2>1. ~Registered(profile)
    BY <1>1 DEF Init, Registered, Empty
  <2>2. \A r \in Requests : req[r].at = "idle"
    BY <1>1 DEF Init, Idle, Request
  <2> QED
    BY <2>1, <2>2 DEF SerialInv, Accounted, SerialRequest, Lists
<1>2. TypeOK /\ TypeOK' /\ SerialInv /\ [Next]_vars => SerialInv'
  BY NextSerial
<1>3. SerialInv => RegisteredIsListed
  BY DEF SerialInv, Accounted, Listing, Confirms, Lists, RegisteredIsListed, Confirming
<1> QED
  BY RegistrationTypes, <1>1, <1>2, <1>3, PTL DEF Spec

-----------------------------------------------------------------------------
(* The city.  Until the operator deletes the worker, a profile that is to  *)
(* be confirmed, edited or registered has one; so has the stored profile   *)
(* once the buttons are out, and what is written back never takes it away. *)
Known(p) == p.city # NoCity
KnownIn(p) ==
  p.state \in {"await_confirm", "await_edit", "registered", "support"} \/ p.editing # ""
    => Known(p)
Presses(u) == u.kind \in {"confirm", "edit"}

RequestKnows(q, p) ==
  /\ Presses(q.u) => Known(p)
  /\ q.at = "dispatched" /\ q.p.state \in {"await_confirm", "await_edit"} => Known(p)
  /\ q.at = "save" => /\ KnownIn(q.p)
                      /\ Known(p) \/ q.then = "send" => Known(q.p)
  /\ q.at = "send" => Known(p)
  /\ q.at \notin {"erase", "unlist", "unlist city"}

CityInv ==
  deletions = 0 =>
    /\ KnownIn(profile)
    /\ buttons \/ (\E u \in undelivered : Presses(u)) => Known(profile)
    /\ \A r \in Requests : RequestKnows(req[r], profile)

(* What a handler saves knows a city if the profile it read did, and has   *)
(* one where it needs it.                                                  *)
KeepsCity(s, p) == KnownIn(s.p) /\ (Known(p) \/ s.then = "send" => Known(s.p))

LEMMA SavingKeeps ==
  ASSUME NEW p \in Profiles, NEW q \in Profiles, NEW then \in Thens, KnownIn(q),
         Known(p) \/ then = "send" => Known(q)
  PROVE  KeepsCity(Saving(q, then), p)
BY DEF Saving, KeepsCity

LEMMA MovedKeeps ==
  ASSUME NEW p \in Profiles, NEW c \in Cities
  PROVE  KeepsCity(Saving(Moved(p, c), "send"), p)
<1>1. Moved(p, c) \in Profiles
  BY MovedProfile
<1>2. Known(Moved(p, c))
  BY CitiesAssumption DEF Moved, Profiles, Known
<1> QED
  BY <1>1, <1>2, SavingKeeps DEF KnownIn, Thens

LEMMA StartKeeps ==
  ASSUME NEW p \in Profiles, KnownIn(p), NEW s \in OnStart(p)
  PROVE  KeepsCity(s, p)
<1> DEFINE a == [p EXCEPT !.state = "registered"]
           b == [p EXCEPT !.state = "await_name"]
<1>1. /\ a \in Profiles /\ b \in Profiles
      /\ p.state = "support" => KnownIn(a)
      /\ KnownIn(b) /\ (Known(a) <=> Known(p)) /\ (Known(b) <=> Known(p))
  BY DEF Profiles, KnownIn, Known
<1>2. \/ s = Saving(p, "done")
      \/ p.state = "support" /\ (s = Saving(a, "done") \/ s = Saving(a, "save"))
      \/ s = Saving(b, "done")
  BY DEF OnStart
<1> HIDE DEF a, b
<1> QED
  BY <1>1, <1>2, SavingKeeps DEF Thens

LEMMA SavingsKeep ==
  ASSUME NEW p \in Profiles, NEW u \in Updates, NEW s \in Savings(u, p),
         KnownIn(p), Presses(u) => Known(p)
  PROVE  KeepsCity(s, p)
<1> USE DEF Thens
<1>1. CASE u.kind = "start"
  BY <1>1, StartKeeps DEF Savings
<1>2. CASE u.kind = "contact"
  <2> DEFINE a == [p EXCEPT !.editing = "", !.state = "await_confirm"]
             b == [p EXCEPT !.state = "await_loc"]
  <2>1. /\ a \in Profiles /\ b \in Profiles
        /\ p.editing = "phone" => Known(a)
        /\ KnownIn(b) /\ (Known(b) <=> Known(p))
    BY DEF Profiles, KnownIn, Known
  <2>2. \/ p.editing = "phone" /\ s = Saving(a, "send")
        \/ s = Saving(b, "done")
    BY <1>2 DEF Savings, OnContact
  <2> HIDE DEF a, b
  <2>3. Known(a) => KnownIn(a)
    BY DEF KnownIn
  <2> QED
    BY <2>1, <2>2, <2>3, SavingKeeps
<1>3. CASE u.kind = "location"
  <2> DEFINE b == [p EXCEPT !.state = "await_city_manual"]
  <2>1. b \in Profiles /\ KnownIn(b) /\ (Known(b) <=> Known(p))
    BY DEF Profiles, KnownIn, Known
  <2>2. u.city \in Cities
    BY <1>3 DEF Updates
  <2>3. s = Saving(Moved(p, u.city), "send") \/ s = Saving(b, "done")
    BY <1>3 DEF Savings, OnLocation
  <2> HIDE DEF b
  <2> QED
    BY <2>1, <2>2, <2>3, MovedKeeps, SavingKeeps
<1>4. CASE u.kind \in {"confirm", "edit", "support"}
  <2> DEFINE a == [p EXCEPT !.state = "registered", !.editing = ""]
             b == [p EXCEPT !.state = "await_edit"]
             c == [p EXCEPT !.state = "support"]
  <2>1. /\ a \in Profiles /\ b \in Profiles /\ c \in Profiles
        /\ (Known(a) <=> Known(p)) /\ (Known(b) <=> Known(p)) /\ (Known(c) <=> Known(p))
    BY DEF Profiles, Known
  <2>2. \/ s = Saving(a, "list") /\ Known(p)
        \/ s = Saving(b, "done") /\ Known(p)
        \/ s = Saving(c, "done") /\ Known(p)
    BY <1>4 DEF Savings, OnConfirm, OnEdit, OnSupport, Presses, KnownIn
  <2> HIDE DEF a, b, c
  <2>3. Known(p) => KnownIn(a) /\ KnownIn(b) /\ KnownIn(c)
    BY <2>1 DEF KnownIn
  <2> QED
    BY <2>1, <2>2, <2>3, SavingKeeps
<1> QED
  BY <1>1, <1>2, <1>3, <1>4 DEF Savings

LEMMA TextsKeep ==
  ASSUME NEW p \in Profiles, NEW state, NEW s \in OnText(state, p),
         KnownIn(p), state = "await_edit" => Known(p)
  PROVE  KeepsCity(s, p)
<1> USE DEF Thens
<1>1. CASE state = "new"
  BY <1>1, StartKeeps DEF OnText
<1>2. CASE state \in {"await_name", "await_dob", "await_citizen"}
  <2>1. PICK next \in {"await_dob", "await_citizen", "await_phone"} :
          s = Saving([p EXCEPT !.state = next], "done")
    BY <1>2 DEF OnText
  <2> DEFINE a == [p EXCEPT !.state = next]
  <2>2. a \in Profiles /\ KnownIn(a) /\ (Known(a) <=> Known(p))
    BY DEF Profiles, KnownIn, Known
  <2>3. s = Saving(a, "done")
    BY <2>1
  <2> HIDE DEF a
  <2> QED
    BY <2>2, <2>3, SavingKeeps
<1>3. CASE state = "await_edit"
  <2>1. PICK q \in Numbered(p) : s = Saving(q, "done")
    BY <1>3 DEF OnText
  <2>2. q \in Profiles /\ (Known(q) <=> Known(p))
    BY DEF Numbered, Profiles, Known
  <2>3. KnownIn(q)
    BY <1>3, <2>2 DEF KnownIn
  <2> QED
    BY <2>1, <2>2, <2>3, SavingKeeps
<1>4. CASE state = "await_city_manual"
  BY <1>4, MovedKeeps DEF OnText
<1> QED
  BY <1>1, <1>2, <1>3, <1>4 DEF OnText

(* Before a deletion the one request there is keeps the city.              *)
LEMMA NextKnows ==
  ASSUME \A r, h \in Requests : r = h,
         TypeOK, TypeOK', CityInv, [Next]_vars
  PROVE  CityInv'
<1> SUFFICES ASSUME deletions' = 0
             PROVE  /\ KnownIn(profile')
                    /\ buttons' \/ (\E u \in undelivered' : Presses(u)) => Known(profile')
                    /\ \A r \in Requests : RequestKnows(req'[r], profile')
  BY DEF CityInv
<1>0. /\ req \in [Requests -> RequestType] /\ profile \in Profiles
      /\ deletions \in Nat
  BY BoundsAssumption DEF TypeOK, RequestType
<1>a. ASSUME deletions = 0
      PROVE  /\ KnownIn(profile)
             /\ buttons \/ (\E u \in undelivered : Presses(u)) => Known(profile)
             /\ \A r \in Requests : RequestKnows(req[r], profile)
  BY <1>a DEF CityInv
<1>b. ASSUME NEW r \in Requests, NEW q, Become(r, q)
      PROVE  req'[r] = q /\ \A h \in Requests : req'[h] = q
  BY <1>0, <1>b DEF Become
<1>1. ASSUME NEW r \in Requests, NEW u \in Updates,
             Receive(r, u) \/ Redeliver(r, u) \/ Answer(r, u)
      PROVE  /\ KnownIn(profile')
             /\ buttons' \/ (\E x \in undelivered' : Presses(x)) => Known(profile')
             /\ \A h \in Requests : RequestKnows(req'[h], profile')
  <2>1. /\ profile' = profile /\ buttons' = buttons /\ undelivered' \subseteq undelivered
        /\ deletions = 0 /\ Handle(r, u)
    BY <1>1 DEF Receive, Redeliver, Answer
  <2>2. Presses(u) => Known(profile)
    <3>1. CASE Receive(r, u)
      BY <1>a, <2>1, <3>1 DEF Receive, Pressable, Presses
    <3>2. CASE Redeliver(r, u)
      BY <1>a, <2>1, <3>2 DEF Redeliver
    <3>3. CASE Answer(r, u)
      BY <1>a, <2>1, <3>3 DEF Answer, Asked, Presses
    <3> QED
      BY <1>1, <3>1, <3>2, <3>3
  <2>3. \E q : Become(r, q) /\ RequestKnows(q, profile)
    <3>1. CASE Become(r, Request("dispatched", u, profile, "done"))
      <4>1. RequestKnows(Request("dispatched", u, profile, "done"), profile)
        BY <1>a, <2>1, <2>2 DEF RequestKnows, Request, KnownIn
      <4> QED
        BY <3>1, <4>1
    <3>2. CASE Become(r, Request("done", u, Empty, "done"))
      <4>1. RequestKnows(Request("done", u, Empty, "done"), profile)
        BY <2>2 DEF RequestKnows, Request
      <4> QED
        BY <3>2, <4>1
    <3>3. ASSUME NEW s \in Savings(u, profile), Become(r, Request("save", u, s.p, s.then))
          PROVE  \E q : Become(r, q) /\ RequestKnows(q, profile)
      <4>1. KeepsCity(s, profile)
        BY <1>0, <1>a, <2>1, <2>2, SavingsKeep
      <4>2. RequestKnows(Request("save", u, s.p, s.then), profile)
        BY <2>2, <4>1 DEF RequestKnows, Request, KeepsCity
      <4> QED
        BY <3>3, <4>2
    <3> QED
      BY <2>1, <3>1, <3>2, <3>3 DEF Handle
  <2> QED
    BY <1>a, <1>b, <2>1, <2>3
<1>2. ASSUME NEW r \in Requests, Interpret(r)
      PROVE  /\ KnownIn(profile')
             /\ buttons' \/ (\E x \in undelivered' : Presses(x)) => Known(profile')
             /\ \A h \in Requests : RequestKnows(req'[h], profile')
  <2>1. /\ profile' = profile /\ buttons' = buttons /\ undelivered' = undelivered
        /\ deletions = 0 /\ At(r, "dispatched")
    BY <1>2 DEF Interpret
  <2>2. RequestKnows(req[r], profile)
    BY <1>a, <2>1
  <2>3. \E q : Become(r, q) /\ RequestKnows(q, profile)
    <3>1. CASE /\ req[r].p.state = "await_confirm"
               /\ Become(r, Request("send", req[r].u, Empty, "done"))
      <4>1. RequestKnows(Request("send", req[r].u, Empty, "done"), profile)
        BY <2>1, <2>2, <3>1 DEF RequestKnows, Request, At
      <4> QED
        BY <3>1, <4>1
    <3>2. ASSUME NEW s \in OnText(req[r].p.state, profile),
                 Become(r, Request("save", req[r].u, s.p, s.then))
          PROVE  \E q : Become(r, q) /\ RequestKnows(q, profile)
      <4>1. KeepsCity(s, profile)
        BY <1>0, <1>a, <2>1, <2>2, TextsKeep DEF RequestKnows, At
      <4>2. RequestKnows(Request("save", req[r].u, s.p, s.then), profile)
        BY <2>2, <4>1 DEF RequestKnows, Request, KeepsCity
      <4> QED
        BY <3>2, <4>2
    <3> QED
      BY <1>2, <3>1, <3>2 DEF Interpret
  <2> QED
    BY <1>a, <1>b, <2>1, <2>3
<1>3. ASSUME NEW r \in Requests,
             AnswerOnly(r) \/ SendConfirmSummary(r) \/ Reply(r) \/ ListAll(r) \/ ListCity(r)
      PROVE  /\ KnownIn(profile')
             /\ buttons' \/ (\E x \in undelivered' : Presses(x)) => Known(profile')
             /\ \A h \in Requests : RequestKnows(req'[h], profile')
  <2>1. profile' = profile /\ undelivered' = undelivered /\ deletions = 0
    BY <1>3 DEF AnswerOnly, SendConfirmSummary, Reply, ListAll, ListCity
  <2>2. RequestKnows(req[r], profile)
    BY <1>a, <2>1
  <2>3. buttons' => Known(profile)
    BY <1>3, <1>a, <2>1, <2>2
    DEF AnswerOnly, SendConfirmSummary, Reply, ListAll, ListCity, RequestKnows, At
  <2>4. PICK q : /\ Become(r, q) /\ q.at \in {"done", "idle", "list city"}
                 /\ q.u = req[r].u \/ q.u = Deletion
    <3>1. CASE AnswerOnly(r)
      <4> DEFINE q == Request("done", req[r].u, Empty, "done")
      <4>1. Become(r, q)
        BY <3>1 DEF AnswerOnly
      <4>2. q.at = "done" /\ q.u = req[r].u
        BY DEF Request
      <4> HIDE DEF q
      <4> QED
        BY <4>1, <4>2
    <3>2. CASE Reply(r)
      <4>1. Become(r, Idle) /\ Idle.at = "idle" /\ Idle.u = Deletion
        BY <3>2 DEF Reply, Idle, Request
      <4> QED
        BY <4>1
    <3>3. CASE SendConfirmSummary(r) \/ ListAll(r) \/ ListCity(r)
      <4>1. PICK at \in {"done", "list city"} : Become(r, [req[r] EXCEPT !.at = at])
        <5>1. \/ Become(r, [req[r] EXCEPT !.at = "done"])
              \/ Become(r, [req[r] EXCEPT !.at = "list city"])
          BY <3>3 DEF SendConfirmSummary, ListAll, ListCity
        <5> QED
          BY <5>1
      <4>2. [req[r] EXCEPT !.at = at].at = at /\ [req[r] EXCEPT !.at = at].u = req[r].u
        BY <1>0 DEF RequestType
      <4> QED
        BY <4>1, <4>2
    <3> QED
      BY <1>3, <3>1, <3>2, <3>3
  <2>5. RequestKnows(q, profile)
    <3>1. ~Presses(Deletion)
      BY DEF Presses, Deletion
    <3>2. Presses(q.u) => Known(profile)
      BY <2>2, <2>4, <3>1 DEF RequestKnows
    <3> QED
      BY <2>4, <3>2 DEF RequestKnows
  <2> QED
    BY <1>a, <1>b, <2>1, <2>3, <2>4, <2>5
<1>4. ASSUME NEW r \in Requests, SaveProfile(r)
      PROVE  /\ KnownIn(profile')
             /\ buttons' \/ (\E x \in undelivered' : Presses(x)) => Known(profile')
             /\ \A h \in Requests : RequestKnows(req'[h], profile')
  <2> DEFINE q == [req[r] EXCEPT !.at = req[r].then, !.then = "done"]
  <2>1. /\ profile' = req[r].p /\ buttons' = buttons /\ undelivered' = undelivered
        /\ deletions = 0 /\ req[r].at = "save" /\ Become(r, q)
    BY <1>4 DEF SaveProfile, At
  <2>2. /\ KnownIn(req[r].p)
        /\ Known(profile) \/ req[r].then = "send" => Known(req[r].p)
        /\ Presses(req[r].u) => Known(profile)
    BY <1>a, <2>1 DEF RequestKnows
  <2>3. q.at = req[r].then /\ q.u = req[r].u /\ q.p = req[r].p /\ q.then = "done"
    BY <1>0 DEF RequestType
  <2>4. req[r].then \in {"done", "save", "send", "list"}
    BY <1>0 DEF RequestType, Thens
  <2> HIDE DEF q
  <2>5. RequestKnows(q, req[r].p)
    BY <2>2, <2>3, <2>4 DEF RequestKnows
  <2> QED
    BY <1>a, <1>b, <2>1, <2>2, <2>5
<1>5. ASSUME NEW r \in Requests, Erase(r) \/ Unlist(r) \/ UnlistCity(r) \/ DeleteWorker(r)
      PROVE  FALSE
  <2>1. CASE DeleteWorker(r)
    BY <1>0, <2>1 DEF DeleteWorker
  <2>2. CASE Erase(r) \/ Unlist(r) \/ UnlistCity(r)
    <3>1. deletions = 0 /\ req[r].at \in {"erase", "unlist", "unlist city"}
      BY <2>2 DEF Erase, Unlist, UnlistCity, At
    <3> QED
      BY <1>a, <3>1 DEF RequestKnows
  <2> QED
    BY <1>5, <2>1, <2>2
<1>6. ASSUME NEW r \in Requests, Fail(r)
      PROVE  /\ KnownIn(profile')
             /\ buttons' \/ (\E x \in undelivered' : Presses(x)) => Known(profile')
             /\ \A h \in Requests : RequestKnows(req'[h], profile')
  <2>1. /\ profile' = profile /\ buttons' = buttons /\ deletions = 0
        /\ undelivered' = undelivered \cup ({req[r].u} \ {Deletion})
        /\ Become(r, Idle)
    BY <1>6 DEF Fail
  <2>2. Presses(req[r].u) => Known(profile)
    BY <1>a, <2>1 DEF RequestKnows
  <2>3. RequestKnows(Idle, profile)
    BY DEF RequestKnows, Idle, Request, Presses, Deletion
  <2> QED
    BY <1>a, <1>b, <2>1, <2>2, <2>3
<1>9. ASSUME NEW r \in Requests, SaveIgnored(r)
      PROVE  /\ KnownIn(profile')
             /\ buttons' \/ (\E x \in undelivered' : Presses(x)) => Known(profile')
             /\ \A h \in Requests : RequestKnows(req'[h], profile')
  <2> DEFINE q == [req[r] EXCEPT !.at = req[r].then, !.then = "done"]
  <2>1. /\ profile' = profile /\ buttons' = buttons /\ undelivered' = undelivered
        /\ deletions = 0 /\ req[r].at = "save" /\ Become(r, q)
        /\ req[r].then \in {"done", "save"}
    BY <1>9 DEF SaveIgnored, At
  <2>2. RequestKnows(req[r], profile)
    BY <1>a, <2>1
  <2>3. q.at = req[r].then /\ q.u = req[r].u /\ q.p = req[r].p /\ q.then = "done"
    BY <1>0 DEF RequestType
  <2> HIDE DEF q
  <2>4. RequestKnows(q, profile)
    BY <2>1, <2>2, <2>3 DEF RequestKnows
  <2> QED
    BY <1>a, <1>b, <2>1, <2>4
<1>7. CASE CooldownEnds
  <2>1. /\ buttons' = buttons /\ undelivered' = undelivered /\ deletions = 0
        /\ req' = req /\ \A r \in Requests : req[r].at = "idle"
    BY <1>7 DEF CooldownEnds, At
  <2>2. KnownIn(profile') /\ (Known(profile') <=> Known(profile))
    BY <1>0, <1>7, <1>a, <2>1 DEF CooldownEnds, KnownIn, Known, Profiles
  <2>3. \A r \in Requests : RequestKnows(req'[r], profile')
    BY <1>a, <2>1, <2>2 DEF RequestKnows
  <2> QED
    BY <1>a, <2>1, <2>2, <2>3
<1>8. CASE BecomePatient \/ UNCHANGED vars
  <2>1. /\ profile' = profile /\ buttons' = buttons /\ undelivered' = undelivered
        /\ deletions = 0 /\ req' = req
    BY <1>8 DEF BecomePatient, vars
  <2> QED
    BY <1>a, <2>1
<1> QED
  BY <1>1, <1>2, <1>3, <1>4, <1>5, <1>6, <1>7, <1>8, <1>9 DEF Next, Proceed

(* Whose updates are served one after the other is never asked to confirm, *)
(* or registered, without a city, before an operator deletes the worker:   *)
(* also when handlers fail half way, updates come again, and old buttons   *)
(* are pressed.                                                            *)
THEOREM CityIsKnown ==
  ASSUME \A r, h \in Requests : r = h
  PROVE  Spec => []KnowsCity
<1>1. ASSUME Init PROVE CityInv
  <2>1. KnownIn(profile) /\ ~buttons /\ undelivered = {}
    BY <1>1 DEF Init, KnownIn, Empty
  <2>2. \A r \in Requests : RequestKnows(req[r], profile)
    BY <1>1 DEF Init, Idle, Request, RequestKnows, Presses, Deletion
  <2> QED
    BY <2>1, <2>2 DEF CityInv
<1>2. TypeOK /\ TypeOK' /\ CityInv /\ [Next]_vars => CityInv'
  BY NextKnows
<1>3. TypeOK /\ CityInv => KnowsCity
  <2> SUFFICES ASSUME TypeOK, CityInv,
                      profile.state \in {"await_confirm", "registered", "support"},
                      profile.city = NoCity
               PROVE  deletions > 0
    BY DEF KnowsCity
  <2>1. deletions # 0
    BY DEF CityInv, KnownIn, Known
  <2>2. deletions \in Nat
    BY BoundsAssumption DEF TypeOK
  <2> QED
    BY <2>1, <2>2
<1> QED
  BY RegistrationTypes, <1>1, <1>2, <1>3, PTL DEF Spec
=============================================================================
