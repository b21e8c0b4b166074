------------------------ MODULE OperatorPanelProofs ------------------------
(***************************************************************************)
(* Proofs about OperatorPanel for any number of requests, operators,       *)
(* updates, entries and errors.                                            *)
(***************************************************************************)
EXTENDS OperatorPanel, FiniteSetTheorems, SequenceTheorems, TLAPS

Parties == {Nothing} \cup Operators \cup Updates \cup Replies

Request == [at : Steps, for : Parties, known : BOOLEAN, calling : BOOLEAN, time : 0 .. MaxEntries]

(* Who a request serves fits its step, and an entry about to be pushed has *)
(* been stamped.                                                           *)
Fits(q) ==
  /\ q.at \in {"getvac", "cancel", "chatid"} \/ q.calling => q.for \in Cancels
  /\ q.at \in {"stamp", "push", "trim", "answer"} => q.for \in Updates \cup Replies
  /\ q.at \in {"now", "mark"} => q.for \in Operators
  /\ q.at = "push" => q.time > 0

ListTypes ==
  /\ log \in [Keys -> Seq(Entries)]
  /\ mark \in [Operators -> Nat]
  /\ saved \subseteq Updates \cup Replies

SetTypes ==
  /\ records \subseteq Foremen /\ listed \subseteq Foremen /\ created \subseteq Foremen
  /\ sessions \subseteq Operators
  /\ withdrawn \subseteq Cancels /\ undelivered \subseteq Updates /\ forgone \subseteq Updates
  /\ sends \in [Updates -> Nat]
  /\ failures \in Nat

RequestTypes ==
  /\ req \in [Requests -> Request]
  /\ \A r \in Requests : Fits(req[r])

(* Every request that will stamp an entry has its place among MaxEntries.  *)
RoomKept == clock \in Nat /\ clock + Cardinality(ToStamp) <= MaxEntries

TypeInv == ListTypes /\ SetTypes /\ RequestTypes /\ RoomKept

-----------------------------------------------------------------------------
LEMMA ToStampFinite == IsFiniteSet(ToStamp) /\ Cardinality(ToStamp) \in Nat
<1>1. ToStamp \subseteq Requests
  BY DEF ToStamp
<1> QED BY <1>1, FiniteAssumption, FS_Subset, FS_CardinalityType

LEMMA ToStampFiniteNext == IsFiniteSet(ToStamp') /\ Cardinality(ToStamp') \in Nat
<1>1. ToStamp' \subseteq Requests
  BY DEF ToStamp
<1> QED BY <1>1, FiniteAssumption, FS_Subset, FS_CardinalityType

LEMMA ClockBounded == RoomKept => clock \in 0 .. MaxEntries
  BY ToStampFinite, BoundsAssumption DEF RoomKept

Stamping == {"getvac", "cancel", "chatid", "stamp"}

(* A request that does not begin to stamp keeps the room of the others.    *)
LEMMA RoomStays ==
  ASSUME RequestTypes, RoomKept, NEW r \in Requests, NEW q, req' = [req EXCEPT ![r] = q],
         clock' = clock, q.at \in Stamping => req[r].at \in Stamping
  PROVE  RoomKept'
<1>1. ToStamp' \subseteq ToStamp
  BY DEF ToStamp, RequestTypes, Stamping
<1>2. Cardinality(ToStamp') <= Cardinality(ToStamp)
  BY <1>1, ToStampFinite, FS_Subset
<1> QED BY <1>2, ToStampFinite, ToStampFiniteNext, BoundsAssumption DEF RoomKept

(* A step of one request that leaves the lists alone.                      *)
LEMMA StepTypes ==
  ASSUME TypeInv, NEW r \in Requests, NEW q \in Request, Fits(q), req' = [req EXCEPT ![r] = q],
         SetTypes', UNCHANGED listVars, q.at \in Stamping => req[r].at \in Stamping
  PROVE  TypeInv'
<1>1. RoomKept'
  BY RoomStays DEF TypeInv, listVars
<1>2. RequestTypes'
  BY DEF TypeInv, RequestTypes
<1>3. ListTypes'
  BY DEF TypeInv, ListTypes, listVars
<1> QED BY <1>1, <1>2, <1>3 DEF TypeInv

LEMMA IdleTyped == Idle \in Request /\ Fits(Idle) /\ Idle.at = "idle" /\ Idle.for = Nothing
  BY BoundsAssumption DEF Idle, Request, Parties, Steps, Fits

LEMMA InitTypes == Init => TypeInv
<1> SUFFICES ASSUME Init PROVE TypeInv
  OBVIOUS
<1>1. ListTypes
  BY DEF Init, ListTypes
<1>2. SetTypes
  BY DEF Init, SetTypes
<1>3. RequestTypes
  BY IdleTyped DEF Init, RequestTypes
<1>4. ToStamp = {}
  BY IdleTyped DEF Init, ToStamp
<1>5. RoomKept
  BY <1>4, FS_EmptySet, BoundsAssumption DEF Init, RoomKept
<1> QED BY <1>1, <1>2, <1>3, <1>5 DEF TypeInv

-----------------------------------------------------------------------------
(* Foremen, sessions and the beginnings of requests. *)
LEMMA PanelTypes ==
  ASSUME TypeInv,
         \/ \E f \in Foremen : CreateForeman(f) \/ DeleteForeman(f)
         \/ \E o \in Operators : DoLogin(o) \/ EndSession(o)
  PROVE  TypeInv'
<1>1. UNCHANGED <<listVars, botVars, req>>
  BY DEF CreateForeman, DeleteForeman, DoLogin, EndSession
<1>2. SetTypes'
  <2>1. \A f \in Foremen : CreateForeman(f) => SetTypes'
    BY DEF TypeInv, SetTypes, CreateForeman, Working, Failing, botVars
  <2>2. \A f \in Foremen : DeleteForeman(f) => SetTypes'
    BY DEF TypeInv, SetTypes, DeleteForeman, Working, Failing, botVars
  <2>3. \A o \in Operators : DoLogin(o) \/ EndSession(o) => SetTypes'
    BY DEF TypeInv, SetTypes, DoLogin, EndSession, botVars
  <2> QED BY <2>1, <2>2, <2>3
<1>3. ListTypes' /\ RequestTypes'
  BY <1>1 DEF TypeInv, ListTypes, RequestTypes, listVars
<1>4. RoomKept'
  BY <1>1 DEF TypeInv, RoomKept, ToStamp, listVars
<1> QED BY <1>2, <1>3, <1>4 DEF TypeInv

(* A request that will stamp an entry begins where there is room.          *)
LEMMA EnterTypes ==
  ASSUME TypeInv, NEW r \in Requests, NEW u \in Updates \cup Replies, NEW step \in Stamping,
         Room, At(r, "idle"), Become(r, [Idle EXCEPT !.at = step, !.for = u]),
         step # "stamp" => u \in Cancels, UNCHANGED listVars, SetTypes'
  PROVE  TypeInv'
<1> DEFINE q == [Idle EXCEPT !.at = step, !.for = u]
<1>1. q \in Request /\ Fits(q) /\ req' = [req EXCEPT ![r] = q]
  BY IdleTyped DEF Request, Parties, Steps, Stamping, Fits, Idle, Become
<1> HIDE DEF q
<1>2. RequestTypes'
  BY <1>1 DEF TypeInv, RequestTypes
<1>3. ListTypes'
  BY DEF TypeInv, ListTypes, listVars
<1>4. RoomKept'
  <2>1. ToStamp' \subseteq ToStamp \cup {r}
    BY <1>1 DEF ToStamp, TypeInv, RequestTypes
  <2>2. Cardinality(ToStamp \cup {r}) <= Cardinality(ToStamp) + 1
        /\ IsFiniteSet(ToStamp \cup {r}) /\ Cardinality(ToStamp \cup {r}) \in Nat
    BY ToStampFinite, FS_AddElement, FS_CardinalityType
  <2>3. Cardinality(ToStamp') <= Cardinality(ToStamp) + 1
    BY <2>1, <2>2, ToStampFinite, ToStampFiniteNext, FS_Subset
  <2> QED BY <2>3, ToStampFinite, ToStampFiniteNext, BoundsAssumption
          DEF TypeInv, RoomKept, Room, listVars
<1> QED BY <1>2, <1>3, <1>4 DEF TypeInv

LEMMA BeginTypes ==
  ASSUME TypeInv, NEW r \in Requests,
         \/ \E u \in Updates : Send(r, u) \/ Redeliver(r, u)
         \/ \E o \in Operators, u \in Replies : SendWorkerChat(r, o, u)
         \/ \E o \in Operators : ListNotifications(r, o)
  PROVE  TypeInv'
<1>1. ASSUME NEW u \in Updates, Begin(r, u), UNCHANGED sends \/ sends' = [sends EXCEPT ![u] = @ + 1],
             undelivered' \subseteq Updates
      PROVE  TypeInv'
  <2> DEFINE step == IF u \in Cancels THEN "getvac" ELSE "stamp"
  <2>1. SetTypes'
    BY <1>1 DEF Begin, TypeInv, SetTypes, panelVars
  <2> QED BY <1>1, <2>1, EnterTypes DEF Begin, Stamping
<1>2. ASSUME NEW u \in Updates, Send(r, u) PROVE TypeInv'
  BY <1>1, <1>2 DEF Send, TypeInv, SetTypes
<1>3. ASSUME NEW u \in Updates, Redeliver(r, u) PROVE TypeInv'
  BY <1>1, <1>3 DEF Redeliver, TypeInv, SetTypes
<1>4. ASSUME NEW o \in Operators, NEW u \in Replies, SendWorkerChat(r, o, u) PROVE TypeInv'
  <2>1. SetTypes'
    BY <1>4 DEF SendWorkerChat, TypeInv, SetTypes, panelVars, botVars
  <2> QED BY <1>4, <2>1, EnterTypes DEF SendWorkerChat, Stamping
<1>5. ASSUME NEW o \in Operators, ListNotifications(r, o) PROVE TypeInv'
  <2> DEFINE q == [Idle EXCEPT !.at = "now", !.for = o]
  <2>1. SetTypes'
    BY <1>5 DEF ListNotifications, TypeInv, SetTypes, panelVars, botVars
  <2>2. q \in Request /\ Fits(q) /\ q.at \notin Stamping
    BY IdleTyped DEF Request, Parties, Steps, Stamping, Fits, Idle
  <2>3. req' = [req EXCEPT ![r] = q] /\ UNCHANGED listVars
    BY <1>5 DEF ListNotifications, Become
  <2> HIDE DEF q
  <2> QED BY <2>1, <2>2, <2>3, StepTypes
<1> QED BY <1>2, <1>3, <1>4, <1>5

(* The steps of a cancellation before its entry, and its goroutine. *)
LEMMA CancelTypes ==
  ASSUME TypeInv, NEW r \in Requests,
         GetVacancy(r) \/ CancelApply(r) \/ CancelFails(r) \/ GetChatID(r) \/ SendAlert(r)
  PROVE  TypeInv'
<1> DEFINE p == req[r]
<1>0. p \in Request /\ Fits(p) /\ req \in [Requests -> Request]
  BY DEF TypeInv, RequestTypes
<1>1. CASE GetVacancy(r)
  <2> DEFINE q(b) == [p EXCEPT !.at = "cancel", !.known = b]
  <2>1. PICK b \in BOOLEAN : req' = [req EXCEPT ![r] = q(b)]
    <3>1. Goto(r, "cancel") => req' = [req EXCEPT ![r] = q(p.known)]
      BY <1>0 DEF Goto, Become, Request
    <3> QED BY <1>0, <1>1, <3>1 DEF GetVacancy, Become, Request
  <2>2. q(b) \in Request
    BY <1>0 DEF Request, Steps
  <2>3. Fits(q(b)) /\ p.at \in Stamping
    BY <1>0, <1>1, <2>2 DEF Fits, GetVacancy, At, Request, Stamping
  <2>4. SetTypes' /\ UNCHANGED listVars
    BY <1>1 DEF GetVacancy, TypeInv, SetTypes, panelVars, botVars, Working, Failing
  <2> HIDE DEF q
  <2> QED BY <2>1, <2>2, <2>3, <2>4, StepTypes
<1>2. CASE CancelApply(r)
  <2> DEFINE q == [p EXCEPT !.at = IF Notifies(r) THEN "chatid" ELSE "answer", !.known = FALSE]
  <2>1. q \in Request /\ req' = [req EXCEPT ![r] = q]
    BY <1>0, <1>2 DEF Request, Steps, CancelApply, Become
  <2>2. p.for \in Cancels /\ p.at \in Stamping
    BY <1>0, <1>2 DEF Fits, CancelApply, At, Stamping
  <2>3. Fits(q)
    BY <1>0, <2>1, <2>2 DEF Fits, Request, Updates
  <2>4. SetTypes' /\ UNCHANGED listVars
    BY <1>2, <2>2 DEF CancelApply, TypeInv, SetTypes, panelVars, Updates
  <2> HIDE DEF q
  <2> QED BY <2>1, <2>2, <2>3, <2>4, StepTypes
<1>3. CASE CancelFails(r)
  <2> DEFINE q == [p EXCEPT !.at = "answer"]
  <2>1. q \in Request /\ req' = [req EXCEPT ![r] = q]
    BY <1>0, <1>3 DEF Request, Steps, CancelFails, Goto, Become
  <2>2. p.for \in Cancels /\ p.at \in Stamping
    BY <1>0, <1>3 DEF Fits, CancelFails, At, Stamping
  <2>3. Fits(q)
    BY <1>0, <2>1, <2>2 DEF Fits, Request, Updates
  <2>4. SetTypes' /\ UNCHANGED listVars
    BY <1>3, <2>2 DEF CancelFails, TypeInv, SetTypes, panelVars, Updates, Failing
  <2> HIDE DEF q
  <2> QED BY <2>1, <2>2, <2>3, <2>4, StepTypes
<1>4. CASE GetChatID(r)
  <2> DEFINE q(b) == [p EXCEPT !.at = "stamp", !.calling = b]
  <2>1. PICK b \in BOOLEAN : req' = [req EXCEPT ![r] = q(b)]
    <3>1. Goto(r, "stamp") => req' = [req EXCEPT ![r] = q(p.calling)]
      BY <1>0 DEF Goto, Become, Request
    <3>2. CASE Goto(r, "stamp")
      <4>1. p.calling \in BOOLEAN
        BY <1>0 DEF Request
      <4> HIDE DEF p, q
      <4> QED BY <3>1, <3>2, <4>1
    <3>3. CASE Become(r, [req[r] EXCEPT !.at = "stamp", !.calling = KeyOf[req[r].for] \in records])
      <4>1. (KeyOf[req[r].for] \in records) \in BOOLEAN
        OBVIOUS
      <4> QED BY <3>3, <4>1 DEF Become
    <3> QED BY <1>4, <3>2, <3>3 DEF GetChatID
  <2>2. q(b) \in Request
    BY <1>0 DEF Request, Steps
  <2>3. Fits(q(b)) /\ p.at \in Stamping
    BY <1>0, <1>4, <2>2 DEF Fits, GetChatID, At, Request, Stamping, Updates
  <2>4. SetTypes' /\ UNCHANGED listVars
    BY <1>4 DEF GetChatID, TypeInv, SetTypes, panelVars, botVars, Working, Failing
  <2> HIDE DEF q
  <2> QED BY <2>1, <2>2, <2>3, <2>4, StepTypes
<1>5. CASE SendAlert(r)
  <2> DEFINE q == [p EXCEPT !.calling = FALSE]
  <2>1. q \in Request /\ req' = [req EXCEPT ![r] = q] /\ q.at = p.at
    BY <1>0, <1>5 DEF Request, SendAlert, Become
  <2>2. Fits(q)
    BY <1>0, <2>1 DEF Fits, Request
  <2>3. SetTypes' /\ UNCHANGED listVars
    BY <1>5 DEF SendAlert, TypeInv, SetTypes, panelVars, botVars
  <2> HIDE DEF q
  <2> QED BY <2>1, <2>2, <2>3, StepTypes
<1> QED BY <1>1, <1>2, <1>3, <1>4, <1>5

LEMMA StampTypes ==
  ASSUME TypeInv, NEW r \in Requests, Stamp(r)
  PROVE  TypeInv'
<1> DEFINE p == req[r]
           q == [p EXCEPT !.at = "push", !.time = clock + 1]
<1>0. p \in Request /\ Fits(p) /\ req \in [Requests -> Request] /\ p.at = "stamp"
      /\ clock' = clock + 1 /\ req' = [req EXCEPT ![r] = q]
  BY DEF TypeInv, RequestTypes, Stamp, At, Become
<1>1. r \in ToStamp
  BY <1>0 DEF ToStamp
<1>2. Cardinality(ToStamp \ {r}) = Cardinality(ToStamp) - 1 /\ IsFiniteSet(ToStamp \ {r})
  BY <1>1, ToStampFinite, FS_RemoveElement
<1>3. ToStamp' \subseteq ToStamp \ {r}
  BY <1>0 DEF ToStamp, Request
<1>4. Cardinality(ToStamp') <= Cardinality(ToStamp) - 1
  BY <1>2, <1>3, FS_Subset
<1>5. RoomKept' /\ clock + 1 \in 0 .. MaxEntries
  BY <1>0, <1>4, ToStampFinite, ToStampFiniteNext, BoundsAssumption DEF TypeInv, RoomKept
<1>6. q \in Request /\ Fits(q)
  <2>1. q \in Request
    BY <1>0, <1>5 DEF Request, Steps
  <2>2. clock + 1 > 0
    BY DEF TypeInv, RoomKept
  <2> QED BY <1>0, <2>1, <2>2 DEF Fits, Request
<1> HIDE DEF q
<1>7. RequestTypes'
  BY <1>0, <1>6 DEF TypeInv, RequestTypes
<1>8. SetTypes' /\ ListTypes'
  BY DEF Stamp, TypeInv, SetTypes, ListTypes, panelVars, botVars
<1> QED BY <1>5, <1>7, <1>8 DEF TypeInv

(* What LPUSH and LTRIM are given. *)
LEMMA EntryTypes ==
  ASSUME TypeInv, NEW r \in Requests, At(r, "push") \/ At(r, "trim")
  PROVE  /\ req[r].for \in Updates \cup Replies /\ Key(r) \in Keys
         /\ At(r, "push") => Entry(r) \in Entries
<1>1. req[r] \in Request /\ Fits(req[r])
  BY DEF TypeInv, RequestTypes
<1>2. req[r].for \in Updates \cup Replies
  BY <1>1 DEF Fits, At
<1>3. Key(r) \in Keys
  BY <1>2, KeyOfAssumption DEF Key
<1>4. At(r, "push") => req[r].time \in Moments
  BY <1>1, BoundsAssumption DEF At, Fits, Request, Moments
<1> QED BY <1>2, <1>3, <1>4 DEF Entry, Entries

LEMMA FirstTypes ==
  ASSUME NEW S, NEW s \in Seq(S), NEW n \in Nat
  PROVE  /\ First(n, s) \in Seq(S)
         /\ Len(First(n, s)) = IF Len(s) < n THEN Len(s) ELSE n
         /\ \A i \in 1 .. Len(First(n, s)) : First(n, s)[i] = s[i]
<1> DEFINE m == IF Len(s) < n THEN Len(s) ELSE n
<1>1. m \in Nat /\ m <= Len(s) /\ \A i \in 1 .. m : s[i] \in S
  OBVIOUS
<1> HIDE DEF m
<1>2. /\ SubSeq(s, 1, m) \in Seq(S) /\ Len(SubSeq(s, 1, m)) = m
      /\ \A i \in 1 .. m : SubSeq(s, 1, m)[i] = s[i]
  BY <1>1
<1> QED BY <1>1, <1>2 DEF First, m

LEMMA SaveTypes ==
  ASSUME TypeInv, NEW r \in Requests, LPush(r) \/ LTrim(r) \/ SaveFails(r)
  PROVE  TypeInv'
<1> DEFINE p == req[r]
<1>0. /\ p \in Request /\ Fits(p) /\ req \in [Requests -> Request]
      /\ p.for \in Updates \cup Replies /\ Key(r) \in Keys /\ log[Key(r)] \in Seq(Entries)
  BY EntryTypes DEF TypeInv, RequestTypes, ListTypes, LPush, LTrim, SaveFails
<1>1. CASE LPush(r)
  <2> DEFINE q == [p EXCEPT !.at = "trim", !.time = 0]
  <2>1. q \in Request /\ req' = [req EXCEPT ![r] = q]
    <3>1. 0 \in 0 .. MaxEntries
      BY BoundsAssumption
    <3> QED BY <1>0, <1>1, <3>1 DEF Request, Steps, LPush, Become
  <2>2. Fits(q)
    BY <1>0, <2>1 DEF Fits, Request
  <2>3. <<Entry(r)>> \o log[Key(r)] \in Seq(Entries)
    BY <1>0, <1>1, EntryTypes DEF LPush
  <2>4. ListTypes'
    BY <1>0, <1>1, <2>3 DEF LPush, Pushed, TypeInv, ListTypes
  <2>5. SetTypes'
    BY <1>1 DEF LPush, TypeInv, SetTypes, panelVars, botVars
  <2>6. q.at \notin Stamping /\ clock' = clock
    BY <1>0, <1>1 DEF Request, Stamping, LPush
  <2> HIDE DEF q
  <2>7. RequestTypes' /\ RoomKept'
    BY <2>1, <2>2, <2>6, RoomStays DEF TypeInv, RequestTypes
  <2> QED BY <2>4, <2>5, <2>7 DEF TypeInv
<1>2. CASE LTrim(r)
  <2> DEFINE q == [p EXCEPT !.at = "answer"]
  <2>1. q \in Request /\ req' = [req EXCEPT ![r] = q]
    BY <1>0, <1>2 DEF Request, Steps, LTrim, Goto, Become
  <2>2. Fits(q)
    BY <1>0, <2>1 DEF Fits, Request
  <2>3. First(Cap, log[Key(r)]) \in Seq(Entries)
    BY <1>0, FirstTypes, CapAssumption
  <2>4. ListTypes'
    BY <1>0, <1>2, <2>3 DEF LTrim, TypeInv, ListTypes
  <2>5. SetTypes'
    BY <1>2 DEF LTrim, TypeInv, SetTypes, panelVars, botVars
  <2>6. q.at \notin Stamping /\ clock' = clock
    BY <1>0, <1>2 DEF Request, Stamping, LTrim
  <2> HIDE DEF q
  <2>7. RequestTypes' /\ RoomKept'
    BY <2>1, <2>2, <2>6, RoomStays DEF TypeInv, RequestTypes
  <2> QED BY <2>4, <2>5, <2>7 DEF TypeInv
<1>3. CASE SaveFails(r)
  <2> DEFINE q == [p EXCEPT !.at = "answer"]
  <2>1. q \in Request /\ req' = [req EXCEPT ![r] = q]
    BY <1>0, <1>3 DEF Request, Steps, SaveFails, Goto, Become
  <2>2. Fits(q) /\ q.at \notin Stamping
    BY <1>0, <2>1 DEF Fits, Request, Stamping
  <2>3. SetTypes' /\ UNCHANGED listVars
    BY <1>0, <1>3 DEF SaveFails, TypeInv, SetTypes, panelVars, Failing
  <2> HIDE DEF q
  <2> QED BY <2>1, <2>2, <2>3, StepTypes
<1> QED BY <1>1, <1>2, <1>3

LEMMA EndTypes ==
  ASSUME TypeInv, NEW r \in Requests,
         Answer(r) \/ AnswerFails(r) \/ TakeTime(r) \/ MarkRead(r)
  PROVE  TypeInv'
<1> DEFINE p == req[r]
<1>0. p \in Request /\ Fits(p) /\ req \in [Requests -> Request]
  BY DEF TypeInv, RequestTypes
<1>1. CASE Answer(r) \/ AnswerFails(r)
  <2>1. req' = [req EXCEPT ![r] = Idle] /\ UNCHANGED listVars
    BY <1>1 DEF Answer, AnswerFails, Become
  <2>2. p.for \in Updates \cup Replies
    BY <1>0, <1>1 DEF Fits, Answer, AnswerFails, At
  <2>3. SetTypes'
    <3>1. CASE Answer(r)
      BY <3>1 DEF Answer, TypeInv, SetTypes, panelVars, botVars
    <3>2. CASE AnswerFails(r)
      BY <2>2, <3>2 DEF AnswerFails, TypeInv, SetTypes, panelVars, Failing
    <3> QED BY <1>1, <3>1, <3>2
  <2> QED BY <2>1, <2>3, StepTypes, IdleTyped DEF Stamping
<1>2. CASE TakeTime(r)
  <2> DEFINE q == [p EXCEPT !.at = "mark", !.time = clock]
  <2>1. clock \in 0 .. MaxEntries
    BY ClockBounded DEF TypeInv
  <2>2. q \in Request /\ req' = [req EXCEPT ![r] = q]
    BY <1>0, <1>2, <2>1 DEF Request, Steps, TakeTime, Become
  <2>3. Fits(q) /\ q.at \notin Stamping
    BY <1>0, <1>2, <2>2 DEF Fits, Request, Stamping, TakeTime, At
  <2>4. SetTypes' /\ UNCHANGED listVars
    BY <1>2 DEF TakeTime, TypeInv, SetTypes, panelVars, botVars
  <2> HIDE DEF q
  <2> QED BY <2>2, <2>3, <2>4, StepTypes
<1>3. CASE MarkRead(r)
  <2>1. req' = [req EXCEPT ![r] = Idle] /\ clock' = clock
    BY <1>3 DEF MarkRead, Become
  <2>2. p.for \in Operators /\ p.time \in Nat
    BY <1>0, <1>3, BoundsAssumption DEF Fits, MarkRead, At, Request
  <2>3. ListTypes'
    BY <1>3, <2>2 DEF MarkRead, TypeInv, ListTypes
  <2>4. SetTypes'
    BY <1>3 DEF MarkRead, TypeInv, SetTypes, panelVars, botVars, Working, Failing
  <2>5. RoomKept'
    BY <2>1, RoomStays, IdleTyped DEF TypeInv, Stamping
  <2>6. RequestTypes'
    BY <2>1, IdleTyped DEF TypeInv, RequestTypes
  <2> QED BY <2>3, <2>4, <2>5, <2>6 DEF TypeInv
<1> QED BY <1>1, <1>2, <1>3

LEMMA KillTypes ==
  ASSUME TypeInv, Kill
  PROVE  TypeInv'
<1>1. req' = [r \in Requests |-> Idle] /\ UNCHANGED listVars
  BY DEF Kill
<1>2. ToStamp' = {}
  BY <1>1, IdleTyped DEF ToStamp
<1>3. RoomKept'
  BY <1>1, <1>2, FS_EmptySet, ToStampFinite, BoundsAssumption DEF TypeInv, RoomKept, listVars
<1>4. RequestTypes'
  BY <1>1, IdleTyped DEF RequestTypes
<1>5. SetTypes'
  BY DEF Kill, TypeInv, SetTypes, panelVars, Failing
<1>6. ListTypes'
  BY <1>1 DEF TypeInv, ListTypes, listVars
<1> QED BY <1>3, <1>4, <1>5, <1>6 DEF TypeInv

LEMMA NextTypes == TypeInv /\ [Next]_vars => TypeInv'
<1> SUFFICES ASSUME TypeInv, [Next]_vars PROVE TypeInv'
  OBVIOUS
<1>1. CASE UNCHANGED vars
  <2>1. UNCHANGED <<panelVars, listVars, botVars, req, failures>>
    BY <1>1 DEF vars
  <2>2. SetTypes'
    BY <2>1 DEF TypeInv, SetTypes, panelVars, botVars
  <2>3. ListTypes' /\ RequestTypes' /\ RoomKept'
    BY <2>1 DEF TypeInv, ListTypes, RequestTypes, RoomKept, ToStamp, listVars
  <2> QED BY <2>2, <2>3 DEF TypeInv
<1>2. ASSUME NEW r \in Requests, Handler(r) PROVE TypeInv'
  BY <1>2, CancelTypes, StampTypes, SaveTypes, EndTypes DEF Handler
<1>3. ASSUME NEW r \in Requests,
             SendAlert(r) \/ CancelFails(r) \/ SaveFails(r) \/ AnswerFails(r)
      PROVE  TypeInv'
  BY <1>3, CancelTypes, SaveTypes, EndTypes
<1> QED BY <1>1, <1>2, <1>3, PanelTypes, BeginTypes, KillTypes DEF Next

(* In every state of every behaviour the lists, marks, sets and requests   *)
(* have their types, and no entry is stamped beyond the bound.             *)
THEOREM Typed == Spec => []TypeOK
<1>1. Spec => []TypeInv
  BY InitTypes, NextTypes, PTL DEF Spec
<1>2. TypeInv => TypeOK
  <2> SUFFICES ASSUME TypeInv PROVE TypeOK
    OBVIOUS
  <2>1. clock \in 0 .. MaxEntries
    BY ClockBounded DEF TypeInv
  <2>2. req \in [Requests -> [at : Steps, for : {Nothing} \cup Operators \cup Updates \cup Replies,
                             known : BOOLEAN, calling : BOOLEAN, time : 0 .. MaxEntries]]
    BY DEF TypeInv, RequestTypes, Request, Parties
  <2>3. \A r \in Requests :
       /\ req[r].at \in {"getvac", "cancel", "chatid"} \/ req[r].calling => req[r].for \in Cancels
       /\ req[r].at \in {"stamp", "push", "trim", "answer"} => req[r].for \in Updates \cup Replies
       /\ req[r].at \in {"now", "mark"} => req[r].for \in Operators
       /\ At(r, "push") => req[r].time > 0
    BY DEF TypeInv, RequestTypes, Fits, At
  <2> QED BY <2>1, <2>2, <2>3 DEF TypeInv, ListTypes, SetTypes, TypeOK
<1> QED BY <1>1, <1>2, PTL

-----------------------------------------------------------------------------
(* HandledIsRecorded by itself is not inductive: a request may forget its  *)
(* update at the end only because by then an entry or an error accounts    *)
(* for it, and an idle request holds none to be forgotten.                 *)
Accounted ==
  \A r \in Requests :
    /\ req[r].at \in {"trim", "answer"} /\ req[r].for \in Updates => req[r].for \in saved \cup forgone
    /\ At(r, "idle") => req[r].for = Nothing

RecordInv == TypeInv /\ HandledIsRecorded /\ Accounted

(* A request may go on to q if q holds the same update, or the update it   *)
(* held is accounted for.                                                  *)
LEMMA StepAccounts ==
  ASSUME RecordInv, NEW r \in Requests, NEW q, req' = [req EXCEPT ![r] = q],
         saved \subseteq saved', forgone \subseteq forgone',
         undelivered \subseteq undelivered' \cup {q.for},
         \A u \in Updates : sends'[u] > 0 => sends[u] > 0 \/ u = q.for,
         \/ q.for = req[r].for
         \/ req[r].for \notin Updates
         \/ req[r].for \in saved' \cup forgone' \cup undelivered',
         q.at \in {"trim", "answer"} /\ q.for \in Updates => q.for \in saved' \cup forgone',
         q.at = "idle" => q.for = Nothing
  PROVE  HandledIsRecorded' /\ Accounted'
<1>1. req \in [Requests -> Request]
  BY DEF RecordInv, TypeInv, RequestTypes
<1>2. req'[r] = q /\ \A s \in Requests \ {r} : req'[s] = req[s]
  BY <1>1
<1>3. \A u \in Busy : u = req[r].for \/ u \in Busy'
  BY <1>2 DEF Busy
<1>4. q.for \in Busy'
  BY <1>2 DEF Busy
<1>5. HandledIsRecorded'
  <2> SUFFICES ASSUME NEW u \in Updates, sends'[u] > 0
               PROVE  u \in saved' \cup forgone' \cup undelivered' \cup Busy'
    BY DEF HandledIsRecorded
  <2>1. CASE u = q.for
    BY <2>1, <1>4
  <2>2. CASE u # q.for
    <3>1. u \in saved \cup forgone \cup undelivered \cup Busy
      BY <2>2 DEF RecordInv, HandledIsRecorded
    <3>2. CASE u = req[r].for
      BY <2>2, <3>2
    <3> QED BY <2>2, <3>1, <3>2, <1>3
  <2> QED BY <2>1, <2>2
<1>6. Accounted'
  <2> SUFFICES ASSUME NEW s \in Requests
      PROVE  /\ req'[s].at \in {"trim", "answer"} /\ req'[s].for \in Updates
                  => req'[s].for \in saved' \cup forgone'
             /\ req'[s].at = "idle" => req'[s].for = Nothing
    BY DEF Accounted, At
  <2>1. CASE s = r
    BY <2>1, <1>2
  <2>2. CASE s # r
    BY <2>2, <1>2 DEF RecordInv, Accounted, At
  <2> QED BY <2>1, <2>2
<1> QED BY <1>5, <1>6

LEMMA SortsApart ==
  /\ \A u \in Updates : u \notin Replies /\ u \notin Operators /\ u # Nothing
  /\ Idle.at = "idle" /\ Idle.for = Nothing
  BY SortsAssumption DEF Updates, Idle

(* A step that only moves a request on, and takes it to no end.            *)
LEMMA GoingOnAccounts ==
  ASSUME RecordInv, NEW r \in Requests, NEW q, req' = [req EXCEPT ![r] = q],
         UNCHANGED <<saved, botVars>>, q.for = req[r].for, q.at \notin {"trim", "answer", "idle"}
  PROVE  HandledIsRecorded' /\ Accounted'
<1>1. UNCHANGED <<forgone, undelivered, sends>>
  BY DEF botVars
<1> QED BY <1>1, StepAccounts

LEMMA BeginAccounts ==
  ASSUME RecordInv, NEW r \in Requests, NEW u \in Updates, Send(r, u) \/ Redeliver(r, u)
  PROVE  HandledIsRecorded' /\ Accounted'
<1> DEFINE q == [Idle EXCEPT !.at = IF u \in Cancels THEN "getvac" ELSE "stamp", !.for = u]
<1>1. /\ Begin(r, u)
      /\ undelivered \subseteq undelivered' \cup {u}
      /\ \A w \in Updates : sends'[w] > 0 => sends[w] > 0 \/ w = u
  BY DEF Send, Redeliver, RecordInv, TypeInv, SetTypes
<1>2. /\ req' = [req EXCEPT ![r] = q] /\ q.for = u /\ q.at \in {"getvac", "stamp"}
      /\ saved' = saved /\ forgone' = forgone
  BY <1>1 DEF Begin, Become, Idle, listVars
<1>3. req[r].for \notin Updates
  BY <1>1, SortsApart DEF RecordInv, Accounted, Begin
<1> HIDE DEF q
<1> QED BY <1>1, <1>2, <1>3, StepAccounts

LEMMA CancelAccounts ==
  ASSUME RecordInv, NEW r \in Requests,
         GetVacancy(r) \/ CancelApply(r) \/ CancelFails(r) \/ GetChatID(r) \/ SendAlert(r)
  PROVE  HandledIsRecorded' /\ Accounted'
<1> DEFINE p == req[r]
<1>0. p \in Request
  BY DEF RecordInv, TypeInv, RequestTypes
<1>1. CASE GetVacancy(r)
  <2> DEFINE q == [p EXCEPT !.at = "cancel"]
             k == [p EXCEPT !.at = "cancel", !.known = TRUE]
  <2>1. req' = [req EXCEPT ![r] = q] \/ req' = [req EXCEPT ![r] = k]
    BY <1>1 DEF GetVacancy, Goto, Become
  <2>2. q.for = p.for /\ q.at = "cancel" /\ k.for = p.for /\ k.at = "cancel"
    BY <1>0 DEF Request
  <2>3. UNCHANGED <<saved, botVars>>
    BY <1>1 DEF GetVacancy, listVars
  <2> HIDE DEF q, k
  <2>4. CASE req' = [req EXCEPT ![r] = q]
    BY <2>2, <2>3, <2>4, GoingOnAccounts
  <2>5. CASE req' = [req EXCEPT ![r] = k]
    BY <2>2, <2>3, <2>5, GoingOnAccounts
  <2> QED BY <2>1, <2>4, <2>5
<1>2. CASE CancelApply(r)
  <2> DEFINE q == [p EXCEPT !.at = IF Notifies(r) THEN "chatid" ELSE "answer", !.known = FALSE]
  <2>1. /\ req' = [req EXCEPT ![r] = q] /\ q.for = p.for
        /\ q.at = IF p.known THEN "chatid" ELSE "answer"
    BY <1>0, <1>2 DEF CancelApply, Become, Request, Notifies
  <2>2. /\ UNCHANGED <<saved, sends, undelivered>>
        /\ forgone' = IF p.known THEN forgone ELSE forgone \cup {p.for}
    BY <1>2 DEF CancelApply, listVars
  <2> HIDE DEF q
  <2> QED BY <2>1, <2>2, StepAccounts
<1>3. CASE CancelFails(r)
  <2> DEFINE q == [p EXCEPT !.at = "answer"]
  <2>1. req' = [req EXCEPT ![r] = q] /\ q.for = p.for /\ q.at = "answer"
    BY <1>0, <1>3 DEF CancelFails, Goto, Become, Request
  <2>2. UNCHANGED <<saved, sends, undelivered>> /\ forgone' = forgone \cup {p.for}
    BY <1>3 DEF CancelFails, listVars
  <2> HIDE DEF q
  <2> QED BY <2>1, <2>2, StepAccounts
<1>4. CASE GetChatID(r)
  <2> DEFINE q == [p EXCEPT !.at = "stamp"]
             c == [p EXCEPT !.at = "stamp", !.calling = KeyOf[p.for] \in records]
  <2>1. req' = [req EXCEPT ![r] = q] \/ req' = [req EXCEPT ![r] = c]
    BY <1>4 DEF GetChatID, Goto, Become
  <2>2. q.for = p.for /\ q.at = "stamp" /\ c.for = p.for /\ c.at = "stamp"
    BY <1>0 DEF Request
  <2>3. UNCHANGED <<saved, botVars>>
    BY <1>4 DEF GetChatID, listVars
  <2> HIDE DEF q, c
  <2>4. CASE req' = [req EXCEPT ![r] = q]
    BY <2>2, <2>3, <2>4, GoingOnAccounts
  <2>5. CASE req' = [req EXCEPT ![r] = c]
    BY <2>2, <2>3, <2>5, GoingOnAccounts
  <2> QED BY <2>1, <2>4, <2>5
<1>5. CASE SendAlert(r)
  <2> DEFINE q == [p EXCEPT !.calling = FALSE]
  <2>1. req' = [req EXCEPT ![r] = q] /\ q.for = p.for /\ q.at = p.at
    BY <1>0, <1>5 DEF SendAlert, Become, Request
  <2>2. UNCHANGED <<saved, sends, undelivered, forgone>>
    BY <1>5 DEF SendAlert, listVars, botVars
  <2>3. /\ p.at \in {"trim", "answer"} /\ p.for \in Updates => p.for \in saved \cup forgone
        /\ p.at = "idle" => p.for = Nothing
    BY DEF RecordInv, Accounted, At
  <2> HIDE DEF q
  <2> QED BY <2>1, <2>2, <2>3, StepAccounts
<1> QED BY <1>1, <1>2, <1>3, <1>4, <1>5

LEMMA SaveAccounts ==
  ASSUME RecordInv, NEW r \in Requests,
         Stamp(r) \/ LPush(r) \/ LTrim(r) \/ SaveFails(r)
  PROVE  HandledIsRecorded' /\ Accounted'
<1> DEFINE p == req[r]
<1>0. p \in Request
  BY DEF RecordInv, TypeInv, RequestTypes
<1>1. CASE Stamp(r)
  <2> DEFINE q == [p EXCEPT !.at = "push", !.time = clock']
  <2>1. req' = [req EXCEPT ![r] = q] /\ q.for = p.for /\ q.at = "push"
    BY <1>0, <1>1 DEF Stamp, Become, Request
  <2>2. UNCHANGED <<saved, botVars>>
    BY <1>1 DEF Stamp
  <2> HIDE DEF q
  <2> QED BY <2>1, <2>2, GoingOnAccounts
<1>2. CASE LPush(r)
  <2> DEFINE q == [p EXCEPT !.at = "trim", !.time = 0]
  <2>1. req' = [req EXCEPT ![r] = q] /\ q.for = p.for /\ q.at = "trim"
    BY <1>0, <1>2 DEF LPush, Become, Request
  <2>2. UNCHANGED <<sends, undelivered, forgone>> /\ saved' = saved \cup {p.for}
    BY <1>2 DEF LPush, botVars
  <2> HIDE DEF q
  <2> QED BY <2>1, <2>2, StepAccounts
<1>3. CASE LTrim(r)
  <2> DEFINE q == [p EXCEPT !.at = "answer"]
  <2>1. req' = [req EXCEPT ![r] = q] /\ q.for = p.for /\ q.at = "answer"
    BY <1>0, <1>3 DEF LTrim, Goto, Become, Request
  <2>2. UNCHANGED <<saved, sends, undelivered, forgone>>
    BY <1>3 DEF LTrim, botVars
  <2>3. p.for \in Updates => p.for \in saved \cup forgone
    BY <1>3 DEF LTrim, At, RecordInv, Accounted
  <2> HIDE DEF q
  <2> QED BY <2>1, <2>2, <2>3, StepAccounts
<1>4. CASE SaveFails(r)
  <2> DEFINE q == [p EXCEPT !.at = "answer"]
  <2>1. req' = [req EXCEPT ![r] = q] /\ q.for = p.for /\ q.at = "answer"
    BY <1>0, <1>4 DEF SaveFails, Goto, Become, Request
  <2>2. UNCHANGED <<saved, sends, undelivered>> /\ forgone \subseteq forgone'
    BY <1>4 DEF SaveFails, listVars
  <2>3. p.for \in Updates => p.for \in saved \cup forgone'
    <3>1. CASE At(r, "push") /\ forgone' = forgone \cup ({p.for} \ Replies)
      BY <3>1, SortsApart
    <3>2. CASE At(r, "trim") /\ UNCHANGED forgone
      BY <3>2 DEF At, RecordInv, Accounted
    <3> QED BY <1>4, <3>1, <3>2 DEF SaveFails
  <2> HIDE DEF q
  <2> QED BY <2>1, <2>2, <2>3, StepAccounts
<1> QED BY <1>1, <1>2, <1>3, <1>4

LEMMA EndAccounts ==
  ASSUME RecordInv, NEW r \in Requests,
         Answer(r) \/ AnswerFails(r) \/ TakeTime(r) \/ MarkRead(r)
  PROVE  HandledIsRecorded' /\ Accounted'
<1> DEFINE p == req[r]
<1>0. p \in Request /\ Fits(p)
  BY DEF RecordInv, TypeInv, RequestTypes
<1>1. CASE Answer(r) \/ AnswerFails(r)
  <2>1. req' = [req EXCEPT ![r] = Idle]
    BY <1>1 DEF Answer, AnswerFails, Become
  <2>2. UNCHANGED <<saved, sends, forgone>> /\ undelivered \subseteq undelivered'
    BY <1>1 DEF Answer, AnswerFails, listVars, botVars
  <2>3. p.for \in Updates => p.for \in saved \cup forgone
    BY <1>1 DEF Answer, AnswerFails, At, RecordInv, Accounted
  <2> QED BY <2>1, <2>2, <2>3, StepAccounts, SortsApart
<1>2. CASE TakeTime(r)
  <2> DEFINE q == [p EXCEPT !.at = "mark", !.time = clock]
  <2>1. req' = [req EXCEPT ![r] = q] /\ q.for = p.for /\ q.at = "mark"
    BY <1>0, <1>2 DEF TakeTime, Become, Request
  <2>2. UNCHANGED <<saved, botVars>>
    BY <1>2 DEF TakeTime, listVars
  <2> HIDE DEF q
  <2> QED BY <2>1, <2>2, GoingOnAccounts
<1>3. CASE MarkRead(r)
  <2>1. req' = [req EXCEPT ![r] = Idle]
    BY <1>3 DEF MarkRead, Become
  <2>2. UNCHANGED <<saved, sends, undelivered, forgone>>
    BY <1>3 DEF MarkRead, botVars
  <2>3. p.for \notin Updates
    BY <1>0, <1>3, SortsApart DEF MarkRead, At, Fits
  <2> QED BY <2>1, <2>2, <2>3, StepAccounts, SortsApart
<1> QED BY <1>1, <1>2, <1>3

LEMMA PanelAccounts ==
  ASSUME RecordInv, NEW r \in Requests, NEW o \in Operators,
         ListNotifications(r, o) \/ \E u \in Replies : SendWorkerChat(r, o, u)
  PROVE  HandledIsRecorded' /\ Accounted'
<1>1. PICK u : \/ req' = [req EXCEPT ![r] = [Idle EXCEPT !.at = "now", !.for = u]]
              \/ req' = [req EXCEPT ![r] = [Idle EXCEPT !.at = "stamp", !.for = u]]
  BY DEF ListNotifications, SendWorkerChat, Become
<1>2. UNCHANGED <<saved, sends, undelivered, forgone>> /\ At(r, "idle")
  BY DEF ListNotifications, SendWorkerChat, listVars, botVars
<1>3. req[r].for \notin Updates
  BY <1>2, SortsApart DEF RecordInv, Accounted
<1>4. /\ [Idle EXCEPT !.at = "now", !.for = u].at = "now"
      /\ [Idle EXCEPT !.at = "stamp", !.for = u].at = "stamp"
  BY DEF Idle
<1> QED BY <1>1, <1>2, <1>3, <1>4, StepAccounts

(* A killed process leaves to Telegram what it was handling.               *)
LEMMA KillAccounts ==
  ASSUME RecordInv, Kill
  PROVE  HandledIsRecorded' /\ Accounted'
<1>1. /\ req' = [r \in Requests |-> Idle]
      /\ undelivered' = undelivered \cup (Busy \cap Updates)
      /\ UNCHANGED <<saved, sends, forgone>>
  BY DEF Kill, listVars
<1>2. HandledIsRecorded'
  BY <1>1 DEF RecordInv, HandledIsRecorded
<1>3. Accounted'
  BY <1>1, SortsApart DEF Accounted, At
<1> QED BY <1>2, <1>3

LEMMA NextAccounts == RecordInv /\ [Next]_vars => RecordInv'
<1> SUFFICES ASSUME RecordInv, [Next]_vars PROVE HandledIsRecorded' /\ Accounted'
  BY NextTypes DEF RecordInv
<1>0. ASSUME UNCHANGED <<saved, forgone, undelivered, sends, req>>
      PROVE  HandledIsRecorded' /\ Accounted'
  BY <1>0 DEF RecordInv, HandledIsRecorded, Accounted, At, Busy
<1>1. CASE UNCHANGED vars
  BY <1>0, <1>1 DEF vars, listVars, botVars
<1>2. ASSUME NEW f \in Foremen, CreateForeman(f) \/ DeleteForeman(f)
      PROVE  HandledIsRecorded' /\ Accounted'
  BY <1>0, <1>2 DEF CreateForeman, DeleteForeman, listVars, botVars
<1>3. ASSUME NEW o \in Operators, DoLogin(o) \/ EndSession(o)
      PROVE  HandledIsRecorded' /\ Accounted'
  BY <1>0, <1>3 DEF DoLogin, EndSession, listVars, botVars
<1>4. ASSUME NEW r \in Requests, Handler(r) PROVE HandledIsRecorded' /\ Accounted'
  BY <1>4, CancelAccounts, SaveAccounts, EndAccounts DEF Handler
<1>5. ASSUME NEW r \in Requests,
             SendAlert(r) \/ CancelFails(r) \/ SaveFails(r) \/ AnswerFails(r)
      PROVE  HandledIsRecorded' /\ Accounted'
  BY <1>5, CancelAccounts, SaveAccounts, EndAccounts
<1> QED BY <1>1, <1>2, <1>3, <1>4, <1>5, BeginAccounts, PanelAccounts, KillAccounts DEF Next

(* Whatever is killed, fails or is lost: a cancellation or message sent is *)
(* in its list, or will be handled again, or an error on its way was       *)
(* passed over.                                                            *)
THEOREM NothingForgotten == Spec => []HandledIsRecorded
<1>1. Init => RecordInv
  <2> SUFFICES ASSUME Init PROVE RecordInv
    OBVIOUS
  <2>1. HandledIsRecorded
    BY DEF Init, HandledIsRecorded
  <2>2. Accounted
    BY SortsApart DEF Init, Accounted, At
  <2> QED BY <2>1, <2>2, InitTypes DEF RecordInv
<1>2. RecordInv => HandledIsRecorded
  BY DEF RecordInv
<1> QED BY <1>1, <1>2, NextAccounts, PTL DEF Spec

-----------------------------------------------------------------------------
(* What is beyond Cap does not reach the front when an entry is pushed.    *)
LEMMA FirstOfPushed ==
  ASSUME NEW S, NEW s \in Seq(S), NEW e \in S, NEW n \in Nat \ {0}
  PROVE  First(n, <<e>> \o s) = First(n, <<e>> \o First(n, s))
<1> DEFINE f == First(n, s)
           u == <<e>> \o s
           v == <<e>> \o f
<1>1. /\ f \in Seq(S) /\ Len(f) = IF Len(s) < n THEN Len(s) ELSE n
      /\ \A i \in 1 .. Len(f) : f[i] = s[i]
  BY FirstTypes
<1> HIDE DEF f
<1>2. /\ u \in Seq(S) /\ Len(u) = Len(s) + 1
      /\ \A i \in 1 .. Len(u) : u[i] = IF i = 1 THEN e ELSE s[i - 1]
  OBVIOUS
<1>3. /\ v \in Seq(S) /\ Len(v) = Len(f) + 1
      /\ \A i \in 1 .. Len(v) : v[i] = IF i = 1 THEN e ELSE f[i - 1]
  BY <1>1
<1> HIDE DEF u, v
<1>4. /\ First(n, u) \in Seq(S) /\ Len(First(n, u)) = IF Len(u) < n THEN Len(u) ELSE n
      /\ \A i \in 1 .. Len(First(n, u)) : First(n, u)[i] = u[i]
  BY <1>2, FirstTypes
<1>5. /\ First(n, v) \in Seq(S) /\ Len(First(n, v)) = IF Len(v) < n THEN Len(v) ELSE n
      /\ \A i \in 1 .. Len(First(n, v)) : First(n, v)[i] = v[i]
  BY <1>3, FirstTypes
<1>6. Len(s) \in Nat /\ Len(f) \in Nat
  BY <1>1, LenProperties
<1>7. Len(First(n, u)) = Len(First(n, v))
  BY <1>1, <1>2, <1>3, <1>4, <1>5, <1>6
<1>8. \A i \in 1 .. Len(First(n, u)) : First(n, u)[i] = First(n, v)[i]
  <2> SUFFICES ASSUME NEW i \in 1 .. Len(First(n, u)) PROVE u[i] = v[i]
    BY <1>4, <1>5, <1>7
  <2>1. i \in Nat /\ i >= 1 /\ i <= Len(u) /\ i <= Len(v) /\ i <= n
    BY <1>1, <1>2, <1>3, <1>4, <1>6
  <2>2. CASE i = 1
    BY <2>1, <2>2, <1>2, <1>3, <1>6
  <2>3. CASE i # 1
    <3>1. i - 1 \in 1 .. Len(f)
      BY <2>1, <2>3, <1>3, <1>6
    <3>2. u[i] = s[i - 1]
      BY <2>1, <2>3, <1>2, <1>6
    <3>3. v[i] = f[i - 1]
      BY <2>1, <2>3, <1>3, <1>6
    <3>4. f[i - 1] = s[i - 1]
      BY <3>1, <1>1
    <3> QED BY <3>2, <3>3, <3>4
  <2> QED BY <2>2, <2>3
<1>9. First(n, u) = First(n, v)
  BY <1>4, <1>5, <1>7, <1>8, SeqEqual
<1> QED BY <1>9 DEF u, v, f

LEMMA FirstOfFirst ==
  ASSUME NEW S, NEW s \in Seq(S), NEW n \in Nat
  PROVE  First(n, First(n, s)) = First(n, s)
<1> DEFINE f == First(n, s)
<1>1. f \in Seq(S) /\ Len(f) = IF Len(s) < n THEN Len(s) ELSE n
  BY FirstTypes
<1>2. Len(s) \in Nat
  BY LenProperties
<1> HIDE DEF f
<1>3. /\ First(n, f) \in Seq(S) /\ Len(First(n, f)) = IF Len(f) < n THEN Len(f) ELSE n
      /\ \A i \in 1 .. Len(First(n, f)) : First(n, f)[i] = f[i]
  BY <1>1, FirstTypes
<1>4. Len(First(n, f)) = Len(f)
  BY <1>1, <1>2, <1>3
<1>5. First(n, f) = f
  BY <1>1, <1>3, <1>4, SeqEqual
<1> QED BY <1>5 DEF f

(* The refinement mapping. *)
Newest == [k \in Keys |-> First(Cap, log[k])]

LEMMA SameFirst ==
  ASSUME NEW n, NEW s
  PROVE  Recent!First(n, s) = First(n, s)
  BY DEF Recent!First, First

LEMMA PushIsAdd ==
  ASSUME TypeInv, NEW r \in Requests, LPush(r)
  PROVE  Recent!Add(Key(r), Entry(r)) /\ Key(r) \in Keys /\ Entry(r) \in Entries
<1> DEFINE e == Entry(r)
           k == Key(r)
<1>1. /\ k \in Keys /\ e \in Entries
      /\ log \in [Keys -> Seq(Entries)]
      /\ log' = [log EXCEPT ![k] = <<e>> \o log[k]]
  BY EntryTypes DEF LPush, Pushed, TypeInv, ListTypes
<1> HIDE DEF e, k
<1>2. \A j \in Keys : log'[j] = IF j = k THEN <<e>> \o log[k] ELSE log[j]
  BY <1>1
<1>3. First(Cap, <<e>> \o log[k]) = First(Cap, <<e>> \o First(Cap, log[k]))
  BY <1>1, FirstOfPushed, CapAssumption
<1>4. Newest' = [j \in Keys |-> First(Cap, log'[j])]
  BY DEF Newest
<1>5. Newest' = [Newest EXCEPT ![k] = First(Cap, <<e>> \o Newest[k])]
  BY <1>1, <1>2, <1>3, <1>4 DEF Newest
<1>6. Recent!Add(k, e)
  BY <1>5, SameFirst DEF Recent!Add, Newest
<1> QED BY <1>1, <1>6 DEF e, k

LEMMA TrimIsHidden ==
  ASSUME TypeInv, NEW r \in Requests, LTrim(r)
  PROVE  Newest' = Newest
<1> DEFINE k == Key(r)
<1>1. log \in [Keys -> Seq(Entries)] /\ log' = [log EXCEPT ![k] = First(Cap, log[k])]
  BY DEF LTrim, TypeInv, ListTypes
<1> HIDE DEF k
<1>2. \A j \in Keys : First(Cap, First(Cap, log[j])) = First(Cap, log[j])
  BY <1>1, FirstOfFirst, CapAssumption
<1>3. \A j \in Keys : First(Cap, log'[j]) = First(Cap, log[j])
  BY <1>1, <1>2
<1>4. Newest' = [j \in Keys |-> First(Cap, log'[j])]
  BY DEF Newest
<1> QED BY <1>3, <1>4 DEF Newest

LEMMA OthersKeepLog ==
  ASSUME [Next]_vars, \A r \in Requests : ~LPush(r) /\ ~LTrim(r)
  PROVE  log' = log
<1>1. CASE UNCHANGED vars
  BY <1>1 DEF vars, listVars
<1>2. ASSUME NEW r \in Requests, Handler(r) PROVE log' = log
  BY <1>2 DEF Handler, GetVacancy, CancelApply, GetChatID, Stamp, Answer, TakeTime, MarkRead, listVars
<1>3. ASSUME NEW r \in Requests,
             SendAlert(r) \/ CancelFails(r) \/ SaveFails(r) \/ AnswerFails(r)
      PROVE  log' = log
  BY <1>3 DEF SendAlert, CancelFails, SaveFails, AnswerFails, listVars
<1>4. ASSUME NEW r \in Requests, NEW u, Send(r, u) \/ Redeliver(r, u) PROVE log' = log
  BY <1>4 DEF Send, Redeliver, Begin, listVars
<1>5. ASSUME NEW r \in Requests, NEW o, NEW u, ListNotifications(r, o) \/ SendWorkerChat(r, o, u)
      PROVE  log' = log
  BY <1>5 DEF ListNotifications, SendWorkerChat, listVars
<1>6. ASSUME NEW f, CreateForeman(f) \/ DeleteForeman(f) PROVE log' = log
  BY <1>6 DEF CreateForeman, DeleteForeman, listVars
<1>7. ASSUME NEW o, DoLogin(o) \/ EndSession(o) PROVE log' = log
  BY <1>7 DEF DoLogin, EndSession, listVars
<1>8. Kill => log' = log
  BY DEF Kill, listVars
<1> QED BY <1>1, <1>2, <1>3, <1>4, <1>5, <1>6, <1>7, <1>8 DEF Next

(* The pipelines of LPUSH and LTRIM, whose commands other requests may     *)
(* come between and which may be cut, keep the newest Cap entries, newest  *)
(* first, and nothing else ever changes what the panel may list.           *)
THEOREM KeepsTheNewest == Spec => ImplementsRecentLog
<1>1. Init => Recent!Init
  <2> SUFFICES ASSUME Init PROVE Newest = [k \in Keys |-> <<>>]
    BY DEF Recent!Init, Newest
  <2>1. First(Cap, <<>>) = <<>>
    <3> DEFINE e == <<>>
    <3>1. e \in Seq(Entries) /\ Len(e) = 0
      OBVIOUS
    <3>2. \A s \in Seq(Entries) : Len(s) = 0 => s = e
      BY EmptySeq
    <3> HIDE DEF e
    <3>3. Cap \in Nat /\ 0 < Cap
      BY CapAssumption
    <3>4. First(Cap, e) \in Seq(Entries) /\ Len(First(Cap, e)) = 0
      BY <3>1, <3>3, FirstTypes
    <3>5. First(Cap, e) = e
      BY <3>2, <3>4
    <3> QED BY <3>5 DEF e
  <2> QED BY <2>1 DEF Init, Newest
<1>2. TypeInv /\ [Next]_vars => [Recent!Next]_[k \in Keys |-> First(Cap, log[k])]
  <2> SUFFICES ASSUME TypeInv, [Next]_vars
               PROVE  Recent!Next \/ Newest' = Newest
    BY DEF Newest
  <2>1. ASSUME NEW r \in Requests, LPush(r) PROVE Recent!Next
    BY <2>1, PushIsAdd DEF Recent!Next
  <2>2. ASSUME NEW r \in Requests, LTrim(r) PROVE Newest' = Newest
    BY <2>2, TrimIsHidden
  <2>3. CASE \A r \in Requests : ~LPush(r) /\ ~LTrim(r)
    BY <2>3, OthersKeepLog DEF Newest
  <2> QED BY <2>1, <2>2, <2>3
<1>3. Spec => []TypeInv
  BY InitTypes, NextTypes, PTL DEF Spec
<1> QED BY <1>1, <1>2, <1>3, PTL DEF Spec, ImplementsRecentLog, Recent!Spec
=============================================================================
