-------------------------- MODULE JobRunnerProofs --------------------------
(***************************************************************************)
(* Proofs about JobRunner, for any jobs, any calls of Stop, any capacity   *)
(* of the queue and any number of starts.                                  *)
(***************************************************************************)
EXTENDS JobRunner, TLAPS

(* A loop exists from its Start on, and works only on jobs.                *)
LoopsStarted ==
  \A g \in Loops :
    /\ loop[g].at # "none" <=> g <= ctx
    /\ loop[g].at \in {"job", "handler"} => loop[g].job \in Jobs

(* A Stop past its first section is about a context that exists, and every *)
(* context no longer in use has such a Stop.                               *)
Begun(s) == stop[s].at \in {"cancel", "wait", "stopped", "expired"}
StopsKnown ==
  /\ running => ctx >= 1
  /\ \A s \in Stops : Begun(s) => stop[s].ctx \in 1 .. ctx
  /\ \A g \in 1 .. ctx :
       g < ctx \/ ~running => \E s \in Stops : Begun(s) /\ stop[s].ctx = g

StopInv == StopsKnown /\ StoppedLoopIsOver

-----------------------------------------------------------------------------
(* The initial state is well typed. *)
LEMMA InitTypes == Init => TypeOK /\ LoopsStarted
<1> SUFFICES ASSUME Init PROVE TypeOK /\ LoopsStarted
  OBVIOUS
<1> USE BufferAssumption, StartsAssumption
<1>1. running = FALSE /\ parentDone = FALSE /\ ctx = 0 /\ cancelled = {} /\ handlers = {}
  BY DEF Init
<1>2. running \in BOOLEAN /\ parentDone \in BOOLEAN
  BY <1>1
<1>3. /\ ctx \in 0 .. MaxStarts
      /\ cancelled \subseteq 0 .. MaxStarts /\ handlers \subseteq Jobs
  BY <1>1
<1>4. queue \in Seq(Jobs) /\ Len(queue) <= Buffer
  <2>1. queue = <<>>
    BY DEF Init
  <2> QED
    BY <2>1
<1>5. /\ loop \in [Loops -> [at : {"none", "top", "select", "job", "handler", "done"},
                            on : 0 .. MaxStarts, job : Jobs \cup {NoJob}]]
      /\ LoopsStarted
  BY DEF Init, Loop, Loops, LoopsStarted
<1>6. /\ stop \in [Stops -> [at : {"new", "nothing", "cancel", "wait", "stopped", "expired"},
                            ctx : 0 .. MaxStarts]]
      /\ fate \in [Jobs -> {"new", "refused", "sending", "expired",
                           "waiting", "taken", "handled", "dropped"}]
  BY DEF Init
<1> QED
  BY <1>2, <1>3, <1>4, <1>5, <1>6 DEF TypeOK

(* Every step keeps the types, whoever takes it. *)
LEMMA NextTypes == TypeOK /\ LoopsStarted /\ [Next]_vars => TypeOK' /\ LoopsStarted'
<1> SUFFICES ASSUME TypeOK, LoopsStarted, [Next]_vars PROVE TypeOK' /\ LoopsStarted'
  OBVIOUS
<1> USE BufferAssumption, StartsAssumption DEF TypeOK, LoopsStarted, Loops, Loop
<1>1. CASE Start
  BY <1>1 DEF Start
<1>2. CASE ParentDone
  BY <1>2 DEF ParentDone
<1>3. ASSUME NEW j \in Jobs,
             RegisterHandler(j) \/ SubmitCheck(j) \/ SubmitSend(j) \/ SubmitExpires(j)
      PROVE  TypeOK' /\ LoopsStarted'
  <2>1. CASE RegisterHandler(j)
    BY <2>1 DEF RegisterHandler
  <2>2. CASE SubmitCheck(j)
    BY <2>2 DEF SubmitCheck
  <2>3. CASE SubmitSend(j)
    BY <2>3 DEF SubmitSend, HasRoom
  <2>4. CASE SubmitExpires(j)
    BY <2>4 DEF SubmitExpires
  <2> QED
    BY <1>3, <2>1, <2>2, <2>3, <2>4
<1>4. ASSUME NEW s \in Stops, StopBegin(s) \/ StopCancel(s) \/ StopReturns(s) \/ StopExpires(s)
      PROVE  TypeOK' /\ LoopsStarted'
  <2>1. CASE StopBegin(s)
    <3>1. stop' \in [Stops -> [at : {"new", "nothing", "cancel", "wait", "stopped", "expired"},
                              ctx : 0 .. MaxStarts]]
      BY <2>1 DEF StopBegin
    <3> QED
      BY <2>1, <3>1 DEF StopBegin
  <2>2. CASE StopCancel(s)
    BY <2>2 DEF StopCancel
  <2>3. CASE StopReturns(s)
    BY <2>3 DEF StopReturns
  <2>4. CASE StopExpires(s)
    BY <2>4 DEF StopExpires
  <2> QED
    BY <1>4, <2>1, <2>2, <2>3, <2>4
<1>5. ASSUME NEW g \in Loops, LoopStep(g)
      PROVE  TypeOK' /\ LoopsStarted'
  <2>1. CASE LoopTop(g)
    BY <2>1 DEF LoopTop
  <2>2. CASE LoopExit(g)
    BY <2>2 DEF LoopExit
  <2>3. CASE LoopTake(g)
    <3>1. Head(queue) \in Jobs /\ queue' \in Seq(Jobs) /\ Len(queue') <= Buffer
      BY <2>3 DEF LoopTake
    <3> QED
      BY <2>3, <3>1 DEF LoopTake
  <2>4. CASE HandleJob(g)
    <3>1. fate' \in [Jobs -> {"new", "refused", "sending", "expired",
                             "waiting", "taken", "handled", "dropped"}]
      BY <2>4 DEF HandleJob
    <3>2. /\ loop' \in [Loops -> [at : {"none", "top", "select", "job", "handler", "done"},
                                 on : 0 .. MaxStarts, job : Jobs \cup {NoJob}]]
          /\ LoopsStarted'
      <4>1. CASE loop' = [loop EXCEPT ![g].at = "handler"]
        <5>1. loop[g].at = "job" /\ loop[g].job \in Jobs /\ ctx' = ctx
          BY <2>4 DEF HandleJob
        <5>2. loop'[g] = [loop[g] EXCEPT !.at = "handler"]
          BY <4>1
        <5>3. \A h \in Loops \ {g} : loop'[h] = loop[h]
          BY <4>1
        <5>4. loop'[g].at = "handler" /\ loop'[g].job = loop[g].job
          BY <5>1, <5>2
        <5>5. g =< ctx
          BY ONLY <5>1, LoopsStarted, g \in Loops DEF LoopsStarted
        <5>6. ASSUME NEW h \in Loops
              PROVE  /\ loop'[h].at # "none" <=> h =< ctx'
                     /\ loop'[h].at \in {"job", "handler"} => loop'[h].job \in Jobs
          <6>1. CASE h = g
            BY ONLY <6>1, <5>1, <5>4, <5>5
          <6>2. CASE h # g
            BY ONLY <6>2, <5>1, <5>3, <5>6, LoopsStarted DEF LoopsStarted
          <6> QED
            BY <6>1, <6>2
        <5>7. LoopsStarted'
          BY ONLY <5>6 DEF LoopsStarted
        <5> QED
          BY <4>1, <5>7
      <4>2. CASE loop' = [loop EXCEPT ![g] = Loop("top", 0, NoJob)]
        BY <2>4, <4>2 DEF HandleJob
      <4> QED
        BY <2>4, <4>1, <4>2 DEF HandleJob
    <3> QED
      BY <2>4, <3>1, <3>2 DEF HandleJob
  <2>5. CASE HandlerReturns(g)
    BY <2>5 DEF HandlerReturns
  <2> QED
    BY <1>5, <2>1, <2>2, <2>3, <2>4, <2>5 DEF LoopStep
<1>6. CASE UNCHANGED vars
  BY <1>6 DEF vars
<1> QED
  BY <1>1, <1>2, <1>3, <1>4, <1>5, <1>6 DEF Next

(* Type correctness of the runner: in particular the queue never holds     *)
(* more than its capacity.                                                 *)
THEOREM RunnerTypes == Spec => []TypeOK
<1>1. Spec => [](TypeOK /\ LoopsStarted)
  BY InitTypes, NextTypes, PTL DEF Spec
<1> QED
  BY <1>1, PTL

-----------------------------------------------------------------------------
(* No step of a loop brings an ended loop back or ends a Stop.             *)
LEMMA LoopStepLocal ==
  ASSUME NEW g \in Loops, TypeOK, LoopStep(g)
  PROVE  /\ UNCHANGED <<running, ctx, stop, cancelled>>
         /\ loop[g].at \notin {"none", "done"}
         /\ loop'[g].at # "none"
         /\ \A h \in Loops \ {g} : loop'[h] = loop[h]
<1> USE DEF TypeOK
<1>1. CASE LoopTop(g)
  BY <1>1 DEF LoopTop, Loop
<1>2. CASE LoopExit(g)
  BY <1>2 DEF LoopExit, Loop
<1>3. CASE LoopTake(g)
  BY <1>3 DEF LoopTake, Loop
<1>4. CASE HandleJob(g)
  BY <1>4 DEF HandleJob, Loop
<1>5. CASE HandlerReturns(g)
  BY <1>5 DEF HandlerReturns, Loop
<1> QED
  BY <1>1, <1>2, <1>3, <1>4, <1>5 DEF LoopStep

(* Submitting and registering touch neither loops nor stops. *)
LEMMA CallsLocal ==
  ASSUME NEW j \in Jobs,
         RegisterHandler(j) \/ SubmitCheck(j) \/ SubmitSend(j) \/ SubmitExpires(j)
  PROVE  UNCHANGED <<running, ctx, cancelled, loop, stop>>
BY DEF RegisterHandler, SubmitCheck, SubmitSend, SubmitExpires

(* What every Stop has waited for, step by step. *)
LEMMA NextStops ==
  ASSUME TypeOK, LoopsStarted, StopInv, [Next]_vars
  PROVE  StopInv'
<1> USE StartsAssumption DEF TypeOK, LoopsStarted, StopInv, StopsKnown, StoppedLoopIsOver, Begun, Loops
<1>1. CASE Start
  BY <1>1 DEF Start
<1>2. CASE ParentDone
  BY <1>2 DEF ParentDone
<1>3. ASSUME NEW j \in Jobs,
             RegisterHandler(j) \/ SubmitCheck(j) \/ SubmitSend(j) \/ SubmitExpires(j)
      PROVE  StopInv'
  BY <1>3, CallsLocal
<1>4. ASSUME NEW s \in Stops, StopBegin(s)
      PROVE  StopInv'
  <2>1. CASE running
    <3>1. /\ ~running' /\ ctx' = ctx /\ loop' = loop
          /\ stop[s].at = "new"
          /\ stop'[s] = [at |-> "cancel", ctx |-> ctx]
          /\ \A t \in Stops \ {s} : stop'[t] = stop[t]
      BY <1>4, <2>1 DEF StopBegin
    <3>2. ASSUME NEW t \in Stops, stop'[t].at = "stopped"
          PROVE  loop'[stop'[t].ctx].at = "done"
      <4>1. t # s /\ stop'[t] = stop[t]
        BY <3>1, <3>2
      <4> QED
        BY <3>1, <3>2, <4>1
    <3>3. ASSUME NEW t \in Stops, Begun(t)'
          PROVE  stop'[t].ctx \in 1 .. ctx
      <4>1. CASE t = s
        <5>1. ctx \in Nat /\ ctx >= 1
          BY <2>1
        <5> QED
          BY <3>1, <4>1, <5>1
      <4>2. CASE t # s
        <5>1. Begun(t) /\ stop'[t] = stop[t]
          BY <3>1, <3>3, <4>2
        <5> QED
          BY <5>1
      <4> QED
        BY <4>1, <4>2
    <3>4. ASSUME NEW h \in 1 .. ctx
          PROVE  \E t \in Stops : Begun(t)' /\ stop'[t].ctx = h
      <4>1. CASE h = ctx
        BY <3>1, <4>1
      <4>2. CASE h < ctx
        <5>1. PICK t \in Stops : Begun(t) /\ stop[t].ctx = h
          BY <4>2
        <5> QED
          BY <3>1, <5>1
      <4> QED
        BY <4>1, <4>2
    <3> QED
      BY <3>1, <3>2, <3>3, <3>4
  <2>2. CASE ~running
    <3>1. /\ ~running' /\ ctx' = ctx /\ loop' = loop
          /\ stop[s].at = "new" /\ stop'[s].at = "nothing"
          /\ \A t \in Stops \ {s} : stop'[t] = stop[t]
      BY <1>4, <2>2 DEF StopBegin
    <3>2. ASSUME NEW t \in Stops, stop'[t].at = "stopped"
          PROVE  loop'[stop'[t].ctx].at = "done"
      <4>1. t # s /\ stop'[t] = stop[t]
        BY <3>1, <3>2
      <4> QED
        BY <3>1, <3>2, <4>1
    <3>3. ASSUME NEW t \in Stops, Begun(t)'
          PROVE  stop'[t].ctx \in 1 .. ctx
      <4>1. Begun(t) /\ stop'[t] = stop[t]
        BY <3>1, <3>3
      <4> QED
        BY <4>1
    <3>4. ASSUME NEW h \in 1 .. ctx
          PROVE  \E t \in Stops : Begun(t)' /\ stop'[t].ctx = h
      <4>1. PICK t \in Stops : Begun(t) /\ stop[t].ctx = h
        BY <2>2
      <4> QED
        BY <3>1, <4>1
    <3> QED
      BY <3>1, <3>2, <3>3, <3>4
  <2> QED
    BY <2>1, <2>2
<1>5. ASSUME NEW s \in Stops, StopCancel(s)
      PROVE  StopInv'
  BY <1>5 DEF StopCancel
<1>6. ASSUME NEW s \in Stops, StopReturns(s)
      PROVE  StopInv'
  BY <1>6 DEF StopReturns, AllOver, Alive
<1>7. ASSUME NEW s \in Stops, StopExpires(s)
      PROVE  StopInv'
  BY <1>7 DEF StopExpires
<1>8. ASSUME NEW g \in Loops, LoopStep(g)
      PROVE  StopInv'
  <2>1. /\ UNCHANGED <<running, ctx, stop>>
        /\ loop[g].at # "done"
        /\ \A h \in Loops \ {g} : loop'[h] = loop[h]
    BY ONLY <1>8, LoopStepLocal, TypeOK
  <2>2. \A h \in Loops : loop[h].at = "done" => loop'[h].at = "done"
    BY ONLY <2>1
  <2>3. StopsKnown'
    BY ONLY <2>1, StopInv DEF StopInv, StopsKnown, Begun
  <2>4. StoppedLoopIsOver'
    BY ONLY <2>1, <2>2, TypeOK, StopInv, StopsKnown, StartsAssumption
    DEF StopInv, StoppedLoopIsOver, StopsKnown, Begun, TypeOK, Loops
  <2> QED
    BY <2>3, <2>4
<1>9. CASE UNCHANGED vars
  BY <1>9 DEF vars
<1> QED
  BY <1>1, <1>2, <1>3, <1>4, <1>5, <1>6, <1>7, <1>8, <1>9 DEF Next

(* At first no Stop was called and no context exists. *)
LEMMA InitStops == Init => StopInv
BY DEF Init, StopInv, StopsKnown, StoppedLoopIsOver, Begun

(* The inductive invariant of starting and stopping. *)
LEMMA RunnerInvariant == Spec => [](TypeOK /\ LoopsStarted /\ StopInv)
BY InitTypes, NextTypes, InitStops, NextStops, PTL DEF Spec

(* A Stop that returned after waiting: the loop it cancelled is over for   *)
(* good, whatever was started and stopped since.                           *)
THEOREM StopWaitsForItsLoop == Spec => []StoppedLoopIsOver
BY RunnerInvariant, PTL DEF StopInv

(* Two loops at work at once: the older one's Stop has not returned, or    *)
(* has given up at its deadline.                                           *)
THEOREM OverlapOnlyUnderOpenStop == Spec => []OverlapNeedsOpenStop
<1>1. TypeOK /\ LoopsStarted /\ StopInv => OverlapNeedsOpenStop
  <2> SUFFICES ASSUME TypeOK, LoopsStarted, StopInv,
                      NEW g \in Loops, NEW h \in Loops, Alive(g), Alive(h), g < h
               PROVE  \E s \in Stops :
                        stop[s].ctx = g /\ stop[s].at \in {"cancel", "wait", "expired"}
    BY DEF OverlapNeedsOpenStop
  <2>1. h <= ctx
    BY DEF LoopsStarted, Alive
  <2>2. g \in 1 .. ctx /\ g < ctx
    BY <2>1, StartsAssumption DEF TypeOK, Loops
  <2>3. PICK s \in Stops : Begun(s) /\ stop[s].ctx = g
    BY <2>2 DEF StopInv, StopsKnown
  <2>4. stop[s].at # "stopped"
    BY <2>3 DEF StopInv, StoppedLoopIsOver, Alive
  <2> QED
    BY <2>3, <2>4 DEF Begun
<1> QED
  BY <1>1, RunnerInvariant, PTL

-----------------------------------------------------------------------------
(* Taking the head of a queue without duplicates leaves the other jobs in  *)
(* it, each once.                                                          *)
LEMMA TailWithoutHead ==
  ASSUME NEW S, NEW q \in Seq(S), q # <<>>,
         \A i, k \in DOMAIN q : q[i] = q[k] => i = k,
         NEW j
  PROVE  /\ (\E i \in DOMAIN Tail(q) : Tail(q)[i] = j) <=> j # Head(q) /\ \E i \in DOMAIN q : q[i] = j
         /\ \A i, k \in DOMAIN Tail(q) : Tail(q)[i] = Tail(q)[k] => i = k
<1>1. Len(q) \in Nat /\ Len(q) >= 1 /\ DOMAIN q = 1 .. Len(q) /\ Head(q) = q[1]
  OBVIOUS
<1>2. /\ DOMAIN Tail(q) = 1 .. Len(q) - 1
      /\ \A i \in 1 .. Len(q) - 1 : Tail(q)[i] = q[i + 1]
  OBVIOUS
<1>3. ASSUME NEW i \in DOMAIN q, q[i] = j, j # Head(q)
      PROVE  \E k \in DOMAIN Tail(q) : Tail(q)[k] = j
  <2>1. i - 1 \in 1 .. Len(q) - 1 /\ Tail(q)[i - 1] = q[i]
    BY <1>1, <1>2, <1>3
  <2> QED
    BY <1>2, <1>3, <2>1
<1>4. ASSUME NEW k \in DOMAIN Tail(q), Tail(q)[k] = j
      PROVE  j # Head(q) /\ \E i \in DOMAIN q : q[i] = j
  <2>1. k + 1 \in 1 .. Len(q) /\ k + 1 # 1 /\ q[k + 1] = j
    BY <1>1, <1>2, <1>4
  <2> QED
    BY <1>1, <2>1
<1>5. ASSUME NEW i \in DOMAIN Tail(q), NEW k \in DOMAIN Tail(q), Tail(q)[i] = Tail(q)[k]
      PROVE  i = k
  <2>1. i + 1 \in DOMAIN q /\ k + 1 \in DOMAIN q /\ q[i + 1] = q[k + 1]
    BY <1>1, <1>2, <1>5
  <2>2. i + 1 = k + 1
    BY <2>1
  <2> QED
    BY <1>2, <2>2
<1> QED
  BY <1>3, <1>4, <1>5

(* OnePlace in two parts: the queue, and the loops. *)
InQueue(j) == \E i \in DOMAIN queue : queue[i] = j
Queued ==
  /\ \A j \in Jobs : fate[j] = "waiting" <=> InQueue(j)
  /\ \A i, k \in DOMAIN queue : queue[i] = queue[k] => i = k
Held ==
  \A j \in Jobs :
    /\ fate[j] = "taken" <=> \E g \in Loops : Holds(g, j)
    /\ \A g, h \in Loops : Holds(g, j) /\ Holds(h, j) => g = h

(* OnePlace is about the queue and about the hands of the loops. *)
LEMMA PlacesAreTwo == ASSUME TypeOK PROVE OnePlace <=> Queued /\ Held
<1>1. \A i \in DOMAIN queue : queue[i] \in Jobs
  BY DEF TypeOK
<1> QED
  BY <1>1 DEF OnePlace, Queued, Held, InQueue

(* At first no job waits and no loop holds one. *)
LEMMA InitPlaces == Init => Queued /\ Held
<1> SUFFICES ASSUME Init PROVE Queued /\ Held
  OBVIOUS
<1>1. DOMAIN queue = {}
  BY DEF Init
<1> QED
  BY <1>1 DEF Init, Queued, Held, InQueue, Holds, Loop

(* The queue, step by step. *)
LEMMA NextQueued ==
  ASSUME TypeOK, LoopsStarted, Queued, Held, [Next]_vars
  PROVE  Queued'
<1>1. ASSUME UNCHANGED queue,
             \A j \in Jobs : fate'[j] = "waiting" <=> fate[j] = "waiting"
      PROVE  Queued'
  BY <1>1 DEF Queued, InQueue
<1>2. ASSUME NEW j \in Jobs, SubmitSend(j)
      PROVE  Queued'
  <2>1. /\ fate[j] = "sending" /\ queue' = Append(queue, j)
        /\ fate' = [fate EXCEPT ![j] = "waiting"]
    BY <1>2 DEF SubmitSend
  <2>2. ~InQueue(j)
    BY <2>1 DEF Queued
  <2>3. /\ DOMAIN queue = 1 .. Len(queue) /\ Len(queue) \in Nat
        /\ DOMAIN queue' = 1 .. Len(queue) + 1
        /\ queue'[Len(queue) + 1] = j
        /\ \A i \in DOMAIN queue : queue'[i] = queue[i]
    BY <2>1 DEF TypeOK
  <2>4. \A k \in Jobs : fate'[k] = "waiting" <=> k = j \/ fate[k] = "waiting"
    BY <2>1 DEF TypeOK
  <2>5. \A k : (\E i \in DOMAIN queue' : queue'[i] = k) <=> k = j \/ InQueue(k)
    BY <2>3 DEF InQueue
  <2>6. \A i, k \in DOMAIN queue' : queue'[i] = queue'[k] => i = k
    BY <2>2, <2>3 DEF InQueue, Queued
  <2> QED
    BY <2>4, <2>5, <2>6 DEF Queued, InQueue
<1>3. ASSUME NEW g \in Loops, LoopTake(g)
      PROVE  Queued'
  <2>1. /\ queue # <<>> /\ queue' = Tail(queue) /\ queue \in Seq(Jobs)
        /\ fate' = [fate EXCEPT ![Head(queue)] = "taken"]
    BY <1>3 DEF LoopTake, TypeOK
  <2>2. \A k \in Jobs : fate'[k] = "waiting" <=> k # Head(queue) /\ fate[k] = "waiting"
    BY <2>1 DEF TypeOK
  <2>3. /\ \A k \in Jobs : (\E i \in DOMAIN queue' : queue'[i] = k) <=> k # Head(queue) /\ InQueue(k)
        /\ \A i, k \in DOMAIN queue' : queue'[i] = queue'[k] => i = k
    <3>1. \A i, k \in DOMAIN queue : queue[i] = queue[k] => i = k
      BY DEF Queued
    <3>2. ASSUME NEW k \in Jobs
          PROVE  /\ (\E i \in DOMAIN Tail(queue) : Tail(queue)[i] = k)
                    <=> k # Head(queue) /\ (\E i \in DOMAIN queue : queue[i] = k)
                 /\ \A i, l \in DOMAIN Tail(queue) : Tail(queue)[i] = Tail(queue)[l] => i = l
      BY ONLY <2>1, <3>1, TailWithoutHead
    <3>3. Head(queue) \in Jobs
      BY <2>1
    <3> QED
      BY <2>1, <3>2, <3>3 DEF InQueue
  <2> QED
    BY <2>2, <2>3 DEF Queued, InQueue
<1>4. ASSUME NEW j \in Jobs, RegisterHandler(j) \/ SubmitCheck(j) \/ SubmitExpires(j)
      PROVE  Queued'
  BY <1>1, <1>4 DEF RegisterHandler, SubmitCheck, SubmitExpires, TypeOK
<1>5. ASSUME NEW s \in Stops, StopBegin(s) \/ StopCancel(s) \/ StopReturns(s) \/ StopExpires(s)
      PROVE  Queued'
  BY <1>1, <1>5 DEF StopBegin, StopCancel, StopReturns, StopExpires
<1>6. ASSUME NEW g \in Loops, LoopTop(g) \/ LoopExit(g)
      PROVE  Queued'
  BY <1>1, <1>6 DEF LoopTop, LoopExit
<1>7. ASSUME NEW g \in Loops, HandleJob(g) \/ HandlerReturns(g)
      PROVE  Queued'
  <2>1. loop[g].job \in Jobs /\ Holds(g, loop[g].job)
    BY <1>7 DEF HandleJob, HandlerReturns, Holds, LoopsStarted
  <2>2. fate[loop[g].job] = "taken"
    BY <2>1 DEF Held
  <2>3. \A k \in Jobs : fate'[k] = "waiting" <=> fate[k] = "waiting"
    <3>1. \/ fate' = fate
          \/ fate' = [fate EXCEPT ![loop[g].job] = "dropped"]
          \/ fate' = [fate EXCEPT ![loop[g].job] = "handled"]
      BY <1>7 DEF HandleJob, HandlerReturns
    <3> QED
      BY <2>1, <2>2, <3>1 DEF TypeOK
  <2> QED
    BY <1>1, <1>7, <2>3 DEF HandleJob, HandlerReturns
<1>8. CASE Start \/ ParentDone \/ UNCHANGED vars
  BY <1>1, <1>8 DEF Start, ParentDone, vars
<1> QED
  BY <1>2, <1>3, <1>4, <1>5, <1>6, <1>7, <1>8 DEF Next, LoopStep

(* A loop's hands, step by step: only LoopTake fills them, and only with a *)
(* job that nobody holds.                                                  *)
LEMMA NextHeld ==
  ASSUME TypeOK, LoopsStarted, Queued, Held, [Next]_vars
  PROVE  Held'
<1>1. ASSUME \A j \in Jobs : fate'[j] = "taken" <=> fate[j] = "taken",
             \A g \in Loops, j \in Jobs : Holds(g, j)' <=> Holds(g, j)
      PROVE  Held'
  BY <1>1 DEF Held
<1>2. ASSUME NEW g \in Loops, LoopTake(g)
      PROVE  Held'
  <2>1. /\ Head(queue) \in Jobs /\ loop[g].at = "select"
        /\ fate' = [fate EXCEPT ![Head(queue)] = "taken"]
        /\ loop' = [loop EXCEPT ![g] = Loop("job", 0, Head(queue))]
    BY <1>2 DEF LoopTake, TypeOK
  <2>2. fate[Head(queue)] = "waiting"
    <3>1. 1 \in DOMAIN queue /\ queue[1] = Head(queue)
      BY <1>2 DEF LoopTake, TypeOK
    <3> QED
      BY <2>1, <3>1 DEF Queued, InQueue
  <2>3. \A h \in Loops : ~Holds(h, Head(queue))
    BY <2>1, <2>2 DEF Held
  <2>4. \A h \in Loops, j \in Jobs :
          Holds(h, j)' <=> Holds(h, j) \/ (h = g /\ j = Head(queue))
    BY <2>1 DEF Holds, Loop, TypeOK
  <2>5. \A j \in Jobs : fate'[j] = "taken" <=> fate[j] = "taken" \/ j = Head(queue)
    BY <2>1 DEF TypeOK
  <2> QED
    BY <2>1, <2>3, <2>4, <2>5 DEF Held
<1>3. ASSUME NEW g \in Loops, HandleJob(g) \/ HandlerReturns(g)
      PROVE  Held'
  <2>1. loop[g].job \in Jobs /\ Holds(g, loop[g].job)
    BY <1>3 DEF HandleJob, HandlerReturns, Holds, LoopsStarted
  <2>2. \A h \in Loops : Holds(h, loop[g].job) => h = g
    BY <2>1 DEF Held
  <2>3. CASE fate' = fate /\ loop' = [loop EXCEPT ![g].at = "handler"]
    <3>1. loop[g].at \in {"job", "handler"}
      BY <2>1 DEF Holds
    <3>2. /\ loop'[g].at = "handler" /\ loop'[g].job = loop[g].job
          /\ \A h \in Loops \ {g} : loop'[h] = loop[h]
      BY <2>3 DEF TypeOK
    <3>3. \A h \in Loops, j \in Jobs : Holds(h, j)' <=> Holds(h, j)
      BY <3>1, <3>2 DEF Holds
    <3> QED
      BY <1>1, <2>3, <3>3
  <2>4. CASE /\ loop' = [loop EXCEPT ![g] = Loop("top", 0, NoJob)]
             /\ \/ fate' = [fate EXCEPT ![loop[g].job] = "dropped"]
                \/ fate' = [fate EXCEPT ![loop[g].job] = "handled"]
    <3>1. \A h \in Loops, j \in Jobs : Holds(h, j)' <=> Holds(h, j) /\ h # g
      BY <2>4 DEF Holds, Loop, TypeOK
    <3>2. \A j \in Jobs : fate'[j] = "taken" <=> fate[j] = "taken" /\ j # loop[g].job
      BY <2>1, <2>4 DEF TypeOK
    <3>3. \A j \in Jobs : j # loop[g].job => ~Holds(g, j)
      BY DEF Holds
    <3> QED
      BY <2>1, <2>2, <3>1, <3>2, <3>3 DEF Held
  <2> QED
    BY <1>3, <2>3, <2>4 DEF HandleJob, HandlerReturns
<1>4. ASSUME NEW j \in Jobs,
             RegisterHandler(j) \/ SubmitCheck(j) \/ SubmitSend(j) \/ SubmitExpires(j)
      PROVE  Held'
  <2>1. loop' = loop
    BY <1>4 DEF RegisterHandler, SubmitCheck, SubmitSend, SubmitExpires
  <2>2. \A k \in Jobs : fate'[k] = "taken" <=> fate[k] = "taken"
    BY <1>4 DEF RegisterHandler, SubmitCheck, SubmitSend, SubmitExpires, TypeOK
  <2> QED
    BY <1>1, <2>1, <2>2 DEF Holds
<1>5. ASSUME NEW s \in Stops, StopBegin(s) \/ StopCancel(s) \/ StopReturns(s) \/ StopExpires(s)
      PROVE  Held'
  BY <1>1, <1>5 DEF StopBegin, StopCancel, StopReturns, StopExpires, Holds
<1>6. ASSUME NEW g \in Loops, LoopTop(g) \/ LoopExit(g)
      PROVE  Held'
  <2>1. /\ fate' = fate
        /\ loop[g].at \notin {"job", "handler"} /\ loop'[g].at \notin {"job", "handler"}
        /\ \A h \in Loops \ {g} : loop'[h] = loop[h]
    BY <1>6 DEF LoopTop, LoopExit, Loop, TypeOK
  <2>2. \A h \in Loops, j \in Jobs : Holds(h, j)' <=> Holds(h, j)
    BY <2>1 DEF Holds
  <2> QED
    BY <1>1, <2>1, <2>2
<1>7. CASE Start
  <2>1. ctx + 1 \in Loops /\ loop[ctx + 1].at = "none"
    BY <1>7, StartsAssumption DEF Start, TypeOK, Loops, LoopsStarted
  <2>2. /\ fate' = fate /\ loop'[ctx + 1].at = "top"
        /\ \A h \in Loops \ {ctx + 1} : loop'[h] = loop[h]
    BY <1>7, <2>1 DEF Start, Loop, TypeOK
  <2>3. \A h \in Loops, j \in Jobs : Holds(h, j)' <=> Holds(h, j)
    BY <2>1, <2>2 DEF Holds
  <2> QED
    BY <1>1, <2>2, <2>3
<1>8. CASE ParentDone \/ UNCHANGED vars
  BY <1>1, <1>8 DEF ParentDone, vars, Holds
<1> QED
  BY <1>2, <1>3, <1>4, <1>5, <1>6, <1>7, <1>8 DEF Next, LoopStep

(* The inductive invariant of the jobs' places. *)
LEMMA PlacesInvariant == Spec => [](TypeOK /\ LoopsStarted /\ Queued /\ Held)
BY InitTypes, NextTypes, InitPlaces, NextQueued, NextHeld, PTL DEF Spec

(* An accepted job is once in the queue or with one loop until it is       *)
(* handled or dropped: cancellation and restart neither lose nor double it.*)
THEOREM JobsInOnePlace == Spec => []OnePlace
BY PlacesInvariant, PlacesAreTwo, PTL

-----------------------------------------------------------------------------
(* What a submitter sees of the jobs, and how a write to fate shows there. *)
Seen == [j \in Jobs |-> Status(fate[j])]

(* A job being sent is new to the submitter, an expired one refused. *)
LEMMA StatusCases ==
  /\ Status("new") = "new" /\ Status("sending") = "new"
  /\ Status("refused") = "refused" /\ Status("expired") = "refused"
  /\ Status("waiting") = "waiting" /\ Status("taken") = "taken"
  /\ Status("handled") = "handled" /\ Status("dropped") = "dropped"
BY DEF Status

(* A write to fate shows as one write to what is seen. *)
LEMMA SeenAfter ==
  ASSUME TypeOK, NEW j \in Jobs, NEW f, fate' = [fate EXCEPT ![j] = f]
  PROVE  Seen' = [Seen EXCEPT ![j] = Status(f)]
<1>1. \A k \in Jobs : fate'[k] = IF k = j THEN f ELSE fate[k]
  BY DEF TypeOK
<1>2. \A k \in Jobs : Seen'[k] = IF k = j THEN Status(f) ELSE Seen[k]
  BY <1>1 DEF Seen
<1> QED
  BY <1>2 DEF Seen

(* Every step of the runner is a step of the service or invisible to it.   *)
LEMMA NextServes ==
  ASSUME TypeOK, LoopsStarted, Queued, Held, [Next]_vars
  PROVE  [Service!Next]_Service!vars
<1> DEFINE Same == UNCHANGED <<Seen, queue>>
<1>1. Same => UNCHANGED Service!vars
  BY DEF Service!vars, Seen
<1>2. ASSUME NEW j \in Jobs, SubmitCheck(j)
      PROVE  Same \/ Service!Refuse(j)
  <2>1. fate[j] = "new" /\ queue' = queue /\ Seen[j] = "new"
    BY <1>2, StatusCases DEF SubmitCheck, Seen
  <2>2. CASE fate' = [fate EXCEPT ![j] = "sending"]
    <3>1. Seen' = [Seen EXCEPT ![j] = "new"]
      BY <2>2, SeenAfter, StatusCases
    <3> QED
      BY <2>1, <3>1 DEF Seen
  <2>3. CASE fate' = [fate EXCEPT ![j] = "refused"]
    <3>1. Seen' = [Seen EXCEPT ![j] = "refused"]
      BY <2>3, SeenAfter, StatusCases
    <3> QED
      BY <2>1, <3>1 DEF Seen, Service!Refuse
  <2> QED
    BY <1>2, <2>2, <2>3 DEF SubmitCheck
<1>3. ASSUME NEW j \in Jobs, SubmitExpires(j)
      PROVE  Service!Refuse(j)
  <2>1. queue' = queue /\ Seen[j] = "new"
    BY <1>3, StatusCases DEF SubmitExpires, Seen
  <2>2. Seen' = [Seen EXCEPT ![j] = "refused"]
    <3>1. fate' = [fate EXCEPT ![j] = "expired"]
      BY <1>3 DEF SubmitExpires
    <3> QED
      BY <3>1, SeenAfter, StatusCases
  <2> QED
    BY <2>1, <2>2 DEF Seen, Service!Refuse
<1>4. ASSUME NEW j \in Jobs, SubmitSend(j)
      PROVE  Service!Accept(j)
  <2>1. Len(queue) < Buffer /\ queue' = Append(queue, j) /\ Seen[j] = "new"
    BY <1>4, StatusCases DEF SubmitSend, HasRoom, Seen
  <2>2. Seen' = [Seen EXCEPT ![j] = "waiting"]
    <3>1. fate' = [fate EXCEPT ![j] = "waiting"]
      BY <1>4 DEF SubmitSend
    <3> QED
      BY <3>1, SeenAfter, StatusCases
  <2> QED
    BY <2>1, <2>2 DEF Seen, Service!Accept
<1>5. ASSUME NEW g \in Loops, LoopTake(g)
      PROVE  Service!Take
  <2>1. /\ queue # <<>> /\ queue' = Tail(queue) /\ Head(queue) \in Jobs
        /\ 1 \in DOMAIN queue /\ queue[1] = Head(queue)
        /\ fate' = [fate EXCEPT ![Head(queue)] = "taken"]
    BY <1>5 DEF LoopTake, TypeOK
  <2>2. Seen[Head(queue)] = "waiting"
    BY <2>1, StatusCases DEF Queued, InQueue, Seen
  <2>3. Seen' = [Seen EXCEPT ![Head(queue)] = "taken"]
    BY <2>1, SeenAfter, StatusCases
  <2> QED
    BY <2>1, <2>2, <2>3 DEF Seen, Service!Take
<1>6. ASSUME NEW g \in Loops, HandleJob(g) \/ HandlerReturns(g)
      PROVE  Same \/ Service!Settle(loop[g].job)
  <2> DEFINE j == loop[g].job
  <2>1. j \in Jobs /\ Holds(g, j) /\ queue' = queue
    BY <1>6 DEF HandleJob, HandlerReturns, Holds, LoopsStarted
  <2>2. Seen[j] = "taken"
    BY <2>1, StatusCases DEF Held, Seen
  <2>3. CASE fate' = fate
    BY <2>1, <2>3 DEF Seen
  <2>4. ASSUME NEW end \in {"handled", "dropped"}, fate' = [fate EXCEPT ![j] = end]
        PROVE  Service!Settle(j)
    <3>1. Status(end) = end
      BY StatusCases
    <3>2. Seen' = [Seen EXCEPT ![j] = end]
      BY <2>1, <2>4, <3>1, SeenAfter
    <3> QED
      BY <2>1, <2>2, <3>2 DEF Seen, Service!Settle
  <2> QED
    BY <1>6, <2>3, <2>4 DEF HandleJob, HandlerReturns
<1>7. ASSUME fate' = fate, queue' = queue
      PROVE  Same
  BY <1>7 DEF Seen
<1>8. ASSUME NEW j \in Jobs, RegisterHandler(j)
      PROVE  Same
  BY <1>7, <1>8 DEF RegisterHandler
<1>9. ASSUME NEW s \in Stops, StopBegin(s) \/ StopCancel(s) \/ StopReturns(s) \/ StopExpires(s)
      PROVE  Same
  BY <1>7, <1>9 DEF StopBegin, StopCancel, StopReturns, StopExpires
<1>10. ASSUME NEW g \in Loops, LoopTop(g) \/ LoopExit(g)
       PROVE  Same
  BY <1>7, <1>10 DEF LoopTop, LoopExit
<1>11. ASSUME Start \/ ParentDone \/ UNCHANGED vars
       PROVE  Same
  BY <1>7, <1>11 DEF Start, ParentDone, vars
<1>12. ASSUME NEW g \in Loops, HandleJob(g) \/ HandlerReturns(g)
       PROVE  loop[g].job \in Jobs
  BY <1>12 DEF HandleJob, HandlerReturns, LoopsStarted
<1> HIDE DEF Same
<1> QED
  BY <1>1, <1>2, <1>3, <1>4, <1>5, <1>6, <1>8, <1>9, <1>10, <1>11, <1>12
  DEF Next, LoopStep, Service!Next

(* Whoever submits jobs sees a JobService, however the runner is started,  *)
(* stopped, cancelled and raced by its own callers.                        *)
THEOREM ServiceImplemented == Spec => ImplementsService
<1>1. Init => Service!Init
  BY StatusCases DEF Init, Service!Init
<1>2. TypeOK /\ LoopsStarted /\ Queued /\ Held /\ [Next]_vars => [Service!Next]_Service!vars
  BY NextServes
<1> QED
  BY <1>1, <1>2, PlacesInvariant, PTL DEF Spec, ImplementsService, Service!Spec
=============================================================================
