------------------------- MODULE AppLifecycleProofs -------------------------
(***************************************************************************)
(* Proofs about AppLifecycle for any updates, starts of the process and    *)
(* failures.  The process starts its runner at most once and nothing       *)
(* submits jobs to it, so of the runner there is one loop, which never has *)
(* a job, and one Stop.                                                    *)
(***************************************************************************)
EXTENDS AppLifecycle, Sequences, TLAPS

RunnerTypes ==
  /\ running \in BOOLEAN /\ parentDone \in BOOLEAN
  /\ ctx \in 0 .. 1 /\ cancelled \subseteq 0 .. 1
  /\ loop \in [1 .. 1 -> [at : {"none", "top", "select", "done"}, on : 0 .. 1, job : {Runner!NoJob}]]
  /\ stop \in [{TheStop} -> [at : {"new", "nothing", "cancel", "wait", "stopped", "expired"},
                             ctx : 0 .. 1]]

MainTypes ==
  /\ mode \in {"server", "worker", "all"}
  /\ pc \in {"down", "workers", "http", "select", "shutdown", "drain",
             "stop", "stopping", "close", "exit"}
  /\ clients \in {"none", "open", "closed"}
  /\ server \in {"none", "starting", "open", "failed", "closed"}
  /\ serverErr \in BOOLEAN /\ late \in BOOLEAN
  /\ runErr \in {"none", "boot", "server", "shutdown", "stop"}
  /\ expirer \in {"none", "idle", "tick"}
  /\ boots \in 0 .. MaxBoots /\ failures \in 0 .. MaxFailures

RequestTypes ==
  /\ update \in [Updates -> {"waiting", "active", "ok", "error", "done"}]
  /\ handled \subseteq Updates

(* What a mode does not ask for is not there. *)
ByMode ==
  /\ ~ServesHTTP(mode) => server = "none"
  /\ ~RunsWorkers(mode) => expirer = "none" /\ ~running /\ loop[1].at = "none"

(* The main goroutine opens the clients first and closes them last, and    *)
(* passes the drain only with nothing in flight or with the deadline as    *)
(* its error.                                                              *)
Place ==
  /\ clients = IF pc = "down" THEN "none" ELSE IF pc = "exit" THEN "closed" ELSE "open"
  /\ server \in {"starting", "open", "failed"} => pc \in {"select", "shutdown"}
  /\ server = "none" => Idle
  /\ pc \in {"down", "workers", "http"} => server = "none"
  /\ pc \in {"stop", "stopping", "close", "exit"} /\ (~late \/ runErr = "none") => Idle

(* Where it runs workers, the runner runs from the start of the server on  *)
(* until the drain is over, and the Stop that found nothing to stop is the *)
(* one of a process without workers.                                       *)
RunnerPlace ==
  /\ pc \in {"down", "workers"} => ~running /\ loop[1].at = "none"
  /\ pc \in {"http", "select", "shutdown", "drain", "stop"} /\ RunsWorkers(mode) => running
  /\ stop[TheStop].at = "nothing" => ~RunsWorkers(mode)
  /\ pc \in {"close", "exit"} /\ runErr = "none" => loop[1].at \in {"none", "done"}

LifeInv == MainTypes /\ RunnerTypes /\ RequestTypes /\ ByMode /\ Place /\ RunnerPlace

-----------------------------------------------------------------------------
(* The steps of the runner in terms of this process. *)
LEMMA RunnerStarts ==
  ASSUME RunnerTypes, Runner!Start
  PROVE  /\ running' = TRUE /\ UNCHANGED <<parentDone, stop>>
         /\ RunnerTypes'
<1>1. /\ running' = TRUE /\ ctx = 0 /\ ctx' = 1
      /\ loop' = [loop EXCEPT ![1] = Runner!Loop("top", 0, Runner!NoJob)]
      /\ UNCHANGED <<cancelled, parentDone, stop>>
  <2>1. ctx = 0 /\ ctx + 1 = 1
    BY DEF Runner!Start, RunnerTypes
  <2>2. /\ running' = TRUE /\ ctx' = ctx + 1
        /\ loop' = [loop EXCEPT ![ctx + 1] = Runner!Loop("top", 0, Runner!NoJob)]
        /\ UNCHANGED <<cancelled, parentDone, stop>>
    BY DEF Runner!Start
  <2> QED BY <2>1, <2>2
<1>2. Runner!Loop("top", 0, Runner!NoJob)
        \in [at : {"none", "top", "select", "done"}, on : 0 .. 1, job : {Runner!NoJob}]
  BY DEF Runner!Loop
<1> QED BY <1>1, <1>2 DEF RunnerTypes

LEMMA LoopMoves ==
  ASSUME RunnerTypes, NEW g \in Runner!Loops, Runner!LoopStep(g)
  PROVE  /\ UNCHANGED <<running, ctx, cancelled, parentDone, stop>>
         /\ RunnerTypes'
         /\ loop[1].at \in {"top", "select"}
<1>1. g = 1
  BY DEF Runner!Loops
<1>2. loop[1] \in [at : {"none", "top", "select", "done"}, on : 0 .. 1, job : {Runner!NoJob}]
  BY DEF RunnerTypes
<1>3. Runner!LoopTop(1) \/ Runner!LoopExit(1)
  <2>1. ~Runner!LoopTake(1)
    BY DEF Runner!LoopTake
  <2>2. ~Runner!HandleJob(1) /\ ~Runner!HandlerReturns(1)
    BY <1>2 DEF Runner!HandleJob, Runner!HandlerReturns
  <2> QED BY <1>1, <2>1, <2>2 DEF Runner!LoopStep
<1>4. /\ UNCHANGED <<running, ctx, cancelled, parentDone, stop>>
      /\ loop[1].at \in {"top", "select"}
      /\ \/ loop' = [loop EXCEPT ![1] = Runner!Loop("select", ctx, Runner!NoJob)]
         \/ loop' = [loop EXCEPT ![1] = Runner!Loop("done", 0, Runner!NoJob)]
  BY <1>3 DEF Runner!LoopTop, Runner!LoopExit
<1>5. /\ Runner!Loop("select", ctx, Runner!NoJob)
           \in [at : {"none", "top", "select", "done"}, on : 0 .. 1, job : {Runner!NoJob}]
      /\ Runner!Loop("done", 0, Runner!NoJob)
           \in [at : {"none", "top", "select", "done"}, on : 0 .. 1, job : {Runner!NoJob}]
  BY DEF Runner!Loop, RunnerTypes
<1>6. loop' \in [1 .. 1 -> [at : {"none", "top", "select", "done"}, on : 0 .. 1, job : {Runner!NoJob}]]
  BY <1>4, <1>5 DEF RunnerTypes
<1> QED BY <1>4, <1>6 DEF RunnerTypes

LEMMA StopMoves ==
  ASSUME RunnerTypes,
         \/ Runner!StopBegin(TheStop) \/ Runner!StopCancel(TheStop)
         \/ Runner!StopReturns(TheStop) \/ Runner!StopExpires(TheStop)
  PROVE  /\ UNCHANGED <<ctx, parentDone, loop>>
         /\ RunnerTypes'
         /\ Runner!StopBegin(TheStop) =>
              /\ running' = FALSE
              /\ stop'[TheStop].at = "nothing" => ~running
         /\ ~Runner!StopBegin(TheStop) => running' = running /\ stop'[TheStop].at # "nothing"
         /\ Runner!StopReturns(TheStop) => loop[1].at \in {"none", "done"}
<1> DEFINE S == [at : {"new", "nothing", "cancel", "wait", "stopped", "expired"}, ctx : 0 .. 1]
<1>0. stop \in [{TheStop} -> S] /\ stop[TheStop] \in S /\ 1 \in 1 .. 1
  BY DEF RunnerTypes
<1>1. CASE Runner!StopBegin(TheStop)
  <2> DEFINE new == IF running THEN [at |-> "cancel", ctx |-> ctx] ELSE [at |-> "nothing", ctx |-> 0]
  <2>1. /\ stop' = [stop EXCEPT ![TheStop] = new]
        /\ running' = FALSE /\ UNCHANGED <<ctx, cancelled, parentDone, loop>>
        /\ stop[TheStop].at = "new"
    BY <1>1 DEF Runner!StopBegin
  <2>2. new \in S /\ (new.at = "nothing" => ~running)
    BY DEF RunnerTypes
  <2> HIDE DEF new
  <2>3. stop' \in [{TheStop} -> S] /\ stop'[TheStop] = new
    BY <1>0, <2>1, <2>2
  <2>4. ~Runner!StopReturns(TheStop)
    BY <2>1 DEF Runner!StopReturns
  <2> QED BY <1>1, <2>1, <2>2, <2>3, <2>4 DEF RunnerTypes
<1>2. CASE ~Runner!StopBegin(TheStop)
  <2>1. \E a \in {"wait", "stopped", "expired"} : stop' = [stop EXCEPT ![TheStop].at = a]
    BY <1>2 DEF Runner!StopCancel, Runner!StopReturns, Runner!StopExpires
  <2>2. /\ cancelled' = cancelled \/ cancelled' = cancelled \cup {stop[TheStop].ctx}
        /\ UNCHANGED <<running, ctx, parentDone, loop>>
    BY <1>2 DEF Runner!StopCancel, Runner!StopReturns, Runner!StopExpires
  <2>3. stop' \in [{TheStop} -> S] /\ stop'[TheStop].at # "nothing"
    BY <1>0, <2>1
  <2>4. cancelled' \subseteq 0 .. 1
    BY <1>0, <2>2 DEF RunnerTypes
  <2>5. Runner!StopReturns(TheStop) => loop[1].at \in {"none", "done"}
    BY <1>0 DEF Runner!StopReturns, Runner!AllOver, Runner!Alive, Runner!Loops
  <2> QED BY <1>2, <2>2, <2>3, <2>4, <2>5 DEF RunnerTypes
<1> QED BY <1>1, <1>2

LEMMA InitLife == Init => LifeInv
<1> SUFFICES ASSUME Init PROVE LifeInv
  OBVIOUS
<1>1. /\ running = FALSE /\ ctx = 0 /\ cancelled = {} /\ parentDone = FALSE
      /\ loop = [g \in 1 .. 1 |-> Runner!Loop("none", 0, Runner!NoJob)]
      /\ stop = [s \in {TheStop} |-> [at |-> "new", ctx |-> 0]]
  BY DEF Init, Runner!Init, Runner!Loops
<1>2. Runner!Loop("none", 0, Runner!NoJob)
        \in [at : {"none", "top", "select", "done"}, on : 0 .. 1, job : {Runner!NoJob}]
  BY DEF Runner!Loop
<1>3. RunnerTypes
  <2>1. loop \in [1 .. 1 -> [at : {"none", "top", "select", "done"}, on : 0 .. 1, job : {Runner!NoJob}]]
    BY <1>1, <1>2
  <2>2. stop \in [{TheStop} -> [at : {"new", "nothing", "cancel", "wait", "stopped", "expired"},
                               ctx : 0 .. 1]]
    BY <1>1
  <2> QED BY <1>1, <2>1, <2>2 DEF RunnerTypes
<1>4. loop[1].at = "none" /\ stop[TheStop].at = "new"
  BY <1>1 DEF Runner!Loop
<1>5. MainTypes /\ RequestTypes /\ Idle
  <2>0. /\ boots = 0 /\ failures = 0 /\ 0 \in 0 .. MaxBoots /\ 0 \in 0 .. MaxFailures
    BY BootsAssumption, FailuresAssumption DEF Init
  <2>1. MainTypes
    BY <2>0 DEF Init, MainTypes
  <2>2. update = [u \in Updates |-> "waiting"] /\ handled = {}
    BY DEF Init
  <2>3. RequestTypes /\ Idle
    BY <2>2 DEF RequestTypes, Idle, InFlight
  <2> QED BY <2>1, <2>3
<1>6. ByMode /\ Place /\ RunnerPlace
  BY <1>1, <1>4, <1>5 DEF Init, ByMode, Place, RunnerPlace
<1> QED BY <1>3, <1>5, <1>6 DEF LifeInv

-----------------------------------------------------------------------------
(* Steps of the main goroutine that leave the runner and requests alone.   *)
LEMMA MainAlone ==
  ASSUME LifeInv,
         \/ Boot \/ BootFails \/ StartServer \/ ShutdownRequested \/ ServerStopped
         \/ DrainBegin \/ DrainEnds \/ DrainExpires \/ Deadline \/ Close
  PROVE  LifeInv'
<1>0. UNCHANGED <<runner, requests, mode>>
  BY DEF Boot, BootFails, StartServer, ShutdownRequested, ServerStopped,
         DrainBegin, DrainEnds, DrainExpires, Deadline, Close
<1>1. RunnerTypes' /\ RequestTypes' /\ Idle' = Idle
  BY <1>0 DEF LifeInv, RunnerTypes, RequestTypes, Idle, InFlight, runner, requests
<1>2. /\ UNCHANGED <<running, loop, stop, mode>>
      /\ RunsWorkers(mode)' = RunsWorkers(mode) /\ ServesHTTP(mode)' = ServesHTTP(mode)
  BY <1>0 DEF runner
<1>3. CASE Boot
  <2>1. boots' \in 0 .. MaxBoots
    BY <1>3, BootsAssumption DEF Boot, LifeInv, MainTypes
  <2> QED BY <1>1, <1>2, <1>3, <2>1 DEF Boot, LifeInv, MainTypes, ByMode, Place, RunnerPlace
<1>4. CASE BootFails
  BY <1>1, <1>2, <1>4 DEF BootFails, LifeInv, MainTypes, ByMode, Place, RunnerPlace, bounds
<1>5. CASE StartServer
  BY <1>1, <1>2, <1>5 DEF StartServer, LifeInv, MainTypes, ByMode, Place, RunnerPlace, bounds
<1>6. CASE ShutdownRequested
  BY <1>1, <1>2, <1>6 DEF ShutdownRequested, LifeInv, MainTypes, ByMode, Place, RunnerPlace, bounds
<1>7. CASE ServerStopped
  BY <1>1, <1>2, <1>7 DEF ServerStopped, LifeInv, MainTypes, ByMode, Place, RunnerPlace, bounds
<1>8. CASE DrainBegin
  BY <1>1, <1>2, <1>8 DEF DrainBegin, LifeInv, MainTypes, ByMode, Place, RunnerPlace, bounds
<1>9. CASE DrainEnds
  BY <1>1, <1>2, <1>9 DEF DrainEnds, LifeInv, MainTypes, ByMode, Place, RunnerPlace, bounds
<1>10. CASE DrainExpires
  BY <1>1, <1>2, <1>10 DEF DrainExpires, FirstErr, LifeInv, MainTypes, ByMode, Place, RunnerPlace, bounds
<1>11. CASE Deadline
  BY <1>1, <1>2, <1>11 DEF Deadline, LifeInv, MainTypes, ByMode, Place, RunnerPlace, bounds
<1>12. CASE Close
  BY <1>1, <1>2, <1>12 DEF Close, LifeInv, MainTypes, ByMode, Place, RunnerPlace, bounds
<1> QED BY <1>3, <1>4, <1>5, <1>6, <1>7, <1>8, <1>9, <1>10, <1>11, <1>12

(* Steps of the main goroutine and of the loop that move the runner. *)
LEMMA RunnerMoves ==
  ASSUME LifeInv,
         StartWorkers \/ StopRunner \/ StopCancels \/ RunnerStopped \/ RunnerExpires \/ LoopRuns
  PROVE  LifeInv'
<1>0. UNCHANGED <<requests, bounds, mode, server>>
  BY DEF StartWorkers, StopRunner, StopCancels, RunnerStopped, RunnerExpires, LoopRuns
<1>1. /\ RequestTypes' /\ Idle' = Idle
      /\ boots' \in 0 .. MaxBoots /\ failures' \in 0 .. MaxFailures
  BY <1>0 DEF LifeInv, MainTypes, RequestTypes, Idle, InFlight, requests, bounds
<1>2. /\ UNCHANGED <<mode, server>>
      /\ RunsWorkers(mode)' = RunsWorkers(mode) /\ ServesHTTP(mode)' = ServesHTTP(mode)
  BY <1>0
<1>3. CASE StartWorkers
  <2>1. CASE RunsWorkers(mode)
    <3>1. running' = TRUE /\ UNCHANGED stop /\ RunnerTypes'
      BY <1>3, <2>1, RunnerStarts DEF StartWorkers, LifeInv
    <3> QED BY <1>1, <1>2, <1>3, <2>1, <3>1
            DEF StartWorkers, LifeInv, MainTypes, ByMode, Place, RunnerPlace
  <2>2. CASE ~RunsWorkers(mode)
    <3>1. UNCHANGED <<running, loop, stop>> /\ RunnerTypes'
      BY <1>3, <2>2 DEF StartWorkers, LifeInv, RunnerTypes, runner
    <3> QED BY <1>1, <1>2, <1>3, <2>2, <3>1
            DEF StartWorkers, LifeInv, MainTypes, ByMode, Place, RunnerPlace
  <2> QED BY <2>1, <2>2
<1>4. CASE StopRunner
  <2>1. /\ UNCHANGED loop /\ RunnerTypes' /\ running' = FALSE
        /\ stop'[TheStop].at = "nothing" => ~running
    BY <1>4, StopMoves DEF StopRunner, LifeInv
  <2> QED BY <1>1, <1>2, <1>4, <2>1
          DEF StopRunner, LifeInv, MainTypes, ByMode, Place, RunnerPlace
<1>5. CASE StopCancels
  <2>1. ~Runner!StopBegin(TheStop)
    BY <1>5 DEF StopCancels, Runner!StopCancel, Runner!StopBegin
  <2>2. UNCHANGED <<running, loop>> /\ RunnerTypes' /\ stop'[TheStop].at # "nothing"
    BY <1>5, <2>1, StopMoves DEF StopCancels, LifeInv
  <2> QED BY <1>1, <1>2, <1>5, <2>2
          DEF StopCancels, LifeInv, MainTypes, ByMode, Place, RunnerPlace, main
<1>6. CASE RunnerStopped
  <2>1. CASE stop[TheStop].at = "nothing"
    <3>1. UNCHANGED <<running, loop, stop>> /\ RunnerTypes'
      BY <1>6, <2>1 DEF RunnerStopped, LifeInv, RunnerTypes, runner
    <3>2. loop'[1].at = "none"
      BY <2>1, <3>1 DEF LifeInv, RunnerPlace, ByMode
    <3> QED BY <1>1, <1>2, <1>6, <2>1, <3>1, <3>2
            DEF RunnerStopped, LifeInv, MainTypes, ByMode, Place, RunnerPlace
  <2>2. CASE stop[TheStop].at # "nothing"
    <3>1. Runner!StopReturns(TheStop) /\ ~Runner!StopBegin(TheStop)
      BY <1>6, <2>2 DEF RunnerStopped, Runner!StopReturns, Runner!StopBegin
    <3>2. /\ UNCHANGED <<running, loop>> /\ RunnerTypes' /\ stop'[TheStop].at # "nothing"
          /\ loop[1].at \in {"none", "done"}
      BY <3>1, StopMoves DEF LifeInv
    <3> QED BY <1>1, <1>2, <1>6, <3>2
            DEF RunnerStopped, LifeInv, MainTypes, ByMode, Place, RunnerPlace
  <2> QED BY <2>1, <2>2
<1>7. CASE RunnerExpires
  <2>1. Runner!StopExpires(TheStop) /\ ~Runner!StopBegin(TheStop)
    BY <1>7 DEF RunnerExpires, Runner!StopExpires, Runner!StopBegin
  <2>2. UNCHANGED <<running, loop>> /\ RunnerTypes' /\ stop'[TheStop].at # "nothing"
    BY <2>1, StopMoves DEF LifeInv
  <2> QED BY <1>1, <1>2, <1>7, <2>2
          DEF RunnerExpires, FirstErr, LifeInv, MainTypes, ByMode, Place, RunnerPlace
<1>8. CASE LoopRuns
  <2>1. UNCHANGED <<running, stop>> /\ RunnerTypes' /\ loop[1].at \in {"top", "select"}
    BY <1>8, LoopMoves DEF LoopRuns, LifeInv
  <2> QED BY <1>1, <1>2, <1>8, <2>1
          DEF LoopRuns, LifeInv, MainTypes, ByMode, Place, RunnerPlace, main
<1> QED BY <1>3, <1>4, <1>5, <1>6, <1>7, <1>8

(* The server, the expirer and the signal. *)
LEMMA OthersMove ==
  ASSUME LifeInv, Listen \/ ServerFails \/ Tick \/ TickEnds \/ ExpirerEnds \/ Signal
  PROVE  LifeInv'
<1>0. UNCHANGED <<mode, requests, bounds, pc, clients, runErr, late>>
  BY DEF Listen, ServerFails, Tick, TickEnds, ExpirerEnds, Signal, main
<1>1. /\ RequestTypes' /\ Idle' = Idle
      /\ boots' \in 0 .. MaxBoots /\ failures' \in 0 .. MaxFailures
  BY <1>0 DEF LifeInv, MainTypes, RequestTypes, Idle, InFlight, requests, bounds
<1>2. /\ UNCHANGED <<running, loop, stop>> /\ RunnerTypes'
  <2>1. CASE Signal
    BY <2>1 DEF Signal, Runner!ParentDone, LifeInv, RunnerTypes
  <2>2. CASE UNCHANGED runner
    BY <2>2 DEF runner, LifeInv, RunnerTypes
  <2> QED BY <2>1, <2>2 DEF Listen, ServerFails, Tick, TickEnds, ExpirerEnds
<1>3. /\ RunsWorkers(mode)' = RunsWorkers(mode) /\ ServesHTTP(mode)' = ServesHTTP(mode)
      /\ UNCHANGED <<mode, pc, clients, runErr, late>>
  BY <1>0
<1>4. CASE Listen \/ ServerFails
  <2>1. /\ server \in {"starting", "open"} /\ server' \in {"open", "failed"}
        /\ serverErr' \in BOOLEAN /\ expirer' = expirer
    BY <1>4 DEF Listen, ServerFails, main, LifeInv, MainTypes
  <2>2. MainTypes' /\ ByMode'
    BY <1>1, <1>2, <1>3, <2>1 DEF LifeInv, MainTypes, ByMode
  <2>3. Place' /\ RunnerPlace'
    BY <1>1, <1>2, <1>3, <2>1 DEF LifeInv, Place, RunnerPlace
  <2> QED BY <1>1, <1>2, <2>2, <2>3 DEF LifeInv
<1>5. CASE Tick \/ TickEnds \/ ExpirerEnds \/ Signal
  <2>1. /\ UNCHANGED <<server, serverErr>>
        /\ expirer' \in {"none", "idle", "tick"}
        /\ expirer = "none" => expirer' = "none"
    BY <1>5 DEF Tick, TickEnds, ExpirerEnds, Signal, main, LifeInv, MainTypes
  <2> QED BY <1>1, <1>2, <1>3, <2>1 DEF LifeInv, MainTypes, ByMode, Place, RunnerPlace
<1> QED BY <1>4, <1>5

(* A request begins only while the server listens; the other steps are     *)
(* those of a request in flight.                                           *)
LEMMA RequestsMove ==
  ASSUME LifeInv, NEW u \in Updates,
         Receive(u) \/ Handle(u) \/ Answer(u) \/ HandleFails(u) \/ AnswerLost(u)
  PROVE  LifeInv'
<1>1. UNCHANGED <<mode, main, server, expirer, boots, runner>>
  BY DEF Receive, Handle, Answer, HandleFails, AnswerLost, bounds
<1>2. /\ UNCHANGED <<mode, pc, clients, serverErr, runErr, late, server, expirer, boots>>
      /\ UNCHANGED <<running, loop, stop>> /\ RunnerTypes'
      /\ RunsWorkers(mode)' = RunsWorkers(mode) /\ ServesHTTP(mode)' = ServesHTTP(mode)
  BY <1>1 DEF main, runner, LifeInv, RunnerTypes
<1>3. failures' \in 0 .. MaxFailures
  BY FailuresAssumption DEF Receive, Handle, Answer, HandleFails, AnswerLost, bounds, LifeInv, MainTypes
<1>4. RequestTypes'
  BY DEF Receive, Handle, Answer, AfterAnswer, HandleFails, AnswerLost, LifeInv, RequestTypes
<1>5. ~Idle \/ server = "open"
  BY DEF Receive, Handle, Answer, HandleFails, AnswerLost, Idle, InFlight
<1>6. Place'
  BY <1>2, <1>5 DEF LifeInv, Place
<1> QED BY <1>2, <1>3, <1>4, <1>6 DEF LifeInv, MainTypes, ByMode, RunnerPlace

(* The end of a process takes everything along. *)
LEMMA GoneLife ==
  ASSUME LifeInv, Exit \/ Kill
  PROVE  LifeInv'
<1>1. Gone /\ failures' \in 0 .. MaxFailures
  BY FailuresAssumption DEF Exit, Kill, LifeInv, MainTypes
<1>2. /\ running' = FALSE /\ ctx' = 0 /\ cancelled' = {} /\ parentDone' = FALSE
      /\ loop' = [g \in 1 .. 1 |-> Runner!Loop("none", 0, Runner!NoJob)]
      /\ stop' = [s \in {TheStop} |-> [at |-> "new", ctx |-> 0]]
  BY <1>1 DEF Gone, Runner!Loops
<1>3. Runner!Loop("none", 0, Runner!NoJob)
        \in [at : {"none", "top", "select", "done"}, on : 0 .. 1, job : {Runner!NoJob}]
  BY DEF Runner!Loop
<1>4. RunnerTypes'
  <2>1. loop' \in [1 .. 1 -> [at : {"none", "top", "select", "done"}, on : 0 .. 1, job : {Runner!NoJob}]]
    BY <1>2, <1>3
  <2>2. stop' \in [{TheStop} -> [at : {"new", "nothing", "cancel", "wait", "stopped", "expired"},
                                ctx : 0 .. 1]]
    BY <1>2
  <2> QED BY <1>2, <2>1, <2>2 DEF RunnerTypes
<1>5. loop'[1].at = "none" /\ stop'[TheStop].at = "new"
  BY <1>2 DEF Runner!Loop
<1>6. RequestTypes' /\ Idle'
  BY <1>1 DEF Gone, LifeInv, RequestTypes, Idle, InFlight
<1>7. MainTypes'
  BY <1>1 DEF Gone, LifeInv, MainTypes
<1>8. ByMode' /\ Place' /\ RunnerPlace'
  BY <1>1, <1>2, <1>5, <1>6 DEF Gone, ByMode, Place, RunnerPlace
<1> QED BY <1>4, <1>6, <1>7, <1>8 DEF LifeInv

LEMMA NextLife == LifeInv /\ [Next]_vars => LifeInv'
<1> SUFFICES ASSUME LifeInv, [Next]_vars PROVE LifeInv'
  OBVIOUS
<1>1. CASE UNCHANGED vars
  <2>1. UNCHANGED <<mode, main, server, expirer, requests, bounds, runner>>
    BY <1>1 DEF vars
  <2>2. RunnerTypes' /\ RequestTypes' /\ Idle' = Idle
    BY <2>1 DEF LifeInv, RunnerTypes, RequestTypes, Idle, InFlight, runner, requests
  <2>3. MainTypes'
    BY <2>1 DEF LifeInv, MainTypes, main, bounds
  <2>4. ByMode' /\ Place' /\ RunnerPlace'
    BY <2>1, <2>2 DEF LifeInv, ByMode, Place, RunnerPlace, main, runner
  <2> QED BY <2>2, <2>3, <2>4 DEF LifeInv
<1>2. CASE Main
  BY <1>2, MainAlone, RunnerMoves, GoneLife DEF Main
<1>3. ASSUME NEW u \in Updates, Receive(u) \/ Request(u) \/ HandleFails(u) \/ AnswerLost(u)
      PROVE  LifeInv'
  BY <1>3, RequestsMove DEF Request
<1> QED BY <1>1, <1>2, <1>3, MainAlone, RunnerMoves, OthersMove, GoneLife DEF Next

LEMMA LifeInvariant == Spec => []LifeInv
  BY InitLife, NextLife, PTL DEF Spec

-----------------------------------------------------------------------------
(* Every variable has its type, those of the runner included, and nothing  *)
(* runs that the mode does not ask for.                                    *)
THEOREM LifeTypes == Spec => []TypeOK
<1>1. LifeInv => TypeOK
  <2> SUFFICES ASSUME LifeInv PROVE TypeOK
    OBVIOUS
  <2>1. Runner!TypeOK
    <3>1. <<>> \in Seq({}) /\ Len(<<>>) <= 32
      OBVIOUS
    <3>2. /\ running \in BOOLEAN /\ parentDone \in BOOLEAN
          /\ ctx \in 0 .. 1 /\ cancelled \subseteq 0 .. 1
          /\ stop \in [{TheStop} -> [at : {"new", "nothing", "cancel", "wait", "stopped", "expired"},
                                     ctx : 0 .. 1]]
      BY DEF LifeInv, RunnerTypes
    <3>3. loop \in [1 .. 1 -> [at : {"none", "top", "select", "job", "handler", "done"},
                               on : 0 .. 1, job : {} \cup {Runner!NoJob}]]
      BY DEF LifeInv, RunnerTypes
    <3>4. [j \in {} |-> "new"] \in [{} -> {"new", "refused", "sending", "expired",
                                           "waiting", "taken", "handled", "dropped"}]
      OBVIOUS
    <3> QED BY <3>1, <3>2, <3>3, <3>4 DEF Runner!TypeOK, Runner!Loops
  <2> QED BY <2>1 DEF LifeInv, MainTypes, RequestTypes, ByMode, RunsWorkers, TypeOK
<1> QED BY <1>1, LifeInvariant, PTL

(* A Run that returns nil has drained its requests, closed the listener    *)
(* and seen the end of the job loop.                                       *)
THEOREM CleanExits == Spec => []CleanExit
<1>1. LifeInv => CleanExit
  <2> SUFFICES ASSUME LifeInv, pc \in {"close", "exit"}, runErr = "none"
               PROVE  /\ Idle
                      /\ server \in {"none", "closed"}
                      /\ \A g \in Runner!Loops : ~Runner!Alive(g)
    BY DEF CleanExit
  <2>1. Idle /\ server \in {"none", "closed"}
    BY DEF LifeInv, MainTypes, Place
  <2>2. \A g \in Runner!Loops : ~Runner!Alive(g)
    BY DEF LifeInv, RunnerPlace, Runner!Loops, Runner!Alive
  <2> QED BY <2>1, <2>2
<1> QED BY <1>1, LifeInvariant, PTL

(* Only the deadline of the shutdown takes the clients or the runner away  *)
(* from a request in flight.                                               *)
THEOREM ResourcesKept == Spec => []RequestsKeepResources
<1>1. LifeInv => RequestsKeepResources
  <2> SUFFICES ASSUME LifeInv, ~Idle, ~late
               PROVE  clients = "open" /\ (RunsWorkers(mode) => running)
    BY DEF RequestsKeepResources
  <2>1. pc \in {"select", "shutdown", "drain"}
    BY DEF LifeInv, MainTypes, Place
  <2> QED BY <2>1 DEF LifeInv, Place, RunnerPlace
<1> QED BY <1>1, LifeInvariant, PTL
=============================================================================
