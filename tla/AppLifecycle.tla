---------------------------- MODULE AppLifecycle ----------------------------
(***************************************************************************)
(* One process of the platform from boot to exit (internal/app/app.go),    *)
(* started again by its container: the main goroutine, the HTTP server     *)
(* with the webhook requests in flight, the vacancy expirer, and the job   *)
(* runner, whose steps are those of JobRunner.                             *)
(*                                                                         *)
(* The main goroutine is at "workers", "http" and "select" in the first    *)
(* half of Run, at "shutdown", "drain", "stop" and "stopping" in the       *)
(* second, at "close" in the deferred calls and at "exit" once Run has     *)
(* returned; the other goroutines run on until the process is "down".      *)
(*                                                                         *)
(* Abstractions: Redis is configured (workbot needs it); no module submits *)
(* a job or registers a handler, so the runner's queue stays empty; panel, *)
(* health and metrics requests are left out.  What Telegram does with an   *)
(* update is external: it sends it again until it reads a 200.             *)
(***************************************************************************)
EXTENDS Naturals

CONSTANTS
  Updates,      \* the updates Telegram delivers
  MaxBoots,     \* bound on the starts of the process
  MaxFailures   \* bound on failed requests, lost answers and kills

ASSUME BootsAssumption == MaxBoots \in Nat \ {0}
ASSUME FailuresAssumption == MaxFailures \in Nat

VARIABLES
  mode,         \* Config.Mode
  pc,           \* where the main goroutine is
  clients,      \* the Redis and Postgres clients
  server,       \* the goroutine in ListenAndServe
  serverErr,    \* the channel of that name holds an error
  runErr,       \* the error Run is going to return
  late,         \* the deadline of shutdownCtx has passed
  expirer,      \* the goroutine in StartVacancyExpirer
  update,       \* update[u]: with Telegram, in a handler, or to be answered
  handled,      \* the updates some handler has finished
  boots, failures,
  running, ctx, cancelled, parentDone, loop, stop    \* those of JobRunner

TheStop == "app.Run"

Runner == INSTANCE JobRunner WITH
  Jobs <- {}, Stops <- {TheStop}, Buffer <- 32, MaxStarts <- 1,
  handlers <- {}, queue <- <<>>, fate <- [j \in {} |-> "new"]

runner == <<running, ctx, cancelled, parentDone, loop, stop>>
main == <<pc, clients, serverErr, runErr, late>>
requests == <<update, handled>>
bounds == <<boots, failures>>
vars == <<mode, main, server, expirer, requests, bounds, runner>>

Init ==
  /\ mode \in {"server", "worker", "all"}
  /\ pc = "down" /\ clients = "none"
  /\ server = "none" /\ serverErr = FALSE
  /\ runErr = "none" /\ late = FALSE
  /\ expirer = "none"
  /\ update = [u \in Updates |-> "waiting"] /\ handled = {}
  /\ boots = 0 /\ failures = 0
  /\ Runner!Init

StartedAlways(m) == TRUE                                          \* mutant
RunsWorkers(m) == m \in {"worker", "all"}
ServesHTTP(m) == m \in {"server", "all"}

InFlight(u) == update[u] \in {"active", "ok", "error"}
Idle == \A u \in Updates : ~InFlight(u)

(* The first error is the one Run returns. *)
FirstErr(e) == IF runErr = "none" THEN e ELSE runErr

-----------------------------------------------------------------------------
(* Boot: the clients, the registry and the modules, then the goroutines.   *)
Boot ==
  /\ pc = "down" /\ boots < MaxBoots
  /\ boots' = boots + 1
  /\ pc' = "workers" /\ clients' = "open"
  /\ UNCHANGED <<mode, serverErr, runErr, late, server, expirer, requests, failures, runner>>

(* Run returns early: a registry or module that does not load, or the      *)
(* panel's handler, by then with the loop and the expirer running.         *)
BootFails ==
  /\ pc \in {"workers", "http"}
  /\ pc = "http" => ServesHTTP(mode)
  /\ pc' = "close" /\ runErr' = "boot"
  /\ UNCHANGED <<mode, clients, serverErr, late, server, expirer, requests, bounds, runner>>

StartWorkers ==
  /\ pc = "workers"
  /\ pc' = "http"
  /\ IF RunsWorkers(mode)
     THEN Runner!Start /\ expirer' = "idle"
     ELSE UNCHANGED <<runner, expirer>>
  /\ UNCHANGED <<mode, clients, serverErr, runErr, late, server, requests, bounds>>

StartServer ==
  /\ pc = "http"
  /\ pc' = "select"
  /\ server' = IF ServesHTTP(mode) THEN "starting" ELSE "none"
  /\ UNCHANGED <<mode, clients, serverErr, runErr, late, expirer, requests, bounds, runner>>

-----------------------------------------------------------------------------
(* The server.  ListenAndServe that is stopped by Shutdown, also before it *)
(* has opened its socket, returns nil and nothing is sent.                 *)
Listen ==
  /\ server = "starting"
  /\ server' = "open"
  /\ UNCHANGED <<mode, main, expirer, requests, bounds, runner>>

ServerFails ==
  /\ server \in {"starting", "open"}
  /\ server' = "failed" /\ serverErr' = TRUE
  /\ UNCHANGED <<mode, pc, clients, runErr, late, expirer, requests, bounds, runner>>

Receive(u) ==
  /\ server = "open" /\ update[u] = "waiting"
  /\ update' = [update EXCEPT ![u] = "active"]
  /\ UNCHANGED <<mode, main, server, expirer, handled, bounds, runner>>

Handle(u) ==
  /\ update[u] = "active"
  /\ update' = [update EXCEPT ![u] = "ok"]
  /\ handled' = handled \cup {u}
  /\ UNCHANGED <<mode, main, server, expirer, bounds, runner>>

(* No such bot, a bot that is disabled, a wrong secret, a body that does   *)
(* not parse, an error of the module: every other answer than 200.         *)
HandleFails(u) ==
  /\ update[u] = "active" /\ failures < MaxFailures
  /\ failures' = failures + 1
  /\ update' = [update EXCEPT ![u] = "error"]
  /\ UNCHANGED <<mode, main, server, expirer, handled, boots, runner>>

AnsweredAnyway(answer) == "done"                                  \* mutant
AfterAnswer(answer) == IF answer = "ok" THEN "done" ELSE "waiting"

Answer(u) ==
  /\ update[u] \in {"ok", "error"}
  /\ update' = [update EXCEPT ![u] = AfterAnswer(update[u])]
  /\ UNCHANGED <<mode, main, server, expirer, handled, bounds, runner>>

(* The connection is gone or WriteTimeout has passed when it answers. *)
AnswerLost(u) ==
  /\ update[u] \in {"ok", "error"} /\ failures < MaxFailures
  /\ failures' = failures + 1
  /\ update' = [update EXCEPT ![u] = "waiting"]
  /\ UNCHANGED <<mode, main, server, expirer, handled, boots, runner>>

-----------------------------------------------------------------------------
(* The expirer: of a tick and an ended context select takes either. *)
Tick ==
  /\ expirer = "idle"
  /\ expirer' = "tick"
  /\ UNCHANGED <<mode, main, server, requests, bounds, runner>>

TickEnds ==
  /\ expirer = "tick"
  /\ expirer' = "idle"
  /\ UNCHANGED <<mode, main, server, requests, bounds, runner>>

ExpirerEnds ==
  /\ expirer = "idle" /\ parentDone
  /\ expirer' = "none"
  /\ UNCHANGED <<mode, main, server, requests, bounds, runner>>

-----------------------------------------------------------------------------
(* SIGINT or SIGTERM; the context also ends the loop and the expirer. *)
Signal ==
  /\ pc # "down"
  /\ Runner!ParentDone
  /\ UNCHANGED <<mode, main, server, expirer, requests, bounds>>

ShutdownRequested ==
  /\ pc = "select" /\ parentDone
  /\ pc' = "shutdown"
  /\ UNCHANGED <<mode, clients, serverErr, runErr, late, server, expirer, requests, bounds, runner>>

FailedNeedsNoDrain ==                                             \* mutant
  /\ pc = "select" /\ serverErr
  /\ pc' = "stop" /\ runErr' = "server" /\ serverErr' = FALSE
  /\ UNCHANGED <<mode, clients, late, server, expirer, requests, bounds, runner>>

ServerStopped ==
  /\ pc = "select" /\ serverErr
  /\ pc' = "shutdown" /\ runErr' = "server" /\ serverErr' = FALSE
  /\ UNCHANGED <<mode, clients, late, server, expirer, requests, bounds, runner>>

(* Shutdown closes the listener and, unless nothing is in flight, waits.   *)
DrainBegin ==
  /\ pc = "shutdown"
  /\ pc' = IF server = "none" \/ Idle THEN "stop" ELSE "drain"
  /\ server' = IF server = "none" THEN "none" ELSE "closed"
  /\ UNCHANGED <<mode, clients, serverErr, runErr, late, expirer, requests, bounds, runner>>

DrainEnds ==
  /\ pc = "drain" /\ Idle
  /\ pc' = "stop"
  /\ UNCHANGED <<mode, clients, serverErr, runErr, late, server, expirer, requests, bounds, runner>>

DrainExpiresSilently ==                                           \* mutant
  /\ pc = "drain" /\ late
  /\ pc' = "stop"
  /\ UNCHANGED <<mode, clients, serverErr, runErr, late, server, expirer, requests, bounds, runner>>

DrainWithoutDeadline ==                                           \* mutant
  /\ pc = "drain" /\ Idle /\ late
  /\ pc' = "stop" /\ runErr' = FirstErr("shutdown")
  /\ UNCHANGED <<mode, clients, serverErr, late, server, expirer, requests, bounds, runner>>

DrainExpires ==
  /\ pc = "drain" /\ late
  /\ pc' = "stop" /\ runErr' = FirstErr("shutdown")
  /\ UNCHANGED <<mode, clients, serverErr, late, server, expirer, requests, bounds, runner>>

(* The one deadline of Shutdown and Stop. *)
Deadline ==
  /\ pc \in {"shutdown", "drain", "stop", "stopping"} /\ ~late
  /\ late' = TRUE
  /\ UNCHANGED <<mode, pc, clients, serverErr, runErr, server, expirer, requests, bounds, runner>>

StopRunner ==
  /\ pc = "stop"
  /\ pc' = "stopping"
  /\ Runner!StopBegin(TheStop)
  /\ UNCHANGED <<mode, clients, serverErr, runErr, late, server, expirer, requests, bounds>>

StopCancels ==
  /\ Runner!StopCancel(TheStop)
  /\ UNCHANGED <<mode, main, server, expirer, requests, bounds>>

RunnerStopped ==
  /\ pc = "stopping"
  /\ IF stop[TheStop].at = "nothing" THEN UNCHANGED runner ELSE Runner!StopReturns(TheStop)
  /\ pc' = "close"
  /\ UNCHANGED <<mode, clients, serverErr, runErr, late, server, expirer, requests, bounds>>

RunnerExpires ==
  /\ pc = "stopping" /\ late
  /\ Runner!StopExpires(TheStop)
  /\ pc' = "close" /\ runErr' = FirstErr("stop")
  /\ UNCHANGED <<mode, clients, serverErr, late, server, expirer, requests, bounds>>

(* The deferred calls. *)
Close ==
  /\ pc = "close"
  /\ pc' = "exit" /\ clients' = "closed"
  /\ UNCHANGED <<mode, serverErr, runErr, late, server, expirer, requests, bounds, runner>>

LoopRuns ==
  /\ \E g \in Runner!Loops : Runner!LoopStep(g)
  /\ UNCHANGED <<mode, main, server, expirer, requests, bounds>>

-----------------------------------------------------------------------------
(* The process is gone, and with it every goroutine and connection. *)
Gone ==
  /\ pc' = "down" /\ clients' = "none"
  /\ server' = "none" /\ serverErr' = FALSE
  /\ runErr' = "none" /\ late' = FALSE
  /\ expirer' = "none"
  /\ update' = [u \in Updates |-> IF InFlight(u) THEN "waiting" ELSE update[u]]
  /\ running' = FALSE /\ ctx' = 0 /\ cancelled' = {} /\ parentDone' = FALSE
  /\ loop' = [g \in Runner!Loops |-> Runner!Loop("none", 0, Runner!NoJob)]
  /\ stop' = [s \in {TheStop} |-> [at |-> "new", ctx |-> 0]]
  /\ UNCHANGED <<mode, handled, boots>>

Exit ==
  /\ pc = "exit"
  /\ Gone
  /\ UNCHANGED failures

(* SIGKILL, out of memory, or the end of the container's grace period. *)
Kill ==
  /\ pc # "down" /\ failures < MaxFailures
  /\ failures' = failures + 1
  /\ Gone

Main ==
  \/ StartWorkers \/ StartServer \/ ShutdownRequested \/ ServerStopped
  \/ DrainBegin \/ DrainEnds \/ DrainExpires
  \/ StopRunner \/ StopCancels \/ RunnerStopped \/ RunnerExpires
  \/ Close \/ Exit

Request(u) == Handle(u) \/ Answer(u)

Next ==
  \/ Boot \/ BootFails \/ Main \/ LoopRuns
  \/ Listen \/ ServerFails \/ Tick \/ TickEnds \/ ExpirerEnds
  \/ Signal \/ Deadline \/ Kill
  \/ \E u \in Updates :
       Receive(u) \/ Request(u) \/ HandleFails(u) \/ AnswerLost(u)

Spec == Init /\ [][Next]_vars

(* Goroutines that can run do run, a deadline passes, and Telegram sends   *)
(* what it has to a server that listens.  Handlers need not return, and    *)
(* nobody is obliged to start, signal or kill the process.                 *)
FairSpec ==
  /\ Spec
  /\ WF_vars(Main) /\ WF_vars(Deadline) /\ WF_vars(LoopRuns) /\ WF_vars(Listen)
  /\ \A u \in Updates : WF_vars(Receive(u))

HandlersReturn == \A u \in Updates : WF_vars(Request(u))
-----------------------------------------------------------------------------
(* Every variable has its type, and a process runs no server, loop or      *)
(* expirer that its mode does not ask for.                                 *)
TypeOK ==
  /\ mode \in {"server", "worker", "all"}
  /\ pc \in {"down", "workers", "http", "select", "shutdown", "drain",
             "stop", "stopping", "close", "exit"}
  /\ clients \in {"none", "open", "closed"}
  /\ server \in {"none", "starting", "open", "failed", "closed"}
  /\ serverErr \in BOOLEAN /\ late \in BOOLEAN
  /\ runErr \in {"none", "boot", "server", "shutdown", "stop"}
  /\ expirer \in {"none", "idle", "tick"}
  /\ update \in [Updates -> {"waiting", "active", "ok", "error", "done"}]
  /\ handled \subseteq Updates
  /\ boots \in 0 .. MaxBoots /\ failures \in 0 .. MaxFailures
  /\ Runner!TypeOK
  /\ ~ServesHTTP(mode) => server = "none"
  /\ ~(mode \in {"worker", "all"}) => expirer = "none" /\ ~running

(* When Run returns nil nothing it promised to stop is left: no webhook    *)
(* request is in flight, the listener is closed and the job loop is over.  *)
CleanExit ==
  pc \in {"close", "exit"} /\ runErr = "none" =>
    /\ Idle
    /\ server \in {"none", "closed"}
    /\ \A g \in Runner!Loops : ~Runner!Alive(g)

(* A request in flight finds the clients open and, where this process runs *)
(* the workers, a runner that accepts jobs; only the deadline of the       *)
(* shutdown takes them away under it.                                      *)
RequestsKeepResources ==
  ~Idle /\ ~late => clients = "open" /\ (RunsWorkers(mode) => running)

(* A signal ends the process within its deadline, also when handlers hang. *)
ShutdownEnds == parentDone ~> pc = "down"

(* If from some time on the process serves undisturbed and handlers        *)
(* return, each update is handled: what an earlier failure, a lost answer, *)
(* a shutdown or a kill interrupted is delivered again.                    *)
Serving == pc = "select" /\ server = "open" /\ ~parentDone
UpdatesHandled ==
  HandlersReturn /\ <>[]Serving => \A u \in Updates : <>(u \in handled)
=============================================================================
