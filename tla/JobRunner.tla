------------------------------ MODULE JobRunner ------------------------------
(***************************************************************************)
(* The background job runner (internal/jobs/runner.go): Start, Stop,       *)
(* Submit and RegisterHandler called from any goroutine, and the loops     *)
(* that Start spawns.  A section under Runner.mu is one step; between two  *)
(* sections, and at every channel operation, other goroutines run.         *)
(*                                                                         *)
(* The loop reads Runner.ctx without the mutex while Start writes it (a    *)
(* data race): it sees the context of the moment it reads, which after a   *)
(* restart is the new one.  Two contexts have the same dynamic type, so a  *)
(* torn interface value is one of the two; a read that returns the older   *)
(* one is LoopTop taken before Start, since nothing comes in between.      *)
(*                                                                         *)
(* Abstractions: a job stands for its name and payload; log lines and      *)
(* EnqueuedAt are left out.                                                *)
(***************************************************************************)
EXTENDS Naturals, Sequences

CONSTANTS
  Jobs,        \* the jobs submitted, each once
  Stops,       \* the calls of Stop
  Buffer,      \* capacity of the queue
  MaxStarts    \* bound on the calls of Start that find the runner stopped

ASSUME BufferAssumption == Buffer \in Nat \ {0}     \* buffer <= 0 becomes 32
ASSUME StartsAssumption == MaxStarts \in Nat

VARIABLES
  running,     \* Runner.running
  ctx,         \* Runner.ctx: contexts are numbered, 0 is nil
  cancelled,   \* the contexts whose cancel function was called
  parentDone,  \* the context passed to Start is done
  handlers,    \* the jobs for whose name a handler is registered
  queue,       \* Runner.queue
  loop,        \* loop[g]: the goroutine the g-th Start spawned
  stop,        \* stop[s]: how far a call of Stop is, and the context it cancels
  fate         \* fate[j]: how far the call of Submit and then the job itself is

vars == <<running, ctx, cancelled, parentDone, handlers, queue, loop, stop, fate>>

Loops == 1 .. MaxStarts
NoJob == "no job"
Loop(at, on, job) == [at |-> at, on |-> on, job |-> job]

Init ==
  /\ running = FALSE
  /\ ctx = 0
  /\ cancelled = {}
  /\ parentDone = FALSE
  /\ handlers = {}
  /\ queue = <<>>
  /\ loop = [g \in Loops |-> Loop("none", 0, NoJob)]
  /\ stop = [s \in Stops |-> [at |-> "new", ctx |-> 0]]
  /\ fate = [j \in Jobs |-> "new"]

Done(c) == c \in cancelled \/ parentDone

(* The loops Runner.wg counts. *)
Alive(g) == loop[g].at \notin {"none", "done"}

-----------------------------------------------------------------------------
StartUnchecked ==                                                 \* mutant
  /\ ctx < MaxStarts
  /\ running' = TRUE
  /\ ctx' = ctx + 1
  /\ loop' = [loop EXCEPT ![ctx + 1] = Loop("top", 0, NoJob)]
  /\ UNCHANGED <<cancelled, parentDone, handlers, queue, stop, fate>>

Start ==
  /\ ~running
  /\ ctx < MaxStarts
  /\ running' = TRUE
  /\ ctx' = ctx + 1
  /\ loop' = [loop EXCEPT ![ctx + 1] = Loop("top", 0, NoJob)]
  /\ UNCHANGED <<cancelled, parentDone, handlers, queue, stop, fate>>

RegisterHandler(j) ==
  /\ j \notin handlers
  /\ handlers' = handlers \cup {j}
  /\ UNCHANGED <<running, ctx, cancelled, parentDone, queue, loop, stop, fate>>

(* Submit: look at running, then wait for room or for the caller's context.*)
SubmitCheck(j) ==
  /\ fate[j] = "new"
  /\ fate' = [fate EXCEPT ![j] = IF running THEN "sending" ELSE "refused"]
  /\ UNCHANGED <<running, ctx, cancelled, parentDone, handlers, queue, loop, stop>>

RoomForOneMore(q) == Len(q) <= Buffer                             \* mutant
HasRoom(q) == Len(q) < Buffer

SubmitSend(j) ==
  /\ fate[j] = "sending"
  /\ HasRoom(queue)
  /\ queue' = Append(queue, j)
  /\ fate' = [fate EXCEPT ![j] = "waiting"]
  /\ UNCHANGED <<running, ctx, cancelled, parentDone, handlers, loop, stop>>

SubmitExpires(j) ==
  /\ fate[j] = "sending"
  /\ fate' = [fate EXCEPT ![j] = "expired"]
  /\ UNCHANGED <<running, ctx, cancelled, parentDone, handlers, queue, loop, stop>>

-----------------------------------------------------------------------------
(* Stop: mark as stopped, cancel the loop's context, wait for Runner.wg or *)
(* for the caller's context.  A Stop that finds nothing running returns.   *)
StopBegin(s) ==
  /\ stop[s].at = "new"
  /\ stop' = [stop EXCEPT ![s] = IF running THEN [at |-> "cancel", ctx |-> ctx]
                                 ELSE [at |-> "nothing", ctx |-> 0]]
  /\ running' = FALSE
  /\ UNCHANGED <<ctx, cancelled, parentDone, handlers, queue, loop, fate>>

StopForgets(s) ==                                                 \* mutant
  /\ stop[s].at = "cancel"
  /\ stop' = [stop EXCEPT ![s].at = "wait"]
  /\ UNCHANGED <<running, ctx, cancelled, parentDone, handlers, queue, loop, fate>>

StopCancel(s) ==
  /\ stop[s].at = "cancel"
  /\ cancelled' = cancelled \cup {stop[s].ctx}
  /\ stop' = [stop EXCEPT ![s].at = "wait"]
  /\ UNCHANGED <<running, ctx, parentDone, handlers, queue, loop, fate>>

OthersOver(s) == \A g \in Loops : g # stop[s].ctx => ~Alive(g)    \* mutant
AllOver(s) == \A g \in Loops : ~Alive(g)

StopReturns(s) ==
  /\ stop[s].at = "wait"
  /\ AllOver(s)
  /\ stop' = [stop EXCEPT ![s].at = "stopped"]
  /\ UNCHANGED <<running, ctx, cancelled, parentDone, handlers, queue, loop, fate>>

StopExpires(s) ==
  /\ stop[s].at = "wait"
  /\ stop' = [stop EXCEPT ![s].at = "expired"]
  /\ UNCHANGED <<running, ctx, cancelled, parentDone, handlers, queue, loop, fate>>

ParentDone ==
  /\ ~parentDone
  /\ parentDone' = TRUE
  /\ UNCHANGED <<running, ctx, cancelled, handlers, queue, loop, stop, fate>>

-----------------------------------------------------------------------------
(* The loop.  Entering its select it evaluates Runner.ctx; of two ready    *)
(* cases select takes either.                                              *)
LoopTop(g) ==
  /\ loop[g].at = "top"
  /\ loop' = [loop EXCEPT ![g] = Loop("select", ctx, NoJob)]
  /\ UNCHANGED <<running, ctx, cancelled, parentDone, handlers, queue, stop, fate>>

LoopExit(g) ==
  /\ loop[g].at = "select"
  /\ Done(loop[g].on)
  /\ loop' = [loop EXCEPT ![g] = Loop("done", 0, NoJob)]
  /\ UNCHANGED <<running, ctx, cancelled, parentDone, handlers, queue, stop, fate>>

LoopTake(g) ==
  /\ loop[g].at = "select"
  /\ queue # <<>>
  /\ queue' = Tail(queue)
  /\ loop' = [loop EXCEPT ![g] = Loop("job", 0, Head(queue))]
  /\ fate' = [fate EXCEPT ![Head(queue)] = "taken"]
  /\ UNCHANGED <<running, ctx, cancelled, parentDone, handlers, stop>>

UnknownEndsLoop(g) ==                                             \* mutant
  LET j == loop[g].job
  IN  /\ loop[g].at = "job"
      /\ IF j \in handlers
         THEN loop' = [loop EXCEPT ![g].at = "handler"] /\ UNCHANGED fate
         ELSE /\ loop' = [loop EXCEPT ![g] = Loop("done", 0, NoJob)]
              /\ fate' = [fate EXCEPT ![j] = "dropped"]
      /\ UNCHANGED <<running, ctx, cancelled, parentDone, handlers, queue, stop>>

CancelledDiscards(g) ==                                           \* mutant
  LET j == loop[g].job
  IN  /\ loop[g].at = "job"
      /\ IF Done(ctx)
         THEN loop' = [loop EXCEPT ![g] = Loop("top", 0, NoJob)] /\ UNCHANGED fate
         ELSE IF j \in handlers
         THEN loop' = [loop EXCEPT ![g].at = "handler"] /\ UNCHANGED fate
         ELSE /\ loop' = [loop EXCEPT ![g] = Loop("top", 0, NoJob)]
              /\ fate' = [fate EXCEPT ![j] = "dropped"]
      /\ UNCHANGED <<running, ctx, cancelled, parentDone, handlers, queue, stop>>

UnknownWaitsAgain(g) ==                                           \* mutant
  LET j == loop[g].job
  IN  /\ loop[g].at = "job"
      /\ IF j \in handlers
         THEN loop' = [loop EXCEPT ![g].at = "handler"] /\ UNCHANGED <<queue, fate>>
         ELSE /\ loop' = [loop EXCEPT ![g] = Loop("top", 0, NoJob)]
              /\ HasRoom(queue)
              /\ queue' = Append(queue, j)
              /\ fate' = [fate EXCEPT ![j] = "waiting"]
      /\ UNCHANGED <<running, ctx, cancelled, parentDone, handlers, stop>>

(* handleJob looks the handler up under the mutex and calls it outside: a  *)
(* job without one is dropped.                                             *)
HandleJob(g) ==
  LET j == loop[g].job
  IN  /\ loop[g].at = "job"
      /\ IF j \in handlers
         THEN loop' = [loop EXCEPT ![g].at = "handler"] /\ UNCHANGED fate
         ELSE /\ loop' = [loop EXCEPT ![g] = Loop("top", 0, NoJob)]
              /\ fate' = [fate EXCEPT ![j] = "dropped"]
      /\ UNCHANGED <<running, ctx, cancelled, parentDone, handlers, queue, stop>>

(* The handler returns, with an error or without: it is not called again.  *)
HandlerReturns(g) ==
  /\ loop[g].at = "handler"
  /\ fate' = [fate EXCEPT ![loop[g].job] = "handled"]
  /\ loop' = [loop EXCEPT ![g] = Loop("top", 0, NoJob)]
  /\ UNCHANGED <<running, ctx, cancelled, parentDone, handlers, queue, stop>>

LoopStep(g) ==
  LoopTop(g) \/ LoopExit(g) \/ LoopTake(g) \/ HandleJob(g) \/ HandlerReturns(g)

Next ==
  \/ Start \/ ParentDone
  \/ \E j \in Jobs :
       RegisterHandler(j) \/ SubmitCheck(j) \/ SubmitSend(j) \/ SubmitExpires(j)
  \/ \E s \in Stops : StopBegin(s) \/ StopCancel(s) \/ StopReturns(s) \/ StopExpires(s)
  \/ \E g \in Loops : LoopStep(g)

Spec == Init /\ [][Next]_vars

(* Goroutines that can run do run, and handlers return.  Nobody is obliged *)
(* to call anything, and no deadline is obliged to pass.                   *)
FairSpec ==
  /\ Spec
  /\ \A g \in Loops : WF_vars(LoopStep(g))
  /\ \A s \in Stops : WF_vars(StopCancel(s)) /\ WF_vars(StopReturns(s))
-----------------------------------------------------------------------------
(* Every variable has its type, and the queue never exceeds its capacity.  *)
TypeOK ==
  /\ running \in BOOLEAN /\ parentDone \in BOOLEAN
  /\ ctx \in 0 .. MaxStarts
  /\ cancelled \subseteq 0 .. MaxStarts
  /\ handlers \subseteq Jobs
  /\ queue \in Seq(Jobs) /\ Len(queue) <= Buffer
  /\ loop \in [Loops -> [at : {"none", "top", "select", "job", "handler", "done"},
                         on : 0 .. MaxStarts, job : Jobs \cup {NoJob}]]
  /\ stop \in [Stops -> [at : {"new", "nothing", "cancel", "wait", "stopped", "expired"},
                         ctx : 0 .. MaxStarts]]
  /\ fate \in [Jobs -> {"new", "refused", "sending", "expired",
                        "waiting", "taken", "handled", "dropped"}]

Holds(g, j) == loop[g].at \in {"job", "handler"} /\ loop[g].job = j

(* A job that Submit accepted is in exactly one place until it is handled  *)
(* or dropped: once in the queue, or with one loop, whatever is cancelled, *)
(* stopped and started again meanwhile.                                    *)
OnePlace ==
  \A j \in Jobs :
    /\ fate[j] = "waiting" <=> \E i \in DOMAIN queue : queue[i] = j
    /\ \A i, k \in DOMAIN queue : queue[i] = j /\ queue[k] = j => i = k
    /\ fate[j] = "taken" <=> \E g \in Loops : Holds(g, j)
    /\ \A g, h \in Loops : Holds(g, j) /\ Holds(h, j) => g = h

(* A Stop that returned nil after waiting has waited for the loop it       *)
(* cancelled: that loop never takes another job, also after a restart.     *)
StoppedLoopIsOver ==
  \A s \in Stops : stop[s].at = "stopped" => loop[stop[s].ctx].at = "done"

(* Two loops are alive side by side only while the Stop of the older one   *)
(* has not succeeded: it is still waiting or its deadline has passed.      *)
OverlapNeedsOpenStop ==
  \A g, h \in Loops :
    Alive(g) /\ Alive(h) /\ g < h =>
      \E s \in Stops : stop[s].ctx = g /\ stop[s].at \in {"cancel", "wait", "expired"}

(* The states of a job that a submitter cannot tell apart. *)
Status(f) == CASE f = "sending" -> "new" [] f = "expired" -> "refused" [] OTHER -> f
Service == INSTANCE JobService WITH
  status <- [j \in Jobs |-> Status(fate[j])], waiting <- queue

(* Who submits jobs sees a JobService: every step of the runner is a step  *)
(* of it or invisible to it.                                               *)
ImplementsService == Service!Spec

(* If the runner is not started again, Stop returns without help of its    *)
(* deadline: the loop sees the cancellation even with jobs in the queue.   *)
StopTerminates ==
  [](ctx <= 1) => \A s \in Stops : stop[s].at = "wait" ~> stop[s].at \in {"stopped", "expired"}

KeepsRunning == running /\ ~Done(ctx)

(* If from some time on the runner keeps running, every accepted job is    *)
(* handled or dropped in the end, also one accepted across a Stop.         *)
AcceptedIsSettled ==
  <>[]KeepsRunning =>
    \A j \in Jobs : fate[j] = "waiting" ~> fate[j] \in {"handled", "dropped"}
=============================================================================
