----------------------------- MODULE JobService -----------------------------
(***************************************************************************)
(* What a module that submits jobs may rely on, whoever starts and stops   *)
(* the runner: a job is refused or accepted, an accepted job waits in a    *)
(* bounded queue, jobs are taken in the order they were accepted, and each *)
(* is handled or dropped at most once.  JobRunner implements it.           *)
(***************************************************************************)
EXTENDS Naturals, Sequences

CONSTANTS Jobs, Buffer

VARIABLES status, waiting

vars == <<status, waiting>>

Statuses == {"new", "refused", "waiting", "taken", "handled", "dropped"}

Init ==
  /\ status = [j \in Jobs |-> "new"]
  /\ waiting = <<>>

Refuse(j) ==
  /\ status[j] = "new"
  /\ status' = [status EXCEPT ![j] = "refused"]
  /\ UNCHANGED waiting

Accept(j) ==
  /\ status[j] = "new"
  /\ Len(waiting) < Buffer
  /\ status' = [status EXCEPT ![j] = "waiting"]
  /\ waiting' = Append(waiting, j)

Take ==
  /\ waiting # <<>>
  /\ status[Head(waiting)] = "waiting"
  /\ status' = [status EXCEPT ![Head(waiting)] = "taken"]
  /\ waiting' = Tail(waiting)

Settle(j) ==
  /\ status[j] = "taken"
  /\ \E end \in {"handled", "dropped"} : status' = [status EXCEPT ![j] = end]
  /\ UNCHANGED waiting

Next == Take \/ \E j \in Jobs : Refuse(j) \/ Accept(j) \/ Settle(j)

Spec == Init /\ [][Next]_vars
=============================================================================
