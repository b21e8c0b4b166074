# Verification of the bots platform

TLA+ models of the platform in `src/`, the TLC instances that check them, and
theorems about them that TLAPS proves. Everything is translated from the Go
code; file names below are relative to `src/`, and `W/` stands for
`internal/bots/modules/workbot/`.

To run: `tlc -workers 2 -config X.cfg M` for a configuration `X.cfg` of the MC
module `M` that `PROJECT.json` lists under `runs`; `tlapm MProofs.tla` for the
proofs.

## 1. The system and its parts

One Go process takes Telegram webhooks, serves an operators' panel and runs
background work; everything it remembers is in Redis. No Redis command sequence
in it is a transaction: `rdb.Pipeline()` sends commands together, and a record
is read with GET, changed in Go and written back with SET.

| part | state | operations | what makes it correct |
|---|---|---|---|
| vacancy board (`W/vacancy.go`, `W/handlers.go`, panel) | vacancy records, one hash of applicants per vacancy, a set of vacancies per user, the index of active vacancies, apply locks with a 30 s TTL | CreateVacancy, Apply, AcceptApplication, RejectApplication, CancelApply, CloseVacancy, list | index and record agree; a filled vacancy has answered everyone; places are never booked twice over; accepted workers are counted; the limit on live applications |
| vacancy expirer (`W/expirer.go`) | none of its own; a 5 minute ticker | close what has started | a started vacancy leaves the board, also when reopened later |
| profiles and registration (`W/handlers.go`, `W/state.go`, `W/module.go`) | one profile record per worker with the state of the dialogue; `workers:all`; one set of workers per city | one handler per kind of update; RegisterUser; DeleteWorker | a registered worker is where vacancies are announced; the dialogue can always be finished |
| background jobs (`internal/jobs/runner.go`) | `running`, context, queue, handlers, WaitGroup | Start, Submit, RegisterHandler, Stop, loop | an accepted job is in one place and settled once; Stop waits for its loop |
| application life cycle (`internal/app/app.go`, `cmd/server`, `internal/httpserver`) | goroutines of one process, the shutdown deadline | boot, signal, drain, stop, close, exit | ends within the deadline; a clean exit leaves nothing behind; requests keep what they use |
| webhook router and module registry (`internal/bots`) | two maps built at start-up | dispatch | an update is answered 200 only after its handler has succeeded |
| panel: foremen and their sessions, notifications of operators, support chat (`internal/admin`, `W/admin_notifications.go`, `W/chat.go`) | foreman records and their listing, sessions with a 24 h TTL, a capped list per operator and per chat, a read mark per operator | log in and out, create and delete foremen, save from the webhook handler, list, count, mark as read, reply | what happened reaches its list; a list is its newest entries; the count of unread ones can be brought to 0 |
| registry loader, `botsctl` and the deploy workflow (`internal/registry`, `cmd/botsctl`, `.github/workflows/deploy.yml`) | catalog, lock file and snapshots in the repository and in the image; runs of the workflow | commit, dispatch, sync, push, deploy, load | the lock tells what is loaded; a sync touches its own bot alone and breaks no platform that starts; one that does not start is explained by catalog and lock |
| geocoder, Telegram client, HTTP, Redis and Postgres clients, configuration, logging, metrics, keyboards, texts, echo module | none that lasts | | |

How they interact: webhook goroutines, panel goroutines and the expirer all
work on the board's keys; deliveries of one worker's updates overlap on one
profile; the panel deletes a worker under a handler that has read it; Telegram
sends an update again until it reads a 200, so a handler that did half its work
runs again from the start; the context of the process ends the job loop and the
expirer at once, while the HTTP server is drained only afterwards.

A bot comes into the platform from outside the process: its repository
dispatches a version, a run of the deploy workflow copies and pins it, and the
image built from that is what the process loads at its next start.

Hard to test are therefore: two requests between each other's commands; a
pipeline cut short; a record that is stale when written or an operator's page
that is stale when posted; a second delivery of what was already done; orders of
accept, cancel, close and expiry that nobody tried; the runner started again
while an old loop lives; a deadline shared by two waits; a handler killed
between its effect and the notice of it; a workflow run on a commit that others
have left behind. `PROJECT.json` lists
each at its line under `hazards`, with the properties that watch it.

## 2. The modules

    VacancyData --- VacancyBoard --- VacancyBoardProofs --- FiniteFolds (INSTANCE)
               \         ^ implements (RedisSerial)
                `--- VacancyRedis --- VacancyRedisProofs --- FiniteFolds (INSTANCE)
    JobService <- implements - JobRunner --- JobRunnerProofs
                                   ^ INSTANCE (its steps)
                               AppLifecycle --- AppLifecycleProofs
    Registration --- RegistrationProofs
    RecentLog <- implements - OperatorPanel --- OperatorPanelProofs
    RegistrySync --- RegistrySyncProofs

**VacancyData**: the records, and what the Go code computes on a record between
reading and writing it (`Granted`, `AfterAccept`, `AfterCancel`, `AfterClose`).
Addresses, rates, dates and texts are left out; an id is a model value.

**VacancyBoard**: the board when requests come one at a time. An action is a
whole request: `CancelMyJob`, for one, is the removal of the record, the new
counts and status, the index, *and* the list of jobs that the handler shows
afterwards, which refills an emptied set of the user. It is the abstract
specification of the board.

**VacancyRedis**: the same nine operations as sequences of Redis commands, any
number of them at once, each able to stop between two commands. `req[p]` holds
what the goroutine has read and what it still has to write. An error ends the
request (`Fail`), except where the code passes over it (`PassOver`): an accept
that cannot read the applicants turns nobody away, and the refill and the expirer
go on to the next vacancy.

**JobService / JobRunner**: what a submitter may rely on, and the runner that
gives it. A section under `Runner.mu` is one step, a channel operation is one
step; the loop reads `r.ctx` without the mutex.

**Registration**: one worker's dialogue. The first read of the profile and the
arrival of the update are one step, each later Redis command is one. Of the
answers only the city is kept. A request that fails is delivered again; the saves
of `handleStart` whose error is ignored are answered 200 (`SaveIgnored`). A worker
may be deleted from an old page, listed or not.

**AppLifecycle**: the main goroutine of `app.Run` from boot to exit and its
restart, in the three modes, with the server, the webhook requests in flight and
the expirer; the runner's steps are those of JobRunner, by INSTANCE.

**RecentLog / OperatorPanel**: who works in the panel and what reaches them. The
abstract list changes only by a new entry at the front of its newest `Cap`;
OperatorPanel has the LPUSH and LTRIM of overlapping requests, from a cancelled
application (`handleCancelMyJob` with GetVacancy, CancelApply as one step, the
chat ID, the goroutine of the message, the notification, the answer), from a
worker's chat message and from an operator's reply, with errors, lost answers,
kills and redelivery. `log` is both kinds of list, `mark` the time of the last
reading, `clock` counts entries stamped.

**RegistrySync**: the platform's repository as one tree per branch, of catalog,
snapshots and lock; the runs of the workflow, each with a checkout of its own;
the workflow's look at the catalog and its comparison of the repositories;
`sync-bot` with the removal of the old snapshot, one copied file per step and the
lock; `git add`, which leaves out what `.gitignore` matches and the branch did not
track before (`Committed`), and the push; the deployment of any branch; `Load` at
the start of the process, with its tests of the catalog, the manifests and the
lock. Beside the runs people commit: they add, change, break or remove any
entry of the catalog, write snapshots and lock entries under SHAs they made up where no
version is pinned (as the repository's first tree has them), and merge or revert.
That a new event takes the place of a waiting run, and that a push which is no
fast-forward is refused, is GitHub's and git's part, modelled from how the
workflow uses them.

Operators marked `\* mutant` next to a definition are plausible bugs of the code
it models; each property is violated under one of them.

## 3. What the runs check

| run | instance | shows |
|---|---|---|
| BoardSlots | 1 vacancy of 1 or 2 places, 3 workers, stale pages, deletion, expirer | `ActiveIndex`, `FilledSettled`, `OverbookingBounded`, `SlotsCoverAccepted`, `ListedHaveRecords`, `AcceptedKept`; `StartedLeavesBoard` (liveness) |
| BoardLimit | 2 vacancies, 2 workers, limit 1, fresh pages, no deletion | `LiveWithinLimit` |
| RedisCommands | 2 requests at once, stale pages, failures and errors passed over, 1 vacancy of 2 places | `OverbookingBounded` and `ApplyMutex` for commands |
| RedisApply | 3 requests at once, failures and errors passed over, deletion, the expirer, no cancellation | `ApplyWritesFirst`: HEXISTS and SETNX together never let Apply overwrite a record |
| RedisSerial | 1 request at a time, all nine operations | `ImplementsBoard`: the command sequences implement VacancyBoard |
| JobRunner | 2 jobs, 2 Stops, 2 Starts, a queue of 1 | `OnePlace`, `StoppedLoopIsOver`, `OverlapNeedsOpenStop`, `ImplementsService`; `StopTerminates`, `AcceptedIsSettled` (liveness) |
| Registration | 1 request at a time, all kinds of updates, 2 cities, 1 deletion, 1 failure | `RegisteredIsListed`, `KnowsCity`; `PatientGetsListed` (liveness) |
| AppLifecycle | 2 updates, 2 boots, 2 failures, all modes | `CleanExit`, `RequestsKeepResources`; `ShutdownEnds`, `UpdatesHandled` (liveness) |
| OperatorPanel | 2 requests at once, 1 foreman, 1 cancellation, 1 chat with a message and a reply, a list of 2, 1 failure | `HandledIsRecorded`: nothing sent is lost before its list unless an error was passed over; `ImplementsRecentLog`; `BadgeClears` (liveness) |
| RegistrySync | 2 runs, 2 branches, 2 bots of 2 repositories, 3 versions of which one cannot run and has a file git ignores, 1 snapshot made by hand, 3 events, 1 commit of people | `PinFollowsCopy`, `SyncKeepsOthers`, `SyncKeepsLoading`, `OutageIsInLock` |

Two runs end in a violation: the program disagrees with what it says of itself.

- **BoardLockout**: closing a vacancy leaves it in its applicants' sets, whose
  size Apply compares with the limit, while "Мои записи" hides it. A worker is
  told to cancel one of the applications there and sees none
  (`W/texts.go:71`, `W/vacancy.go:166`).
- **RedisLostAccept**: two accepts at once read the same SlotsFilled and one
  increment is lost (`W/vacancy.go:235`).

### Bounds, and why they are enough

A vacancy's records are touched by requests about that vacancy only, except for
the user's set; one vacancy with three workers therefore has every pattern of
one accepted, one displaced and one late applicant, and two vacancies under a
limit of one have the limit reached. Places: 1 and 2 tell a vacancy filled by one accept from
one filled by two, and with 2 an application for several places can overshoot.
Concurrency: a lost update or a broken check needs two requests; `ApplyWritesFirst` takes three
(two deliveries of one Apply and whoever releases the lock or empties the set).
The queue of one is full after one job; two Starts are needed for two loops. Two
cities are an old and a new one; one failure is enough to cut any command
sequence at any place, and one deletion meets every step of the dialogue. Two
boots are one restart. A list of two entries is cut by the third, which a chat
gets from a message, its redelivery and a reply; a redelivered cancellation is
as a second press of its button (`MaxSends` is 1). Two runs of the workflow are
one at work and one waiting or just begun, and a third event replaces the one that
waits; of the two repositories one is not the bot's; one commit of people, anywhere in
a run or between two, is enough to leave the run behind, to break what is deployed
next or to repair it. `MaxStarts`, `MaxBoots`, `MaxFailures`, `MaxEntries`,
`MaxSends`, `MaxDeletions`, `MaxEvents` and `MaxCommits`
bound counters the code does not have; the theorems of section 5 do without most
of these bounds.

`CHECK_DEADLOCK FALSE` stands where the instance may stop: jobs all settled and
starts used up, a worker who sends nothing more, a process not booted again.

### Assumptions about time

An apply lock expires after 30 s by itself, and a request is assumed to take less
than half of that: an Apply that looked for a record before the taker of the
lock was done is over before the lock is (`LockExpires` in VacancyRedis). A
request slower than that could overwrite a record; the code does not exclude it.
In Registration the 14 days between two changes of the city do not end in the
middle of a request.

### Fairness

- VacancyBoard: weak fairness of the expirer, whose ticker runs as long as the
  process does. Nobody is obliged to send a request.
- JobRunner: goroutines that can run do, and handlers return (`WF` of each
  loop's step and of Stop's). No call and no deadline is obliged to come, so
  `StopTerminates` does not lean on the deadline.
- Registration: handlers finish (`WF`), Telegram delivers again what was not
  answered with 200, and a *patient* worker goes on answering and is in the end
  understood (`SF` of Interpret: not every text is refused for ever).
- AppLifecycle: goroutines run, the shutdown deadline passes, Telegram sends what
  it has. Handlers are *not* assumed to return, so `ShutdownEnds` leans on the
  deadline as the code does; only `UpdatesHandled` has it as a hypothesis.
- OperatorPanel: handlers run, Telegram delivers again what was not answered, and
  an operator who may logs in and goes on opening the list (`WF` of DoLogin, `SF`
  of ListNotifications, since a session may end each time): `BadgeClears` is about
  an operator who looks.

## 4. What the code does beyond the properties

Seen while modelling; in the models, and not claimed as wrong unless the
repository says so.

- The apply lock outlives the application: after a cancellation within 30 s a new
  application meets the old lock.
- AcceptApplication compares before it adds: an application for several places
  overshoots, by less than a whole vacancy (`OverbookingBounded`). From a stale
  page a rejected worker can be accepted, and one counted before is counted
  twice, so SlotsFilled may be too high; serially it is never too low.
- The refill of a user's empty set takes rejected applications in.
- Two Applies of one worker for two vacancies at once both pass the limit; after
  DeleteWorker the records remain and a returning worker may exceed it.
- An Apply between an accept's two reads may be left pending on a filled vacancy,
  and an applicant accepted there meanwhile may be rejected again.
- The 14 days are asked only by answer 5 of the edit menu: an unasked location,
  or editing the name, changes the city earlier (`W/texts.go:74` promises
  otherwise).
- AcceptApplication does not look at the status: a pending application of a closed
  vacancy can be accepted, which marks the vacancy filled; a cancellation then
  makes it active, although CancelApply spares closed ones (`W/vacancy.go:357`).
- Registering in a new city leaves the worker in the old city's set.
- An unasked location can complete a profile that has no name; an old confirm
  button registers the empty profile of a deleted worker; a handler that read a
  profile before DeleteWorker writes it back.
- After a signal the job loop ends at once while Submit still accepts jobs during
  the HTTP drain; nobody waits for the expirer before the Redis client is closed.
- The panel marks as read with a time taken after the list was read, and when
  reading it failed: a notification saved in between is marked unseen. A slow page
  may write an older mark over a newer one (`BadgeClears` shows that it passes).
- When reading the vacancy fails, a cancellation goes through without a
  notification and is answered 200; a worker's message is saved twice when only
  its acknowledgement failed.
- The message to the operator (`W/handlers.go:609`, "Telegram-алерт") is sent by a
  goroutine with the context of the request, which is over as soon as the handler
  returns: it normally does not get out (`SendAlert`, `Answer`). The entry in the
  panel's list is saved before.
- A session is a copy of the foreman and outlives the record for up to 24 hours.
  Two foremen may be created with one login; FindForemanByLogin then finds either.
- A vacancy is created before it is put into its foreman's index, so a failure
  between the two leaves it out of the foreman's list (`internal/admin/store.go:246`).
- A workflow run that waits is dropped when another event comes, and a run whose
  push is refused is not repeated: the dispatched version is then not deployed
  until its bot dispatches again. A `workflow_dispatch` made during a sync deploys
  the tree from before it.
- Registering a bot in the catalog deploys a tree that does not load until the
  first sync of the bot, and one bot that does not load keeps all down
  (`internal/registry/loader.go:60`); the lock is the only trace of which.
- A file of a bot's version that the platform's `.gitignore` or one in the snapshot
  matches (`bin/`, `dist/`, `tmp/`, `*.pyc`, ...) is missing from `main` and the
  image although the lock names the version (`.github/workflows/deploy.yml:149`).
- Changing the `repo` of a bot in `config/bots.yml`, or removing one that is in the
  lock, keeps the whole platform down until the lock is changed with it
  (`internal/registry/loader.go:80`, `:96`).
- `workflow_dispatch` on another branch deploys that branch's tree, at the same time
  as a run on `main` (`.github/workflows/deploy.yml:19`, `:163`).
- The SHA in the lock is compared with nothing, and the time of the sync in it
  makes the test for "nothing changed" (`.github/workflows/deploy.yml:142`) fail always.
- `botsctl validate` knows the echo module only and refuses the repository's own
  workbot manifest, which the server accepts.

## 5. What is proved

All for every value of the constants, under the named assumptions
on them (slots are positive, the set of vacancies is finite, the queue has room
for at least one job, `NoCity` is no city, no run has synced a bot into the first tree of the registry;
each is evaluated by TLC too).

**VacancyBoardProofs.** `BoardTypes`, `ActiveIndexAgrees`, `FilledIsSettled` and
`OverbookingIsBounded` come from one inductive invariant,
`BoardInv == TypeOK /\ CountsFit /\ OverbookingBounded /\ FilledSettled /\ ActiveIndex`.
`CountsFit` (an application asks for at most the vacancy's places) is what an
accept needs to overshoot by less than a vacancy; `FilledSettled` needs the
bound so that a cancellation of a filled vacancy is known to leave it active.
`LimitHolds` (with fresh pages and no deletion nobody exceeds the limit) rests on
`LimitInv == TypeOK /\ LiveListed /\ LiveWithinLimit`: every live application is
in the set Apply counts, so the refill never has to invent one. `ListedAreReal` (a
worker's set names only vacancies with a record of the worker) needs of `BoardInv`
only the types.
`AcceptedStays` is the action property that a request about one applicant leaves
the accepted records of the others. `SlotsAreCovered` (SlotsFilled never forgets
an accepted worker) is about a *sum* over a set of workers: `SlotInv` says of every
vacancy that its accepted workers are finitely many and their places at most
SlotsFilled, and each action changes the sum by at most one record.

**FiniteFolds.** The theory of the community modules' folds that sums need: what
a fold of the empty set is, of a set with one element more or less, of one whose
values are the same. Induction over a finite set is done with a smallest
counterexample, and a proof module takes the theory by INSTANCE with operators of
its own (`Places` in VacancyBoardProofs: the places of an applicant; `Pipe` in
VacancyRedisProofs: the commands of a pipeline, run in their order).

**JobRunnerProofs.** `RunnerTypes`; `StopWaitsForItsLoop` and
`OverlapOnlyUnderOpenStop` from `StopInv` (which Stop stands for which earlier
context) with `LoopsStarted` (which loops exist); `JobsInOnePlace` from the
split of `OnePlace` into `Queued` and `Held`; `ServiceImplemented`, the
refinement, from those and the mapping `Status`: each step of the runner is a
step of JobService or leaves what a submitter sees unchanged.

**RegistrationProofs.** `RegistrationTypes`, and `NoUpdateUnlists`: without
deletion and failing requests, any number of overlapping updates of any kinds
leaves a registered worker listed or a confirmation under way. `RegisteredIsListed`
is not inductive, since a handler that read a registered profile may write it back
later; `ListInv` says that *every* profile a request carries is listed when it is
registered, or about to be listed by a request that still runs. `CityIsKnown`:
with failures and redeliveries, but one request at a time and until a deletion,
nobody is registered without a city. `CityInv` says that the stored profile has a
city once the buttons of the summary are out, and that what a request carries to
its save has one if the stored profile has. With two requests this is false: a
handler that read the profile before the city was given writes it back without.
`FailuresUnlistNobody`: one request at a time, any command of it may fail, any
update come again, and the worker be deleted, and still a registered worker is
listed, or a confirmation is on its way or will
come again (`SerialInv`: whoever saves a newly registered profile is about to list it,
and whoever takes someone from the lists has erased the profile before).

**AppLifecycleProofs.** `LifeTypes`, `CleanExits` and `ResourcesKept` from
`LifeInv`: next to the types it places the other goroutines relative to the main
one (`Place`, `RunnerPlace`): the clients are open from boot to the deferred calls, a
listener is there only before the drain, nothing is in flight after it unless the
deadline is its error, and the runner runs from the start of the server to the
end of the drain. Nothing submits jobs to it, so its one loop never holds any;
`RunnerStarts`, `LoopMoves` and `StopMoves` say what its steps do here.

**VacancyRedisProofs.** For any number of overlapping requests that may fail and
be cut anywhere. `Typed` needs that what a request holds between two commands,
its list of commands still to send included, is well typed and that no command
in it makes SlotsFilled negative. `MutualExclusion` rests on "whoever is past the
lock owns it": a taken lock belongs to one request, and it expires only when that
request is over (the assumption above about time). `NoRecordOverwritten`, for
instances without cancellation, adds that a request before SETNX which found no
record can only meet a new one if another request has taken the lock since.
`OverbookingStaysBounded` (a vacancy is never booked to twice its places, whatever
overlaps) needs `BookInv`: each vacancy that a request has read, or has in a list to
write, is below twice its places and has the number of places of the stored one,
however old it is, and each application in someone's hands asks for no more than the vacancy has; a new vacancy is
in the hands of its creator alone until it is stored.

`SerialImplementsBoard` is the refinement: one request at a time and no failures,
VacancyRedis implements VacancyBoard, for any vacancies, users, places and
operations. The mapping shows the abstract board the data with the rest of the running
request done in advance (`Settled`), so a request takes effect at its last read and
each later command is a stutter. Three layers carry the proof:
- *Pipelines.* `RunAll` is a fold; `Ran(d, s, n)` is the data after the first n
  commands, from which come what a pipeline's head, its concatenation with another and
  the loop that turns the rejected away do (`RunAllHead`, `RunAllConcat`, `TurnedAwayRun`).
- *The invariant* `SerialInv`: `Course` says which steps an operation can be at and
  with what in hand; `Reading` that what the request has read is still so, since nobody
  else runs; `Filed` that every application is to an existing vacancy and every
  vacancy is in the list of all, which the refill and the lists of jobs rest on.
- *The steps.* One lemma per operation says that its last read is the action of
  VacancyBoard (`WritesApplication`, `AcceptsLast`, `WritesCancellation`, `Refills`,
  `ExpiresDue`, ...), and that its other commands leave `Settled` as it is (`SendShows`).

The proof changed the model in one place: `ToRefill` and `ToClose` had CASE branches
that overlapped, and which of them such a CASE takes is unspecified; the branches are
disjoint now and the values TLC computes the same.

**OperatorPanelProofs.** `Typed` with `RoomKept` (each request that is to stamp
an entry has its room below `MaxEntries`). `NothingForgotten` from `RecordInv`:
a request may forget its update at the end only because by then the update is
saved, or an error was passed over (`Accounted`). `KeepsTheNewest`, the
refinement: a push is an Add of RecentLog, by `FirstOfPushed` (what lies beyond
`Cap` never reaches the front), and a trim is hidden, by `FirstOfFirst`.

**RegistrySyncProofs.** `PinsAreTrue`, `SyncIsLocal`, `SyncKeepsPlatformUp` and
`OutagesAreExplained` from one invariant on trees: in every branch, the image and
every checkout a snapshot pinned to a version has all of its files that git does
not ignore and no file of another, except for the one bot a run is copying, of
which it says which files are still to come; and a checkout that is not behind
differs from `main` in its own bot alone. Of the first tree it needs only that no
version is pinned there yet (`FirstAssumption`): placeholder SHAs and snapshots made by
hand, as the repository has them, are allowed, and `PinsAreTrue` says nothing of
them. What git ignores is a constant of each version (`IgnoredOf`), from the
platform's `.gitignore` and those in the snapshot; an ignored file that was tracked
before is committed nevertheless, so the pin says nothing about ignored files. A
version can start (`Starts`) when its manifest passes and is not itself ignored.

**Only model-checked.** Liveness (`StartedLeavesBoard`, `StopTerminates`,
`AcceptedIsSettled`, `PatientGetsListed`, `ShutdownEnds`, `UpdatesHandled`,
`BadgeClears`): proofs of liveness under fairness are out of the prover's reach.
`RegisteredIsListed` is proved for overlapping requests without failures and for
failures without overlap; with both at once the run does not claim it either.

## 6. What is not modelled

The panel's pages, keyboards and texts, the geocoder, Telegram and
infrastructure clients, metrics, configuration, logging and the echo module keep
no state that outlives a call; where their outcome
matters it is a choice in a model (the geocoder answers or fails; a boot fails).
Of the panel: which pages a role may open, several sessions of one operator, the
index of a foreman's vacancies, and messages to workers from the pages of a
vacancy. Of the deploy workflow: tests, the build and the registration of
webhooks; an image brought back by hand on the server; people who edit a snapshot
whose version is pinned, or change `.gitignore`; a lock with an entry twice or
without a slug, which no command of the repository writes. Redis itself is taken as it is used: atomic commands, no loss of data; its
eviction policy (`docker-compose.yml`, allkeys-lru) is left out.

## 7. Plan

Done, in order of importance: the board as requests, then as commands, then its
refinement and proofs; the job runner with its service; registration; the life
cycle; the panel with its lists; the way of a bot into the platform. Left:

1. More of registration: which answers a profile has, and when it is complete.
2. Concurrent applications of one worker to several vacancies, and a bound on how
   far they overshoot the limit.
