---------------------------- MODULE RegistrySync ----------------------------
(***************************************************************************)
(* How a bot gets into the platform: its repository dispatches a version,  *)
(* a run of the deploy workflow copies the snapshot and pins it in the     *)
(* lock file (botsctl sync-bot), pushes both to the platform's repository  *)
(* and deploys the image built from them, which loads the catalog, the     *)
(* lock and the snapshots when it boots.  Meanwhile people commit to main, *)
(* which is deployed by a run of its own, and to other branches, which     *)
(* they may deploy by hand.                                                *)
(*                                                                         *)
(* A tree is what a commit holds of this: the entries of the catalog, the  *)
(* files of every snapshot with the source each came from, and the lock.   *)
(* A run works on the commit its event was about, in a checkout nobody     *)
(* else sees, so its steps may be coarse: a run that fails or is killed    *)
(* anywhere leaves nothing.  A version stands for one commit of a bot's    *)
(* repository and the directory of it the catalog names; wording, the      *)
(* other fields of the manifest and the sync time are left out.            *)
(***************************************************************************)
EXTENDS Naturals

CONSTANTS
  Runs,          \* workflow runs queued or in progress at a time
  Refs, Main,    \* the branches of the platform's repository
  Bots,          \* slugs
  Repos,         \* the bots' repositories
  Versions,      \* commits of those
  Handmade,      \* snapshots written by people, under a SHA they made up
  SlugOf,        \* the slug in the manifest of each version or handmade one
  RepoOf,        \* the repository of each
  FilesOf,       \* the files of each
  IgnoredOf,     \* those that .gitignore, or one in the snapshot, excludes
  Runnable,      \* whose manifest passes Validate, module and secrets included
  First,         \* the tree at the beginning
  MaxEvents,     \* bound: dispatches and redeployments
  MaxCommits     \* bound: commits of people

Manifest == "bot.yaml"
NoPin == "no pin"
NoRepo == "no repo"
Nobody == "nobody"

Sources == Versions \cup Handmade
Names == UNION {FilesOf[v] : v \in Sources}
Snapshot(v) == FilesOf[v] \X {v}

(* An entry of the catalog; one that is not sound is there twice or fails  *)
(* validateCatalogEntry.                                                   *)
NoEntry == [repo |-> NoRepo, sound |-> FALSE]
Entries == {NoEntry} \cup [repo : Repos, sound : BOOLEAN]

Trees == [catalog : [Bots -> Entries],
          files : [Bots -> SUBSET (Names \X Sources)],
          pin : [Bots -> Sources \cup {NoPin}]]

(* What people write: no snapshot or one of their own. *)
ByHand == {{}} \cup {Snapshot(d) : d \in Handmade}

ASSUME RefsAssumption == Main \in Refs /\ MaxEvents \in Nat /\ MaxCommits \in Nat
ASSUME VersionsAssumption ==
  /\ Versions \cap Handmade = {}
  /\ SlugOf \in [Sources -> Bots] /\ RepoOf \in [Sources -> Repos]
  /\ \A v \in Sources : Manifest \in FilesOf[v]
  /\ NoPin \notin Sources /\ NoRepo \notin Repos
(* No run has synced a bot yet: that is the tree of the repository, whose  *)
(* lock names SHAs made up for snapshots committed by hand.                *)
ASSUME FirstAssumption ==
  /\ First \in Trees
  /\ \A b \in Bots : First.pin[b] \notin Versions /\ First.files[b] \in ByHand

VARIABLES
  head,          \* the tree at the head of each branch
  image,         \* the tree in the deployed image
  process,       \* "starting", "up", or "down" when Load failed
  run,           \* the runs
  events,        \* how many dispatches and redeployments there were
  commits        \* how many commits of people

vars == <<head, image, process, run, events, commits>>

(* A run: its step and branch, what it is to sync (Nobody: it only         *)
(* deploys), its checkout, the files still to copy, the names git tracks   *)
(* of the snapshot, and whether main has moved since its event.            *)
Idle == [at |-> "idle", ref |-> Main, slug |-> Nobody, version |-> Nobody, tree |-> First,
         todo |-> {}, tracked |-> {}, behind |-> FALSE]

At(r, step) == run[r].at = step
Become(r, q) == run' = [run EXCEPT ![r] = q]
GiveUp(r) == Become(r, Idle)
Platform == <<head, image, process, events, commits>>

Init ==
  /\ head = [p \in Refs |-> First] /\ image = First
  /\ process = "starting"
  /\ run = [r \in Runs |-> Idle]
  /\ events = 0 /\ commits = 0

-----------------------------------------------------------------------------
(* Events.  The concurrency group of a branch lets one run of it work and  *)
(* one wait: a new one takes the place of the one that waits.              *)
Free(r, p) == At(r, "idle") \/ (At(r, "queued") /\ run[r].ref = p)

Queue(r, q, runs) ==
  [s \in Runs |-> IF s = r THEN q
                   ELSE IF runs[s].at = "queued" /\ runs[s].ref = q.ref THEN Idle
                   ELSE runs[s]]

Queued(p, b, v, t) ==
  [Idle EXCEPT !.at = "queued", !.ref = p, !.slug = b, !.version = v, !.tree = t]

Happens == events < MaxEvents /\ events' = events + 1

(* repository_dispatch, always on main *)
Dispatch(r, b, v) ==
  /\ Happens
  /\ Free(r, Main)
  /\ run' = Queue(r, Queued(Main, b, v, head[Main]), run)
  /\ UNCHANGED <<head, image, process, commits>>

(* workflow_dispatch *)
Redeploy(r, p) ==
  /\ Happens
  /\ Free(r, p)
  /\ run' = Queue(r, Queued(p, Nobody, Nobody, head[p]), run)
  /\ UNCHANGED <<head, image, process, commits>>

AllBehind == [r \in Runs |-> [run[r] EXCEPT !.behind = ~At(r, "idle") /\ run[r].ref = Main]]

(* A commit of people puts a bot into the catalog, changes its entry or    *)
(* takes it out; where no version stays pinned they may also write the     *)
(* snapshot and the lock entry themselves.  They leave a snapshot alone    *)
(* that the lock pins.                                                     *)
With(t, b, e, i, s) == [t EXCEPT !.catalog[b] = e, !.pin[b] = i, !.files[b] = s]
Edited(t) ==
  {With(t, b, e, t.pin[b], t.files[b]) : b \in Bots, e \in Entries}
    \cup UNION {{With(t, b, e, i, s) :
                  e \in Entries, i \in Handmade \cup {NoPin}, s \in {t.files[b]} \cup ByHand}
               : b \in Bots}

(* A merge, a revert, a branch begun anew: bots are taken over, entry,     *)
(* snapshot and pin together, from another branch or from what is deployed.*)
Merged(t, u) ==
  {[catalog |-> [b \in Bots |-> IF b \in B THEN u.catalog[b] ELSE t.catalog[b]],
    files |-> [b \in Bots |-> IF b \in B THEN u.files[b] ELSE t.files[b]],
    pin |-> [b \in Bots |-> IF b \in B THEN u.pin[b] ELSE t.pin[b]]] : B \in SUBSET Bots}

Candidates(p) ==
  Edited(head[p]) \cup UNION {Merged(head[p], u) : u \in {image} \cup {head[q] : q \in Refs}}

Committing == commits < MaxCommits /\ commits' = commits + 1

(* A push to main queues a run; of another branch only the tests run.      *)
CommitMain(r) ==
  /\ Committing
  /\ Free(r, Main)
  /\ \E t \in Candidates(Main) :
       /\ head' = [head EXCEPT ![Main] = t]
       /\ run' = Queue(r, Queued(Main, Nobody, Nobody, t), AllBehind)
  /\ UNCHANGED <<image, process, events>>

CommitBranch(p) ==
  /\ Committing
  /\ p # Main
  /\ \E t \in Candidates(p) : head' = [head EXCEPT ![p] = t]
  /\ UNCHANGED <<image, process, run, events>>

Start(r) ==
  /\ At(r, "queued")
  /\ \A s \in Runs \ {r} : run[s].ref = run[r].ref => run[s].at \in {"idle", "queued"}
  /\ Become(r, [run[r] EXCEPT !.at = IF run[r].slug = Nobody THEN "deploy" ELSE "check"])
  /\ UNCHANGED Platform

-----------------------------------------------------------------------------
(* The workflow looks the slug up in the catalog and compares the          *)
(* repository, runSyncBot compares the slug with the one in the manifest.  *)
AnyRepo(r) ==                                                     \* mutant
  /\ run[r].tree.catalog[run[r].slug] # NoEntry
  /\ SlugOf[run[r].version] = run[r].slug
AnySlug(r) ==                                                     \* mutant
  run[r].tree.catalog[run[r].slug].repo = RepoOf[run[r].version]
Accepted(r) ==
  /\ run[r].tree.catalog[run[r].slug].repo = RepoOf[run[r].version]
  /\ SlugOf[run[r].version] = run[r].slug

Check(r) ==
  /\ At(r, "check")
  /\ IF Accepted(r) THEN Become(r, [run[r] EXCEPT !.at = "reset"]) ELSE GiveUp(r)
  /\ UNCHANGED Platform

Kept(files) == files                                              \* mutant
Emptied(files) == {}

RemoveAll(r) ==
  /\ At(r, "reset")
  /\ Become(r, [run[r] EXCEPT !.at = "copy", !.todo = FilesOf[run[r].version],
                              !.tracked = {e[1] : e \in run[r].tree.files[run[r].slug]},
                              !.tree.files[run[r].slug] = Emptied(@)])
  /\ UNCHANGED Platform

(* copyTree: a file of the same name is overwritten. *)
CopyFile(r) ==
  /\ At(r, "copy")
  /\ \E f \in run[r].todo :
       Become(r, [run[r] EXCEPT
         !.at = IF run[r].todo = {f} THEN "lock" ELSE "copy",
         !.todo = @ \ {f},
         !.tree.files[run[r].slug] = {e \in @ : e[1] # f} \cup {<<f, run[r].version>>}])
  /\ UNCHANGED Platform

(* LoadLock, Upsert, WriteLock *)
WriteLock(r) ==
  /\ At(r, "lock")
  /\ Become(r, [run[r] EXCEPT !.at = "push", !.tree.pin[run[r].slug] = run[r].version])
  /\ UNCHANGED Platform

Forced(r) == TRUE                                                 \* mutant
(* git push refuses what is not a successor of the head. *)
FastForward(r) == ~run[r].behind

(* git add takes a file that is ignored only if it is tracked already.     *)
Committed(r) ==
  [run[r].tree EXCEPT !.files[run[r].slug] =
     {e \in @ : e[1] \in IgnoredOf[run[r].version] => e[1] \in run[r].tracked}]

(* git add, commit, push *)
Push(r) ==
  /\ At(r, "push")
  /\ FastForward(r)
  /\ head' = [head EXCEPT ![Main] = Committed(r)]
  /\ run' = [AllBehind EXCEPT ![r] = [run[r] EXCEPT !.at = "deploy", !.tree = Committed(r)]]
  /\ UNCHANGED <<image, process, events, commits>>

PushRefused(r) ==
  /\ At(r, "push")
  /\ ~FastForward(r)
  /\ GiveUp(r)
  /\ UNCHANGED Platform

(* A step fails, the run is stopped, or it is dropped while it waits. *)
Fail(r) ==
  /\ ~At(r, "idle")
  /\ GiveUp(r)
  /\ UNCHANGED Platform

(* docker compose up -d *)
Deploy(r) ==
  /\ At(r, "deploy")
  /\ image' = run[r].tree
  /\ process' = "starting"
  /\ GiveUp(r)
  /\ UNCHANGED <<head, events, commits>>

-----------------------------------------------------------------------------
(* Load, and the start of the process that needs it: every entry of the    *)
(* catalog is sound and has a manifest with its slug that passes; the lock *)
(* names no other bot and no other repository.  The SHA in the lock is     *)
(* compared with nothing.                                                  *)
Loadable(t, b) ==
  \E v \in Sources : <<Manifest, v>> \in t.files[b] /\ SlugOf[v] = b /\ v \in Runnable

Loads(t) ==
  \A b \in Bots :
    /\ t.catalog[b] # NoEntry => t.catalog[b].sound /\ Loadable(t, b)
    /\ t.pin[b] # NoPin => t.catalog[b].repo = RepoOf[t.pin[b]]

Boot ==
  /\ process = "starting"
  /\ process' = IF Loads(image) THEN "up" ELSE "down"
  /\ UNCHANGED <<head, image, run, events, commits>>

(* restart: unless-stopped *)
Restart ==
  /\ process # "starting"
  /\ process' = "starting"
  /\ UNCHANGED <<head, image, run, events, commits>>

Next ==
  \/ \E r \in Runs :
       \/ \E b \in Bots, v \in Versions : Dispatch(r, b, v)
       \/ \E p \in Refs : Redeploy(r, p)
       \/ CommitMain(r)
       \/ Start(r) \/ Check(r) \/ RemoveAll(r) \/ CopyFile(r) \/ WriteLock(r)
       \/ Push(r) \/ PushRefused(r) \/ Deploy(r) \/ Fail(r)
  \/ \E p \in Refs : CommitBranch(p)
  \/ Boot \/ Restart

Spec == Init /\ [][Next]_vars

-----------------------------------------------------------------------------
(* The lock tells what is in the snapshot directory: of a pinned version   *)
(* every file is there that git does not ignore, and none is left over     *)
(* from the version before, in every branch and in the image.  Load never  *)
(* checks it (runSyncBot, copyTree, WriteLock, git add).                   *)
Faithful(t) ==
  \A b \in Bots : t.pin[b] \in Versions =>
    /\ t.files[b] \subseteq Snapshot(t.pin[b])
    /\ (FilesOf[t.pin[b]] \ IgnoredOf[t.pin[b]]) \X {t.pin[b]} \subseteq t.files[b]

PinFollowsCopy == (\A p \in Refs : Faithful(head[p])) /\ Faithful(image)

Pushes(r) == At(r, "push") /\ run'[r].at = "deploy"

(* A sync changes its own bot alone: it takes back neither the pin of      *)
(* another bot nor what people changed in the catalog, although it works   *)
(* on the commit of its event, which others may have left behind           *)
(* (runSyncBot, Upsert, git push).                                         *)
SyncKeepsOthers ==
  [][\A r \in Runs : Pushes(r) =>
       /\ head'[Main].catalog = head[Main].catalog
       /\ \A b \in Bots \ {run[r].slug} :
            head'[Main].pin[b] = head[Main].pin[b] /\ head'[Main].files[b] = head[Main].files[b]]_vars

(* A version that can start: its manifest passes and reaches the image.    *)
Starts(v) == v \in Runnable /\ Manifest \notin IgnoredOf[v]

(* A sync to a version that can start never breaks a platform that starts, *)
(* whatever people do to the catalog meanwhile (the comparisons of deploy, *)
(* runSyncBot and Load agree).                                             *)
SyncKeepsLoading ==
  [][\A r \in Runs : Pushes(r) /\ Starts(run[r].version) /\ Loads(head[Main])
       => Loads(head'[Main])]_vars

(* When the platform does not start, the catalog and the lock tell which   *)
(* bot is to blame, without a look into the snapshots: one whose entry is  *)
(* broken, one never synced, one pinned to a version that cannot start, or *)
(* one whose lock entry is of another repository or of no entry at all     *)
(* (Load, Validate, resolveSecrets, runSyncBot's test of the slug).        *)
Blamed(t, b) ==
  \/ /\ t.catalog[b] # NoEntry
     /\ ~t.catalog[b].sound \/ t.pin[b] \notin Versions \/ ~Starts(t.pin[b])
  \/ t.pin[b] # NoPin /\ t.catalog[b].repo # RepoOf[t.pin[b]]

OutageIsInLock == process = "down" => \E b \in Bots : Blamed(image, b)
=============================================================================
