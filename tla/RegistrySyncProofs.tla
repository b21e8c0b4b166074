------------------------- MODULE RegistrySyncProofs -------------------------
(***************************************************************************)
(* Proofs about RegistrySync for any number of runs, branches, bots,       *)
(* versions and files.  The invariant follows the checkout of a run: up to *)
(* the removal of the old snapshot its tree is the one of the event; while *)
(* it copies, the snapshot is the part of the new one already copied, and  *)
(* the pin may be the old one; and unless main has moved since, the tree   *)
(* differs from main in the bot being synced only.                         *)
(***************************************************************************)
EXTENDS RegistrySync, TLAPS

Steps == {"idle", "queued", "check", "reset", "copy", "lock", "push", "deploy"}
Copying(q) == q.at \in {"copy", "lock"}
Syncing(q) == q.at \in {"reset", "copy", "lock", "push"}

RunTypes(q) ==
  q \in [at : Steps, ref : Refs, slug : Bots \cup {Nobody}, version : Versions \cup {Nobody},
         tree : Trees, todo : SUBSET Names, tracked : SUBSET Names, behind : BOOLEAN]

(* What a tree says of one bot is in order. *)
InOrder(t, b) ==
  t.pin[b] \in Versions =>
    /\ t.files[b] \subseteq Snapshot(t.pin[b])
    /\ (FilesOf[t.pin[b]] \ IgnoredOf[t.pin[b]]) \X {t.pin[b]} \subseteq t.files[b]
    /\ SlugOf[t.pin[b]] = b

TreeOK(t) == t \in Trees /\ \A b \in Bots : InOrder(t, b)

(* The checkout of a run. *)
RunOK(q) ==
  /\ RunTypes(q)
  /\ q.at = "check" => q.ref = Main /\ q.slug \in Bots /\ q.version \in Versions
  /\ q.at = "queued" /\ q.slug # Nobody
       => q.ref = Main /\ q.slug \in Bots /\ q.version \in Versions
  /\ Syncing(q) => /\ q.ref = Main
                   /\ q.slug \in Bots /\ q.version \in Versions
                   /\ SlugOf[q.version] = q.slug
                   /\ q.tree.catalog[q.slug].repo = RepoOf[q.version]
  /\ \A b \in Bots : ~(Copying(q) /\ b = q.slug) => InOrder(q.tree, b)
  /\ Copying(q) => /\ q.todo \subseteq FilesOf[q.version]
                   /\ q.tree.files[q.slug] = (FilesOf[q.version] \ q.todo) \X {q.version}
  /\ q.at = "lock" => q.todo = {}
  /\ q.at = "push" => /\ q.tree.pin[q.slug] = q.version
                      /\ q.tree.files[q.slug] = Snapshot(q.version)

(* A run main has not left behind changes its own bot alone. *)
OwnOnly(q, m) ==
  q.at # "idle" /\ q.ref = Main /\ ~q.behind =>
    /\ q.tree.catalog = m.catalog
    /\ \A b \in Bots : ~(Syncing(q) /\ b = q.slug) =>
         q.tree.pin[b] = m.pin[b] /\ q.tree.files[b] = m.files[b]

Inv ==
  /\ DOMAIN head = Refs /\ \A p \in Refs : TreeOK(head[p])
  /\ TreeOK(image)
  /\ process = "down" => ~Loads(image)
  /\ DOMAIN run = Runs
  /\ \A r \in Runs : RunOK(run[r]) /\ OwnOnly(run[r], head[Main])

-----------------------------------------------------------------------------
LEMMA FirstOK == TreeOK(First)
  BY FirstAssumption DEF TreeOK, InOrder

LEMMA IdleOK == RunOK(Idle) /\ \A m : OwnOnly(Idle, m)
  BY FirstOK, RefsAssumption DEF Idle, RunOK, OwnOnly, RunTypes, Steps, TreeOK, Syncing, Copying

(* A run marked as left behind is in order as before. *)
LEMMA BehindOK ==
  ASSUME NEW q, RunOK(q), NEW x \in BOOLEAN
  PROVE  RunOK([q EXCEPT !.behind = x])
<1> DEFINE p == [q EXCEPT !.behind = x]
<1>1. /\ RunTypes(p)
      /\ p.at = q.at /\ p.ref = q.ref /\ p.slug = q.slug /\ p.version = q.version
      /\ p.tree = q.tree /\ p.todo = q.todo
  BY DEF RunOK, RunTypes
<1>2. RunOK(p)
  <2> HIDE DEF p
  <2> QED BY <1>1 DEF RunOK, Syncing, Copying
<1> QED BY <1>2

(* A step that changes one run and nothing else. *)
LEMMA OneRun ==
  ASSUME Inv, NEW r \in Runs, NEW q, RunOK(q), OwnOnly(q, head[Main]), Become(r, q),
         UNCHANGED Platform
  PROVE  Inv'
<1>1. /\ DOMAIN run' = Runs
      /\ \A s \in Runs : run'[s] = IF s = r THEN q ELSE run[s]
  BY DEF Become, Inv
<1>2. UNCHANGED <<head, image, process>>
  BY DEF Platform
<1> QED BY <1>1, <1>2 DEF Inv

(* An event: the run of it begins, a waiting one is dropped. *)
LEMMA QueueOK ==
  ASSUME NEW r \in Runs, NEW q, NEW runs, NEW m, RunOK(q), OwnOnly(q, m),
         \A s \in Runs : RunOK(runs[s]) /\ OwnOnly(runs[s], m)
  PROVE  /\ DOMAIN Queue(r, q, runs) = Runs
         /\ \A s \in Runs : RunOK(Queue(r, q, runs)[s]) /\ OwnOnly(Queue(r, q, runs)[s], m)
  BY IdleOK DEF Queue

(* The tree of an event is as good as the branch it is a copy of. *)
LEMMA EventOK ==
  ASSUME NEW p \in Refs, NEW b \in Bots \cup {Nobody}, NEW v \in Versions \cup {Nobody},
         NEW t, TreeOK(t), NEW m, p = Main => t = m,
         b = Nobody \/ (p = Main /\ b \in Bots /\ v \in Versions)
  PROVE  RunOK(Queued(p, b, v, t)) /\ OwnOnly(Queued(p, b, v, t), m)
<1> DEFINE q == Queued(p, b, v, t)
<1>1. /\ RunTypes(q)
      /\ q.at = "queued" /\ q.ref = p /\ q.slug = b /\ q.version = v /\ q.tree = t
  BY DEF Queued, Idle, RunTypes, Steps, TreeOK
<1> HIDE DEF q
<1>2. RunOK(q) /\ OwnOnly(q, m)
  BY <1>1 DEF RunOK, OwnOnly, TreeOK, Syncing, Copying
<1> QED BY <1>2 DEF q

(* A commit of people leaves every pinned version as it is. *)
LEMMA CandidatesOK ==
  ASSUME Inv, NEW p \in Refs, NEW t \in Candidates(p)
  PROVE  TreeOK(t)
<1> DEFINE h == head[p]
<1>1. TreeOK(h) /\ h \in Trees
  BY DEF Inv, TreeOK
<1> HIDE DEF h
<1>2. ASSUME NEW b \in Bots, NEW e \in Entries, t = With(h, b, e, h.pin[b], h.files[b])
      PROVE  TreeOK(t)
  <2>1. t \in Trees /\ t.files = h.files /\ t.pin = h.pin
    BY <1>1, <1>2 DEF Trees, With
  <2> QED BY <1>1, <2>1 DEF TreeOK, InOrder
<1>3. ASSUME NEW b \in Bots, NEW e \in Entries, NEW i \in Handmade \cup {NoPin},
             NEW s \in {h.files[b]} \cup ByHand, t = With(h, b, e, i, s)
      PROVE  TreeOK(t)
  <2>1. s \in SUBSET (Names \X Sources)
    BY <1>1 DEF Trees, ByHand, Snapshot, Names, Sources
  <2>2. i \in Sources \cup {NoPin} /\ i \notin Versions
    BY VersionsAssumption DEF Sources
  <2>3. /\ t \in Trees
        /\ t.pin[b] = i
        /\ \A c \in Bots : c # b => t.pin[c] = h.pin[c] /\ t.files[c] = h.files[c]
    BY <1>1, <1>3, <2>1, <2>2 DEF Trees, With
  <2> QED BY <1>1, <2>2, <2>3 DEF TreeOK, InOrder
<1>4. ASSUME NEW u, TreeOK(u), t \in Merged(h, u)
      PROVE  TreeOK(t)
  <2>1. u \in Trees
    BY <1>4 DEF TreeOK
  <2>2. PICK B \in SUBSET Bots :
          t = [catalog |-> [b \in Bots |-> IF b \in B THEN u.catalog[b] ELSE h.catalog[b]],
               files |-> [b \in Bots |-> IF b \in B THEN u.files[b] ELSE h.files[b]],
               pin |-> [b \in Bots |-> IF b \in B THEN u.pin[b] ELSE h.pin[b]]]
    BY <1>4 DEF Merged
  <2>3. /\ t \in Trees
        /\ \A b \in B : t.pin[b] = u.pin[b] /\ t.files[b] = u.files[b]
        /\ \A b \in Bots \ B : t.pin[b] = h.pin[b] /\ t.files[b] = h.files[b]
    BY <1>1, <2>1, <2>2 DEF Trees
  <2> QED BY <1>1, <1>4, <2>3 DEF TreeOK, InOrder
<1>5. CASE t \in Edited(h)
  <2>1. \E b \in Bots :
          \/ \E e \in Entries : t = With(h, b, e, h.pin[b], h.files[b])
          \/ \E e \in Entries, i \in Handmade \cup {NoPin}, s \in {h.files[b]} \cup ByHand :
               t = With(h, b, e, i, s)
    BY <1>5 DEF Edited
  <2> QED BY <1>2, <1>3, <2>1
<1>6. CASE \E u \in {image} \cup {head[q] : q \in Refs} : t \in Merged(h, u)
  BY <1>4, <1>6 DEF Inv
<1> QED BY <1>5, <1>6 DEF Candidates, h

-----------------------------------------------------------------------------
LEMMA InitInv == Init => Inv
<1> SUFFICES ASSUME Init PROVE Inv
  OBVIOUS
<1> QED BY FirstOK, IdleOK, RefsAssumption DEF Init, Inv

LEMMA EventInv ==
  ASSUME Inv, NEW r \in Runs,
         \/ \E b \in Bots, v \in Versions : Dispatch(r, b, v)
         \/ \E p \in Refs : Redeploy(r, p)
  PROVE  Inv'
<1>1. PICK q : RunOK(q) /\ OwnOnly(q, head[Main]) /\ run' = Queue(r, q, run)
  <2>1. ASSUME NEW p \in Refs, Redeploy(r, p)
        PROVE  \E q : RunOK(q) /\ OwnOnly(q, head[Main]) /\ run' = Queue(r, q, run)
    <3>1. RunOK(Queued(p, Nobody, Nobody, head[p]))
          /\ OwnOnly(Queued(p, Nobody, Nobody, head[p]), head[Main])
      BY EventOK DEF Inv
    <3> QED BY <2>1, <3>1 DEF Redeploy
  <2>2. ASSUME NEW b \in Bots, NEW v \in Versions, Dispatch(r, b, v)
        PROVE  \E q : RunOK(q) /\ OwnOnly(q, head[Main]) /\ run' = Queue(r, q, run)
    <3>1. RunOK(Queued(Main, b, v, head[Main]))
          /\ OwnOnly(Queued(Main, b, v, head[Main]), head[Main])
      BY EventOK, RefsAssumption DEF Inv
    <3> QED BY <2>2, <3>1 DEF Dispatch
  <2> QED BY <2>1, <2>2
<1>2. UNCHANGED <<head, image, process>>
  BY DEF Dispatch, Redeploy
<1>3. /\ DOMAIN run' = Runs
      /\ \A s \in Runs : RunOK(run'[s]) /\ OwnOnly(run'[s], head[Main])
  BY <1>1, QueueOK DEF Inv
<1> QED BY <1>2, <1>3 DEF Inv

LEMMA BehindRuns ==
  ASSUME Inv, NEW m
  PROVE  /\ DOMAIN AllBehind = Runs
         /\ \A s \in Runs : RunOK(AllBehind[s]) /\ OwnOnly(AllBehind[s], m)
<1>1. ASSUME NEW s \in Runs
      PROVE  RunOK(AllBehind[s]) /\ OwnOnly(AllBehind[s], m)
  <2> DEFINE x == ~At(s, "idle") /\ run[s].ref = Main
  <2>1. AllBehind[s] = [run[s] EXCEPT !.behind = x] /\ x \in BOOLEAN
    BY DEF AllBehind
  <2>2. RunOK(run[s]) /\ RunTypes(run[s])
    BY DEF Inv, RunOK
  <2>3. RunOK([run[s] EXCEPT !.behind = x])
    <3> HIDE DEF x
    <3> QED BY <2>1, <2>2, BehindOK
  <2>4. /\ AllBehind[s].at = run[s].at /\ AllBehind[s].ref = run[s].ref
        /\ AllBehind[s].behind = x
    BY <2>1, <2>2 DEF RunTypes
  <2> QED BY <2>1, <2>3, <2>4 DEF OwnOnly, At
<1> QED BY <1>1 DEF AllBehind

LEMMA CommitMainInv ==
  ASSUME Inv, NEW r \in Runs, CommitMain(r)
  PROVE  Inv'
<1>1. PICK t \in Candidates(Main) :
        /\ head' = [head EXCEPT ![Main] = t]
        /\ run' = Queue(r, Queued(Main, Nobody, Nobody, t), AllBehind)
  BY DEF CommitMain
<1>2. TreeOK(t)
  BY CandidatesOK, RefsAssumption
<1>3. /\ DOMAIN head' = Refs /\ head'[Main] = t
      /\ \A p \in Refs : TreeOK(head'[p])
  BY <1>1, <1>2, RefsAssumption DEF Inv
<1>4. RunOK(Queued(Main, Nobody, Nobody, t)) /\ OwnOnly(Queued(Main, Nobody, Nobody, t), t)
  BY <1>2, EventOK, RefsAssumption
<1>5. /\ DOMAIN run' = Runs
      /\ \A s \in Runs : RunOK(run'[s]) /\ OwnOnly(run'[s], t)
  <2>1. \A s \in Runs : RunOK(AllBehind[s]) /\ OwnOnly(AllBehind[s], t)
    BY BehindRuns
  <2> QED BY <1>1, <1>4, <2>1, QueueOK
<1> QED BY <1>3, <1>5 DEF Inv, CommitMain, Loads, Loadable

LEMMA CommitBranchInv ==
  ASSUME Inv, NEW p \in Refs, CommitBranch(p)
  PROVE  Inv'
<1>1. PICK t \in Candidates(p) : head' = [head EXCEPT ![p] = t]
  BY DEF CommitBranch
<1>2. TreeOK(t)
  BY CandidatesOK
<1>3. DOMAIN head' = Refs /\ head'[Main] = head[Main] /\ \A q \in Refs : TreeOK(head'[q])
  BY <1>1, <1>2, RefsAssumption DEF Inv, CommitBranch
<1> QED BY <1>3 DEF Inv, CommitBranch, Loads, Loadable

-----------------------------------------------------------------------------
(* Only the step of the run changes, by a step before or after the sync.   *)
LEMMA StartInv ==
  ASSUME Inv, NEW r \in Runs, Start(r)
  PROVE  Inv'
<1> DEFINE q == [run[r] EXCEPT !.at = IF run[r].slug = Nobody THEN "deploy" ELSE "check"]
<1>1. RunOK(run[r]) /\ OwnOnly(run[r], head[Main]) /\ run[r].at = "queued"
  BY DEF Inv, Start, At
<1>2. /\ RunTypes(q)
      /\ q.at \in {"deploy", "check"}
      /\ q.at = "check" => run[r].slug # Nobody
      /\ q.ref = run[r].ref /\ q.slug = run[r].slug /\ q.version = run[r].version
      /\ q.tree = run[r].tree /\ q.behind = run[r].behind
  BY <1>1 DEF RunOK, RunTypes, Steps
<1>3. Become(r, q)
  BY DEF Start
<1>4. RunOK(q) /\ OwnOnly(q, head[Main])
  <2> HIDE DEF q
  <2> QED BY <1>1, <1>2 DEF RunOK, OwnOnly, Syncing, Copying
<1>5. UNCHANGED Platform
  BY DEF Start
<1> HIDE DEF q
<1> QED BY <1>3, <1>4, <1>5, OneRun

LEMMA GiveUpInv ==
  ASSUME Inv, NEW r \in Runs, GiveUp(r), UNCHANGED Platform
  PROVE  Inv'
BY IdleOK, OneRun DEF GiveUp

LEMMA CheckInv ==
  ASSUME Inv, NEW r \in Runs, Check(r)
  PROVE  Inv'
<1> DEFINE q == [run[r] EXCEPT !.at = "reset"]
<1>1. RunOK(run[r]) /\ OwnOnly(run[r], head[Main]) /\ run[r].at = "check"
  BY DEF Inv, Check, At
<1>2. UNCHANGED Platform
  BY DEF Check
<1>3. CASE Accepted(r)
  <2>1. /\ RunTypes(q)
        /\ q.at = "reset"
        /\ q.ref = run[r].ref /\ q.slug = run[r].slug /\ q.version = run[r].version
        /\ q.tree = run[r].tree /\ q.behind = run[r].behind
    BY <1>1 DEF RunOK, RunTypes, Steps
  <2>2. Become(r, q)
    BY <1>3 DEF Check
  <2>3. RunOK(q) /\ OwnOnly(q, head[Main])
    <3> HIDE DEF q
    <3> QED BY <1>1, <1>3, <2>1 DEF RunOK, OwnOnly, Syncing, Copying, Accepted
  <2> HIDE DEF q
  <2> QED BY <1>2, <2>2, <2>3, OneRun
<1>4. CASE ~Accepted(r)
  BY <1>2, <1>4, GiveUpInv DEF Check
<1> QED BY <1>3, <1>4

-----------------------------------------------------------------------------
(* The sync: each step keeps the catalog and the other bots of its tree.   *)
LEMMA RemoveAllInv ==
  ASSUME Inv, NEW r \in Runs, RemoveAll(r)
  PROVE  Inv'
<1> DEFINE b == run[r].slug
           v == run[r].version
           g == {e[1] : e \in run[r].tree.files[b]}
           q == [run[r] EXCEPT !.at = "copy", !.todo = FilesOf[v], !.tracked = g,
                               !.tree.files[b] = Emptied(@)]
<1>1. RunOK(run[r]) /\ OwnOnly(run[r], head[Main]) /\ run[r].at = "reset"
  BY DEF Inv, RemoveAll, At
<1>2. b \in Bots /\ v \in Versions /\ RunTypes(run[r]) /\ run[r].tree \in Trees
  BY <1>1 DEF RunOK, RunTypes, Syncing
<1>3. /\ q.at = "copy" /\ q.ref = run[r].ref /\ q.slug = b /\ q.version = v /\ q.behind = run[r].behind
      /\ q.todo = FilesOf[v] /\ q.tracked = g
      /\ q.tree = [run[r].tree EXCEPT !.files[b] = {}]
  BY <1>2 DEF RunTypes, Emptied
<1>4. /\ q.tree \in Trees
      /\ q.tree.catalog = run[r].tree.catalog /\ q.tree.pin = run[r].tree.pin
      /\ q.tree.files[b] = {}
      /\ \A c \in Bots : c # b => q.tree.files[c] = run[r].tree.files[c]
  <2> DEFINE t == run[r].tree
             f == [t.files EXCEPT ![b] = {}]
  <2>1. t \in Trees /\ b \in Bots /\ q.tree = [t EXCEPT !.files = f]
    BY <1>2, <1>3
  <2> HIDE DEF q, t, b
  <2>2. /\ f[b] = {} /\ \A c \in Bots : c # b => f[c] = t.files[c]
        /\ [t EXCEPT !.files = f] \in Trees
    BY <2>1 DEF Trees
  <2>3. /\ [t EXCEPT !.files = f].files = f
        /\ [t EXCEPT !.files = f].catalog = t.catalog
        /\ [t EXCEPT !.files = f].pin = t.pin
    BY <2>1 DEF Trees
  <2> QED BY <2>1, <2>2, <2>3 DEF t
<1>5. RunTypes(q)
  <2>1. q.todo \in SUBSET Names
    BY <1>2, <1>3 DEF Names, Sources
  <2>3. q.tracked \in SUBSET Names
    BY <1>2, <1>3 DEF Trees
  <2>2. q.tree \in Trees
    BY <1>4
  <2> QED BY <1>2, <1>3, <2>1, <2>2, <2>3 DEF RunTypes, Steps
<1>6. Become(r, q) /\ UNCHANGED Platform
  BY DEF RemoveAll
<1>7. RunOK(q) /\ OwnOnly(q, head[Main])
  <2>1. q.tree.files[q.slug] = (FilesOf[q.version] \ q.todo) \X {q.version}
    BY <1>3, <1>4
  <2>2. \A c \in Bots : ~(Copying(q) /\ c = q.slug) => InOrder(q.tree, c)
    <3> SUFFICES ASSUME NEW c \in Bots, c # b PROVE InOrder(q.tree, c)
      BY <1>3 DEF Copying
    <3>1. InOrder(run[r].tree, c)
      BY <1>1 DEF RunOK, Copying
    <3> QED BY <3>1, <1>4 DEF InOrder
  <2>3. OwnOnly(q, head[Main])
    <3> HIDE DEF q, b, v
    <3> USE <1>1
    <3>1. Syncing(run[r]) /\ Syncing(q)
      BY <1>3 DEF Syncing
    <3>2. b = run[r].slug
      BY DEF b
    <3> QED BY <1>3, <1>4, <3>1, <3>2 DEF OwnOnly
  <2> HIDE DEF q
  <2> QED BY <1>1, <1>3, <1>4, <1>5, <2>1, <2>2, <2>3 DEF RunOK, Syncing
<1> HIDE DEF q
<1> QED BY <1>6, <1>7, OneRun

LEMMA CopyFileInv ==
  ASSUME Inv, NEW r \in Runs, CopyFile(r)
  PROVE  Inv'
<1> DEFINE b == run[r].slug
           v == run[r].version
<1>1. RunOK(run[r]) /\ OwnOnly(run[r], head[Main]) /\ run[r].at = "copy"
  BY DEF Inv, CopyFile, At
<1>2. b \in Bots /\ v \in Versions /\ RunTypes(run[r]) /\ run[r].tree \in Trees
  BY <1>1 DEF RunOK, RunTypes, Syncing
<1>3. /\ run[r].todo \subseteq FilesOf[v]
      /\ run[r].tree.files[b] = (FilesOf[v] \ run[r].todo) \X {v}
  BY <1>1 DEF RunOK, Copying
<1>4. PICK f \in run[r].todo :
        Become(r, [run[r] EXCEPT
         !.at = IF run[r].todo = {f} THEN "lock" ELSE "copy",
         !.todo = @ \ {f},
         !.tree.files[b] = {e \in @ : e[1] # f} \cup {<<f, v>>}])
  BY DEF CopyFile
<1> DEFINE new == {e \in run[r].tree.files[b] : e[1] # f} \cup {<<f, v>>}
           q == [run[r] EXCEPT
                   !.at = IF run[r].todo = {f} THEN "lock" ELSE "copy",
                   !.todo = @ \ {f},
                   !.tree.files[b] = {e \in @ : e[1] # f} \cup {<<f, v>>}]
<1>5. /\ q.at = (IF run[r].todo = {f} THEN "lock" ELSE "copy")
      /\ q.ref = run[r].ref /\ q.slug = b /\ q.version = v /\ q.behind = run[r].behind
      /\ q.todo = run[r].todo \ {f}
      /\ q.tree = [run[r].tree EXCEPT !.files[b] = new]
  BY <1>2 DEF RunTypes, Trees
<1>6. new = (FilesOf[v] \ q.todo) \X {v}
  BY <1>3, <1>5
<1>7. new \in SUBSET (Names \X Sources)
  BY <1>2, <1>6 DEF Names, Sources
<1>8. /\ q.tree \in Trees
      /\ q.tree.catalog = run[r].tree.catalog /\ q.tree.pin = run[r].tree.pin
      /\ q.tree.files[b] = new
      /\ \A c \in Bots : c # b => q.tree.files[c] = run[r].tree.files[c]
  <2> HIDE DEF new, q
  <2> QED BY <1>2, <1>5, <1>7 DEF Trees
<1>9. RunTypes(q)
  BY <1>2, <1>5, <1>8 DEF RunTypes, Steps
<1>10. RunOK(q) /\ OwnOnly(q, head[Main])
  <2>1. \A c \in Bots : ~(Copying(q) /\ c = q.slug) => InOrder(q.tree, c)
    <3> SUFFICES ASSUME NEW c \in Bots, c # b PROVE InOrder(q.tree, c)
      BY <1>5 DEF Copying
    <3>1. InOrder(run[r].tree, c)
      BY <1>1 DEF RunOK
    <3> QED BY <3>1, <1>8 DEF InOrder
  <2>2. OwnOnly(q, head[Main])
    <3> HIDE DEF q, new, v
    <3>1. Syncing(run[r]) /\ Syncing(q) /\ q.at # "idle"
      BY <1>1, <1>5 DEF Syncing
    <3> QED BY <1>1, <1>5, <1>8, <3>1 DEF OwnOnly
  <2>3. q.at = "lock" => q.todo = {}
    BY <1>5
  <2>4. q.todo \subseteq FilesOf[v] /\ q.tree.files[b] = (FilesOf[v] \ q.todo) \X {v}
    BY <1>3, <1>5, <1>6, <1>8
  <2>5. Syncing(run[r]) /\ Syncing(q) /\ q.at \in {"copy", "lock"}
    BY <1>1, <1>5 DEF Syncing
  <2> HIDE DEF q, new
  <2> QED BY <1>1, <1>5, <1>8, <1>9, <2>1, <2>2, <2>3, <2>4, <2>5 DEF RunOK
<1>11. Become(r, q) /\ UNCHANGED Platform
  BY <1>4 DEF CopyFile
<1> HIDE DEF q
<1> QED BY <1>10, <1>11, OneRun

LEMMA WriteLockInv ==
  ASSUME Inv, NEW r \in Runs, WriteLock(r)
  PROVE  Inv'
<1> DEFINE b == run[r].slug
           v == run[r].version
           q == [run[r] EXCEPT !.at = "push", !.tree.pin[b] = v]
<1>1. RunOK(run[r]) /\ OwnOnly(run[r], head[Main]) /\ run[r].at = "lock"
  BY DEF Inv, WriteLock, At
<1>2. b \in Bots /\ v \in Versions /\ RunTypes(run[r]) /\ run[r].tree \in Trees
  BY <1>1 DEF RunOK, RunTypes, Syncing
<1>3. /\ run[r].tree.files[b] = FilesOf[v] \X {v}
      /\ run[r].tree.catalog[b].repo = RepoOf[v]
      /\ SlugOf[v] = b
  BY <1>1 DEF RunOK, Copying, Syncing
<1>4. /\ q.at = "push" /\ q.ref = run[r].ref /\ q.slug = b /\ q.version = v /\ q.behind = run[r].behind
      /\ q.todo = run[r].todo
      /\ q.tree = [run[r].tree EXCEPT !.pin[b] = v]
  BY <1>2 DEF RunTypes
<1>5. /\ q.tree \in Trees
      /\ q.tree.catalog = run[r].tree.catalog /\ q.tree.files = run[r].tree.files
      /\ q.tree.pin[b] = v
      /\ \A c \in Bots : c # b => q.tree.pin[c] = run[r].tree.pin[c]
  BY <1>2, <1>4 DEF Trees, Sources
<1>6. RunTypes(q)
  BY <1>2, <1>4, <1>5 DEF RunTypes, Steps
<1>7. RunOK(q) /\ OwnOnly(q, head[Main])
  <2>1. \A c \in Bots : InOrder(q.tree, c)
    <3> TAKE c \in Bots
    <3>1. CASE c = b
      BY <1>3, <1>5, <3>1 DEF InOrder, Snapshot
    <3>2. CASE c # b
      <4>1. InOrder(run[r].tree, c)
        BY <1>1, <3>2 DEF RunOK
      <4> QED BY <3>2, <4>1, <1>5 DEF InOrder
    <3> QED BY <3>1, <3>2
  <2>2. Syncing(run[r]) /\ Syncing(q) /\ ~Copying(q)
    BY <1>1, <1>4 DEF Syncing, Copying
  <2> HIDE DEF q
  <2> QED BY <1>1, <1>3, <1>4, <1>5, <1>6, <2>1, <2>2 DEF RunOK, OwnOnly, Snapshot
<1>8. Become(r, q) /\ UNCHANGED Platform
  BY DEF WriteLock
<1> HIDE DEF q
<1> QED BY <1>7, <1>8, OneRun

(* What a sync commits: its checkout, with the snapshot as git takes it. *)
LEMMA CommittedOK ==
  ASSUME NEW r \in Runs, RunOK(run[r]), run[r].at = "push"
  PROVE  /\ TreeOK(Committed(r))
         /\ Committed(r).catalog = run[r].tree.catalog
         /\ Committed(r).pin = run[r].tree.pin
         /\ \A b \in Bots \ {run[r].slug} : Committed(r).files[b] = run[r].tree.files[b]
         /\ Starts(run[r].version)
              => <<Manifest, run[r].version>> \in Committed(r).files[run[r].slug]
<1> DEFINE b == run[r].slug
           v == run[r].version
           t == run[r].tree
           staged == {e \in t.files[b] : e[1] \in IgnoredOf[v] => e[1] \in run[r].tracked}
<1>1. /\ b \in Bots /\ v \in Versions /\ t \in Trees
      /\ SlugOf[v] = b /\ t.pin[b] = v /\ t.files[b] = Snapshot(v)
      /\ \A c \in Bots : InOrder(t, c)
  BY DEF RunOK, RunTypes, Syncing, Copying
<1>2. Committed(r) = [t EXCEPT !.files[b] = staged]
  BY <1>1 DEF Committed, Trees
<1>3. /\ staged \subseteq Snapshot(v)
      /\ (FilesOf[v] \ IgnoredOf[v]) \X {v} \subseteq staged
  BY <1>1 DEF Snapshot
<1>4. Starts(v) => <<Manifest, v>> \in staged
  BY <1>3, <1>1, VersionsAssumption DEF Starts, Sources
<1> HIDE DEF staged, b, v, t
<1>5. /\ Committed(r) \in Trees
      /\ Committed(r).catalog = t.catalog /\ Committed(r).pin = t.pin
      /\ Committed(r).files[b] = staged
      /\ \A c \in Bots \ {b} : Committed(r).files[c] = t.files[c]
  <2>1. staged \in SUBSET (Names \X Sources)
    BY <1>1, <1>3 DEF Trees
  <2> QED BY <1>1, <1>2, <2>1 DEF Trees
<1>6. ASSUME NEW c \in Bots
      PROVE  InOrder(Committed(r), c)
  <2>1. CASE c = b
    BY <1>1, <1>3, <1>5, <2>1 DEF InOrder
  <2>2. CASE c # b
    BY <1>1, <1>5, <2>2 DEF InOrder
  <2> QED BY <2>1, <2>2
<1> QED BY <1>4, <1>5, <1>6 DEF TreeOK, b, v, t

LEMMA PushInv ==
  ASSUME Inv, NEW r \in Runs, Push(r)
  PROVE  Inv'
<1> DEFINE q == [run[r] EXCEPT !.at = "deploy", !.tree = Committed(r)]
<1>1. RunOK(run[r]) /\ run[r].at = "push"
  BY DEF Inv, Push, At
<1>2. TreeOK(Committed(r))
  BY <1>1, CommittedOK
<1>3. /\ DOMAIN head' = Refs /\ head'[Main] = Committed(r)
      /\ \A p \in Refs : TreeOK(head'[p])
  BY <1>2, RefsAssumption DEF Inv, Push
<1>4. RunOK(q) /\ OwnOnly(q, Committed(r))
  <2>1. RunTypes(run[r]) /\ Committed(r) \in Trees
    BY <1>1, <1>2 DEF RunOK, TreeOK
  <2>2. RunTypes(q) /\ q.at = "deploy" /\ q.tree = Committed(r)
    BY <2>1 DEF RunTypes, Steps
  <2> HIDE DEF q
  <2> QED BY <1>2, <2>2 DEF RunOK, OwnOnly, TreeOK, Syncing, Copying
<1>5. /\ DOMAIN run' = Runs
      /\ \A s \in Runs : RunOK(run'[s]) /\ OwnOnly(run'[s], head'[Main])
  <2>1. run' = [AllBehind EXCEPT ![r] = q]
    BY DEF Push
  <2>2. /\ DOMAIN AllBehind = Runs
        /\ \A s \in Runs : RunOK(AllBehind[s]) /\ OwnOnly(AllBehind[s], Committed(r))
    BY BehindRuns
  <2> HIDE DEF q
  <2> QED BY <1>3, <1>4, <2>1, <2>2
<1> QED BY <1>3, <1>5 DEF Inv, Push, Loads, Loadable

LEMMA DeployInv ==
  ASSUME Inv, NEW r \in Runs, Deploy(r)
  PROVE  Inv'
<1>1. RunOK(run[r]) /\ run[r].at = "deploy"
  BY DEF Inv, Deploy, At
<1>2. TreeOK(image')
  BY <1>1 DEF RunOK, RunTypes, TreeOK, Copying, Deploy
<1>3. /\ DOMAIN run' = Runs
      /\ \A s \in Runs : RunOK(run'[s]) /\ OwnOnly(run'[s], head[Main])
  BY IdleOK DEF Deploy, GiveUp, Become, Inv
<1> QED BY <1>2, <1>3 DEF Inv, Deploy

LEMMA BootInv == Inv /\ (Boot \/ Restart) => Inv'
<1> SUFFICES ASSUME Inv, Boot \/ Restart PROVE Inv'
  OBVIOUS
<1>1. process' = "down" => ~Loads(image)
  BY DEF Boot, Restart
<1>2. UNCHANGED <<head, image, run>>
  BY DEF Boot, Restart
<1> QED BY <1>1, <1>2 DEF Inv, Loads, Loadable

LEMMA NextInv == Inv /\ [Next]_vars => Inv'
<1> SUFFICES ASSUME Inv, [Next]_vars PROVE Inv'
  OBVIOUS
<1>1. CASE UNCHANGED vars
  BY <1>1 DEF vars, Inv, Loads, Loadable
<1>2. CASE Boot \/ Restart
  BY <1>2, BootInv
<1>3. ASSUME NEW r \in Runs, PushRefused(r) \/ Fail(r)
      PROVE  Inv'
  BY <1>3, GiveUpInv DEF PushRefused, Fail
<1>4. ASSUME NEW r \in Runs,
             \/ \E b \in Bots, v \in Versions : Dispatch(r, b, v)
             \/ \E p \in Refs : Redeploy(r, p)
             \/ CommitMain(r)
             \/ Start(r) \/ Check(r) \/ RemoveAll(r) \/ CopyFile(r) \/ WriteLock(r)
             \/ Push(r) \/ Deploy(r)
      PROVE  Inv'
  BY <1>4, EventInv, CommitMainInv, StartInv, CheckInv, RemoveAllInv, CopyFileInv,
     WriteLockInv, PushInv, DeployInv
<1>5. ASSUME NEW p \in Refs, CommitBranch(p)
      PROVE  Inv'
  BY <1>5, CommitBranchInv
<1> QED BY <1>1, <1>2, <1>3, <1>4, <1>5 DEF Next

LEMMA InvHolds == Spec => []Inv
  BY InitInv, NextInv, PTL DEF Spec

-----------------------------------------------------------------------------
(* The lock file never names a version of which the snapshot directory     *)
(* lacks a file that git takes, or has one of another version beside it,   *)
(* in any branch or image and whatever was there before the first sync     *)
(* (runSyncBot, copyTree, WriteLock, git add).                             *)
THEOREM PinsAreTrue == Spec => []PinFollowsCopy
<1>1. Inv => PinFollowsCopy
  BY DEF Inv, TreeOK, InOrder, PinFollowsCopy, Faithful
<1> QED BY <1>1, InvHolds, PTL

(* The step by which a sync reaches main. *)
LEMMA OnlyPushPushes ==
  ASSUME Inv, Next, NEW r \in Runs, Pushes(r)
  PROVE  Push(r)
<1>1. run[r].at = "push" /\ run'[r].at = "deploy" /\ DOMAIN run = Runs
  BY DEF Pushes, At, Inv
<1>2. ASSUME NEW s \in Runs, NEW q, NEW runs, q.at # "deploy",
             runs = run \/ runs = AllBehind, run' = Queue(s, q, runs)
      PROVE  FALSE
  <2>1. runs[r].at = "push"
    <3>1. RunTypes(run[r])
      BY DEF Inv, RunOK
    <3> QED BY <1>1, <1>2, <3>1 DEF AllBehind, RunTypes
  <2> QED BY <1>1, <1>2, <2>1 DEF Queue, Idle
<1>3. \A p, b, v, t : Queued(p, b, v, t).at # "deploy"
  BY DEF Queued, Idle
<1>4. ASSUME NEW s \in Runs,
             \/ \E b \in Bots, v \in Versions : Dispatch(s, b, v)
             \/ \E p \in Refs : Redeploy(s, p)
             \/ CommitMain(s)
      PROVE  FALSE
  <2>1. \E p, b, v, t : \/ run' = Queue(s, Queued(p, b, v, t), run)
                         \/ run' = Queue(s, Queued(p, b, v, t), AllBehind)
    <3>1. CASE \E b \in Bots, v \in Versions : Dispatch(s, b, v)
      BY <3>1 DEF Dispatch
    <3>2. CASE \E p \in Refs : Redeploy(s, p)
      BY <3>2 DEF Redeploy
    <3>3. CASE CommitMain(s)
      BY <3>3 DEF CommitMain
    <3> QED BY <1>4, <3>1, <3>2, <3>3
  <2> QED BY <1>2, <1>3, <2>1
<1>5. ASSUME NEW s \in Runs,
             \/ Start(s) \/ Check(s) \/ RemoveAll(s) \/ CopyFile(s) \/ WriteLock(s)
             \/ PushRefused(s) \/ Deploy(s) \/ Fail(s)
      PROVE  FALSE
  <2>1. ASSUME NEW q, Become(s, q), run[s].at # "push" \/ q.at # "deploy"
        PROVE  FALSE
    BY <1>1, <2>1 DEF Become
  <2>2. CASE Start(s)
    BY <2>1, <2>2 DEF Start, At
  <2>3. CASE Check(s)
    BY <2>1, <2>3 DEF Check, GiveUp, At
  <2>4. CASE RemoveAll(s)
    BY <2>1, <2>4 DEF RemoveAll, At
  <2>5. CASE CopyFile(s)
    BY <2>1, <2>5 DEF CopyFile, At
  <2>6. CASE WriteLock(s)
    BY <2>1, <2>6 DEF WriteLock, At
  <2>7. CASE PushRefused(s) \/ Deploy(s) \/ Fail(s)
    BY <2>1, <2>7 DEF PushRefused, Deploy, Fail, GiveUp, Idle
  <2> QED BY <1>5, <2>2, <2>3, <2>4, <2>5, <2>6, <2>7
<1>6. ASSUME NEW s \in Runs, Push(s)
      PROVE  s = r
  <2>1. s # r => run'[r] = AllBehind[r]
    BY <1>1, <1>6 DEF Push, AllBehind
  <2>2. AllBehind[r].at = "push"
    BY <1>1 DEF AllBehind, Inv, RunOK, RunTypes
  <2> QED BY <1>1, <2>1, <2>2
<1>7. CASE UNCHANGED run
  BY <1>1, <1>7
<1> QED BY <1>4, <1>5, <1>6, <1>7 DEF Next, CommitBranch, Boot, Restart

(* What a push finds and leaves. *)
LEMMA PushedTree ==
  ASSUME Inv, NEW r \in Runs, Push(r)
  PROVE  /\ RunOK(run[r]) /\ run[r].at = "push"
         /\ head[Main] \in Trees
         /\ head'[Main] = Committed(r)
         /\ Committed(r).catalog = head[Main].catalog
         /\ \A b \in Bots \ {run[r].slug} : /\ Committed(r).pin[b] = head[Main].pin[b]
                                          /\ Committed(r).files[b] = head[Main].files[b]
<1>1. /\ RunOK(run[r]) /\ OwnOnly(run[r], head[Main])
      /\ run[r].at = "push" /\ ~run[r].behind
      /\ head' = [head EXCEPT ![Main] = Committed(r)]
      /\ DOMAIN head = Refs /\ head[Main] \in Trees
  BY RefsAssumption DEF Inv, Push, At, FastForward, TreeOK
<1>2. run[r].ref = Main
  BY <1>1 DEF RunOK, Syncing
<1> QED BY <1>1, <1>2, CommittedOK, RefsAssumption DEF OwnOnly

(* A sync changes no bot but its own, and nothing in the catalog           *)
(* (runSyncBot, Upsert and the refusal of git push).                       *)
THEOREM SyncIsLocal == Spec => SyncKeepsOthers
<1> DEFINE Local ==
      \A r \in Runs : Pushes(r) =>
        /\ head'[Main].catalog = head[Main].catalog
        /\ \A b \in Bots \ {run[r].slug} :
             head'[Main].pin[b] = head[Main].pin[b] /\ head'[Main].files[b] = head[Main].files[b]
<1>1. Inv /\ [Next]_vars => [Local]_vars
  <2> SUFFICES ASSUME Inv, Next, NEW r \in Runs, Pushes(r)
               PROVE  /\ head'[Main].catalog = head[Main].catalog
                      /\ \A b \in Bots \ {run[r].slug} :
                           /\ head'[Main].pin[b] = head[Main].pin[b]
                           /\ head'[Main].files[b] = head[Main].files[b]
    OBVIOUS
  <2> QED BY OnlyPushPushes, PushedTree
<1>2. Spec => [][Local]_vars
  BY <1>1, InvHolds, PTL DEF Spec
<1> QED BY <1>2 DEF SyncKeepsOthers

(* A sync to a version that can start leaves a platform that starts able   *)
(* to: what the workflow compares before it pins a version is what Load    *)
(* compares afterwards, and a catalog changed since refuses the push.      *)
THEOREM SyncKeepsPlatformUp == Spec => SyncKeepsLoading
<1> DEFINE Keeps ==
      \A r \in Runs : Pushes(r) /\ Starts(run[r].version) /\ Loads(head[Main])
        => Loads(head'[Main])
<1>1. Inv /\ [Next]_vars => [Keeps]_vars
  <2> SUFFICES ASSUME Inv, Next, NEW r \in Runs, Pushes(r), Starts(run[r].version),
                      Loads(head[Main])
               PROVE  Loads(Committed(r))
    BY OnlyPushPushes, PushedTree
  <2> DEFINE t == Committed(r)
             m == head[Main]
             b == run[r].slug
             v == run[r].version
  <2>1. /\ RunOK(run[r]) /\ run[r].at = "push" /\ m \in Trees
        /\ t.catalog = m.catalog
        /\ \A c \in Bots \ {b} : t.pin[c] = m.pin[c] /\ t.files[c] = m.files[c]
    BY OnlyPushPushes, PushedTree
  <2>2. /\ b \in Bots /\ v \in Versions /\ SlugOf[v] = b
        /\ run[r].tree.catalog[b].repo = RepoOf[v] /\ run[r].tree.pin[b] = v
    BY <2>1 DEF RunOK, Syncing
  <2>3. t.pin = run[r].tree.pin /\ t.catalog = run[r].tree.catalog /\ <<Manifest, v>> \in t.files[b]
    BY <2>1, CommittedOK
  <2> HIDE DEF t, m, b, v
  <2>4. Loadable(t, b)
    BY <2>2, <2>3 DEF Loadable, Starts, Sources, v
  <2>5. m.catalog[b] # NoEntry
    BY <2>1, <2>2, <2>3, VersionsAssumption DEF NoEntry, Sources, v, b
  <2>6. \A c \in Bots : /\ t.catalog[c] # NoEntry => t.catalog[c].sound
                        /\ t.catalog[c] # NoEntry /\ c # b => Loadable(t, c)
                        /\ c # b /\ t.pin[c] # NoPin => t.catalog[c].repo = RepoOf[t.pin[c]]
    BY <2>1 DEF Loads, Loadable, m
  <2>7. t.catalog[b].repo = RepoOf[t.pin[b]]
    BY <2>2, <2>3 DEF v, b
  <2>8. Loads(t)
    BY <2>4, <2>6, <2>7 DEF Loads
  <2> QED BY <2>8 DEF t
<1>2. Spec => [][Keeps]_vars
  BY <1>1, InvHolds, PTL DEF Spec
<1> QED BY <1>2 DEF SyncKeepsLoading

(* A platform that does not start has a bot to blame in its catalog and    *)
(* lock: the snapshots never contradict them (Load, Validate).             *)
THEOREM OutagesAreExplained == Spec => []OutageIsInLock
<1>1. Inv => OutageIsInLock
  <2> SUFFICES ASSUME Inv, process = "down", NEW b \in Bots, ~Blamed(image, b)
               PROVE  /\ image.catalog[b] # NoEntry
                           => image.catalog[b].sound /\ Loadable(image, b)
                      /\ image.pin[b] # NoPin => image.catalog[b].repo = RepoOf[image.pin[b]]
    BY DEF OutageIsInLock, Inv, Loads
  <2>1. InOrder(image, b)
    BY DEF Inv, TreeOK
  <2>2. ASSUME image.catalog[b] # NoEntry
        PROVE  image.catalog[b].sound /\ Loadable(image, b)
    <3>1. /\ image.catalog[b].sound
          /\ image.pin[b] \in Versions /\ Starts(image.pin[b])
      BY <2>2 DEF Blamed
    <3>2. <<Manifest, image.pin[b]>> \in image.files[b] /\ SlugOf[image.pin[b]] = b
      BY <2>1, <3>1, VersionsAssumption DEF InOrder, Starts, Sources
    <3> QED BY <3>1, <3>2 DEF Loadable, Starts, Sources
  <2>3. image.pin[b] # NoPin => image.catalog[b].repo = RepoOf[image.pin[b]]
    BY DEF Blamed
  <2> QED BY <2>2, <2>3
<1> QED BY <1>1, InvHolds, PTL
=============================================================================
