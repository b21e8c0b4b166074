--------------------------- MODULE MCRegistrySync ---------------------------
(* Instances of RegistrySync for TLC. *)
EXTENDS RegistrySync, TLC

CONSTANTS x1, x2, main, dev, echo, work, ours, theirs, e1, e2, w1, h1

TwoRuns == {x1, x2}
TwoRefs == {main, dev}
TwoBots == {echo, work}
TwoRepos == {ours, theirs}
Three == {e1, e2, w1}
Written == {h1}

Slugs == (e1 :> echo) @@ (e2 :> echo) @@ (w1 :> work) @@ (h1 :> echo)
Origins == (e1 :> theirs) @@ (e2 :> theirs) @@ (w1 :> ours) @@ (h1 :> theirs)

(* The first version of echo has no text; in the second .gitignore matches *)
(* it, so it is committed only over the one made by hand.                  *)
Files == (e1 :> {"bot.yaml"}) @@ (e2 :> {"bot.yaml", "welcome.md"})
           @@ (w1 :> {"bot.yaml"}) @@ (h1 :> {"bot.yaml", "welcome.md"})
Ignored == (e1 :> {}) @@ (e2 :> {"welcome.md"}) @@ (w1 :> {}) @@ (h1 :> {})

(* The second version of echo needs a secret that is not set. *)
Passing == {e1, w1, h1}

(* One bot has a snapshot made by hand, the other is to be registered.    *)
EchoByHand ==
  [catalog |-> [b \in TwoBots |-> IF b = echo THEN [repo |-> theirs, sound |-> TRUE] ELSE NoEntry],
   files |-> [b \in TwoBots |-> IF b = echo THEN Files[h1] \X {h1} ELSE {}],
   pin |-> [b \in TwoBots |-> IF b = echo THEN h1 ELSE NoPin]]

Equal == Permutations(TwoRuns)
=============================================================================
