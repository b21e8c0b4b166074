----------------------------- MODULE RecentLog -----------------------------
(***************************************************************************)
(* What the panel may rely on when it lists operator notifications or a    *)
(* chat: under every key the newest entries, newest first, at most Cap of  *)
(* them.  The only change is a new entry at the front.                     *)
(***************************************************************************)
EXTENDS Naturals, Sequences

CONSTANTS
  Keys,      \* the lists
  Entries,   \* what may be saved in them
  Cap        \* how many a list keeps

VARIABLE recent

First(n, s) == SubSeq(s, 1, IF Len(s) < n THEN Len(s) ELSE n)

Init == recent = [k \in Keys |-> <<>>]

Add(k, e) == recent' = [recent EXCEPT ![k] = First(Cap, <<e>> \o @)]

Next == \E k \in Keys, e \in Entries : Add(k, e)

Spec == Init /\ [][Next]_recent
=============================================================================
