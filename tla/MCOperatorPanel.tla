-------------------------- MODULE MCOperatorPanel --------------------------
(* Instances of OperatorPanel for TLC. *)
EXTENDS OperatorPanel, TLC

CONSTANTS r1, r2, f1, w1, c1, m1, a1

TwoRequests == {r1, r2}
OneForeman == {f1}
OneChat == {w1}
OneCancel == {c1}
OneMessage == {m1}
OneReply == {a1}

Concerns == (c1 :> f1) @@ (m1 :> w1) @@ (a1 :> w1)
=============================================================================
