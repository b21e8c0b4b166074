--------------------------- MODULE MCAppLifecycle ---------------------------
(* Instances of AppLifecycle for TLC. *)
EXTENDS AppLifecycle

CONSTANTS u1, u2

TwoUpdates == {u1, u2}
=============================================================================
