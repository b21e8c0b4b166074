--------------------------- MODULE MCRegistration ---------------------------
(* Instances of Registration for TLC. *)
EXTENDS Registration, TLC

CONSTANTS r1, moscow, kazan

OneRequest == {r1}
TwoCities == {moscow, kazan}

AllKinds == {"text", "start", "contact", "location", "confirm", "edit", "support"}
=============================================================================
