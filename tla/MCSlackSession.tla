--------------------------- MODULE MCSlackSession ---------------------------
(* Instances of SlackSession. *)
EXTENDS SlackSession

CONSTANTS u1, b1
=============================================================================
