--------------------------- MODULE MCMessageRows ----------------------------
(* Instances of MessageRows. *)
EXTENDS MessageRows
=============================================================================
