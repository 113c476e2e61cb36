-------------------------- MODULE MCBridgeIdentity --------------------------
(***************************************************************************)
(* One caller, which may call Get again and again, and one goroutine more  *)
(* than the flag allows; two users who may have any of two accounts of     *)
(* each provider.  At first the first user or both are governance members; *)
(* Govern changes that.                                                    *)
(***************************************************************************)
EXTENDS BridgeIdentity, TLC

CONSTANTS c1, l1, l2, d1, d2, s1, s2

Symmetry == Permutations({l1, l2}) \cup Permutations({d1, d2}) \cup Permutations({s1, s2})

MemberStart == Init /\ 1 \in members
MemberSpec == MemberStart /\ [][Next]_vars

=============================================================================
