----------------------------- MODULE MCAdmission -----------------------------
(***************************************************************************)
(* Instances of AdmissionGate for TLC: a party of two.                     *)
(***************************************************************************)
EXTENDS AdmissionProperties, TLC

Permuted == Permutations(Player) \union Permutations(Peer)
=============================================================================
