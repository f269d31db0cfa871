----------------------------- MODULE MCHotArena -----------------------------
(***************************************************************************)
(* Instances of HotArena for TLC.  Solo: every player is a party of one,   *)
(* named like the player, so that players may be permuted.  Duo: one party *)
(* of all players.                                                         *)
(***************************************************************************)
EXTENDS HotArenaProperties, TLC

Solo == [q \in Parties |-> {q}]
Duo == [q \in Parties |-> Players]
Permuted == Permutations(Players)
=============================================================================
