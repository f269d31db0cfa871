----------------------------- MODULE PartySeats -----------------------------
(***************************************************************************)
(* What atomic party admission promises, said without sockets, GameLift or *)
(* retries.  A queue claim stands for one party.  Its members enter the    *)
(* arena in ONE step or not at all: a claim is open, then either admitted  *)
(* with its whole roster seated, or dissolved, and a dissolved claim never *)
(* seats anyone.  After the admission members leave and come back on their *)
(* own.  AdmissionGate implements this module.                             *)
(***************************************************************************)
EXTENDS Integers

CONSTANTS
  Player,   \* the roster of every claim
  Claim     \* queue claims

VARIABLES
  phase,    \* [Claim -> {"open", "admitted", "dissolved"}]
  seated    \* [Claim -> SUBSET Player]: the members sitting in the arena

vars == <<phase, seated>>

TypeOK ==
  /\ phase \in [Claim -> {"open", "admitted", "dissolved"}]
  /\ seated \in [Claim -> SUBSET Player]

Init ==
  /\ phase = [c \in Claim |-> "open"]
  /\ seated = [c \in Claim |-> {}]

Dissolving(D) == [c \in Claim |-> IF c \in D THEN "dissolved" ELSE phase[c]]

(* A fresh claim of the same players takes their seats over: admitting one *)
(* claim empties the seats of the others, and a claim dissolves whose      *)
(* members are released.                                                   *)
Admit(c, D) ==
  /\ \A d \in D \union {c} : phase[d] = "open"
  /\ c \notin D
  /\ phase' = [Dissolving(D) EXCEPT ![c] = "admitted"]
  /\ seated' = [d \in Claim |-> IF d = c THEN Player ELSE {}]

(* Members leave, of any claim and in any number; claims may dissolve in   *)
(* the same step, because one cancellation does both.                      *)
LeaveOrDissolve(D) ==
  /\ \A c \in D : phase[c] = "open"
  /\ phase' = Dissolving(D)
  /\ seated' \in [Claim -> SUBSET Player]
  /\ \A c \in Claim : seated'[c] \subseteq seated[c]

Return(c, m) ==
  /\ phase[c] = "admitted"
  /\ seated' = [seated EXCEPT ![c] = @ \union {m}]
  /\ UNCHANGED phase

Next ==
  \/ \E D \in SUBSET Claim : LeaveOrDissolve(D) \/ \E c \in Claim : Admit(c, D)
  \/ \E c \in Claim, m \in Player : Return(c, m)

Spec == Init /\ [][Next]_vars
=============================================================================
