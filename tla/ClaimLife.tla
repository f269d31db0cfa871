----------------------------- MODULE ClaimLife ------------------------------
(***************************************************************************)
(* What the matchmaker promises about one queue claim, said without leases, *)
(* directory pointers or game sessions.  Requests obtain seats for the     *)
(* party; at most one request's seats become the claim's placement, and    *)
(* from then on they are held until the party cancels.  A cancelled claim  *)
(* stays cancelled.  PartyAllocation implements this module.               *)
(***************************************************************************)
CONSTANTS
  Request,   \* the requests that may obtain seats, each at most once
  Nobody     \* no placement, and not a request

VARIABLES
  state,     \* "open", "placed", "cancelling" or "cancelled"
  placement, \* the request whose seats the party has
  held       \* the requests whose seats are reserved now

vars == <<state, placement, held>>

TypeOK ==
  /\ state \in {"open", "placed", "cancelling", "cancelled"}
  /\ placement \in Request \union {Nobody}
  /\ held \subseteq Request

Init == state = "open" /\ placement = Nobody /\ held = {}

Obtain(r) == held' = held \union {r} /\ UNCHANGED <<state, placement>>

(* Seats are given back at any time, but never the placement's. *)
GiveBack(R) ==
  /\ placement \notin R
  /\ held' = held \ R
  /\ UNCHANGED <<state, placement>>

Place(r) ==
  /\ state = "open" /\ r \in held
  /\ state' = "placed" /\ placement' = r
  /\ UNCHANGED held

Cancel ==
  /\ state \in {"open", "placed"}
  /\ state' = "cancelling" /\ placement' = Nobody
  /\ UNCHANGED held

(* A claim nobody allocates for is cancelled in one step. *)
Cancelled ==
  /\ state \in {"open", "cancelling"}
  /\ state' = "cancelled"
  /\ UNCHANGED <<placement, held>>

Next ==
  \/ \E r \in Request : Obtain(r) \/ Place(r)
  \/ \E R \in SUBSET Request : GiveBack(R)
  \/ Cancel
  \/ Cancelled

Spec == Init /\ [][Next]_vars
=============================================================================
