----------------------- MODULE DurablePartyProperties -----------------------
(***************************************************************************)
(* What the durable party tables promise.                                  *)
(***************************************************************************)
EXTENDS DurableParty

Transactions ==
  [op : AllOperations \union {"none"}, actor : Player \union {None},
   other : Row \union {None}, claims : SUBSET Claim, hint : Party \union {None},
   stage : {"none", "first", "snapshot", "involved", "again"},
   wants : Seq(Row), tries : 0..2]

(* The tables hold what their columns allow, and transactions are of the   *)
(* shapes the code gives them.                                             *)
TypeOK ==
  /\ account \in [Player -> {"guest", "linked", "gone"}]
  /\ \A x \in Party :
       /\ party[x].members \in Seq(Player)
       /\ party[x].leader \in Player \union {None}
       /\ party[x].version \in Nat
  /\ invites \in [Party -> SUBSET Player]
  /\ \A c \in Claim :
       /\ claim[c].status \in {"none", "active", "cancelling", "cancelled", "completed"}
       /\ claim[c].party \in Party \union {None}
       /\ claim[c].requester \in Player \union {None}
       /\ claim[c].version \in Nat
       /\ claim[c].changed \subseteq claim[c].roster /\ claim[c].roster \subseteq Player
       /\ claim[c].expired \in BOOLEAN
  /\ owner \in [Row -> Session \union {None}]
  /\ tx \in [Session -> Transactions]
  /\ calls \in 0..MaxCalls

(* The types hold; a player is in one party, a party has one to three      *)
(* members who all exist, one of them leads it, and only an existing party *)
(* has invitations of existing players: parties are locked one at a time,  *)
(* while leaders change, guests are merged, and accounts are deleted.      *)
RosterIsSound ==
  /\ TypeOK
  /\ \A x \in Party :
       /\ Exists(x) =>
            /\ party[x].leader \in Members(x)
            /\ Len(party[x].members) <= MaxMembers
            /\ Cardinality(Members(x)) = Len(party[x].members)
            /\ \A p \in Members(x) : account[p] # "gone"
            /\ \A y \in Party \ {x} : Members(x) \cap Members(y) = {}
       /\ ~Exists(x) => invites[x] = {}
       /\ \A p \in invites[x] : account[p] # "gone"

(* A claim that has neither ended nor expired. *)
Live(c) == claim[c].status \in {"active", "cancelling"} /\ ~claim[c].expired

(* From the moment a claim names a party's roster until it is cancelled,   *)
(* completed or expired, the party keeps that roster and its version:      *)
(* neither an invitation that was accepted meanwhile, a leave, a transfer, *)
(* a merge nor a deletion gets between the reads and the claim.            *)
QueuedRosterIsFrozen ==
  \A c \in Claim : Live(c) /\ claim[c].party # None =>
    LET x == claim[c].party IN
    Exists(x) /\ Members(x) = claim[c].roster /\ party[x].version = claim[c].version

(* No player is in the snapshots of two live claims. *)
OneLiveClaim ==
  \A c, d \in Claim : c # d /\ Live(c) /\ Live(d) => claim[c].roster \cap claim[d].roster = {}

(* A claim has one end: what is being cancelled is never started, and      *)
(* what was started or cancelled stays so while its row exists.            *)
OneEnd ==
  [][\A c \in Claim :
       /\ claim[c].status = "cancelling" => claim'[c].status # "completed"
       /\ claim[c].status \in {"cancelled", "completed"} => claim'[c].status \in {claim[c].status, "none"}]_vars
=============================================================================
