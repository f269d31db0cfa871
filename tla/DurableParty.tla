---------------------------- MODULE DurableParty ----------------------------
(***************************************************************************)
(* Durable parties and queue claims: PostgresPersistence.ts.  Every call is *)
(* one transaction at READ COMMITTED.  It locks its caller's player row,   *)
(* reads the caller's party, locks further rows on the strength of that    *)
(* hint, locks the party row, reads everything again and commits.  A row   *)
(* lock is held to the end.  PostgreSQL breaks a cycle of waiters by       *)
(* failing one of them; some operations are then tried again.              *)
(*                                                                         *)
(* Ids are numbers because rows are locked in their order.  An id that no  *)
(* row and no transaction names stands for a new one.                      *)
(***************************************************************************)
EXTENDS Naturals, Sequences, FiniteSets, SequencesExt, Functions

CONSTANTS
  Player,      \* player ids
  Founded,     \* what the tables may hold at first: rosters, linked accounts, queued parties
  Party,       \* party ids
  Claim,       \* queue claim ids
  Session,     \* server connections, each with at most one transaction
  Operation,   \* the calls the sessions make
  None,
  MaxCalls,    \* bound: the calls of a behaviour
  SoloMixes    \* a player who queues alone founds a party or takes over a guest

AllOperations ==
  {"invite", "revoke", "accept", "leave", "disband", "transfer", "claim", "cancel",
   "complete", "start", "loadout", "link", "merge", "delete"}

MaxMembers == 3

ASSUME DurablePartyAssumption ==
  /\ Player \subseteq Nat /\ Party \subseteq Nat /\ Player \cap Party = {}
  /\ \A f \in Founded :
       /\ f.rosters \in [Party -> Seq(Player)] /\ f.linked \subseteq Player
       /\ \A x \in Party :
            /\ f.rosters[x] # <<>> => f.rosters[x][1] \in f.linked
            /\ IsInjective(f.rosters[x]) /\ Len(f.rosters[x]) <= MaxMembers
            /\ \A y \in Party \ {x} : ToSet(f.rosters[x]) \cap ToSet(f.rosters[y]) = {}
       /\ f.queued \subseteq {x \in Party : f.rosters[x] # <<>>}
  /\ IsFiniteSet(Player) /\ IsFiniteSet(Party) /\ IsFiniteSet(Session)
  /\ None \notin Player \union Party \union Claim \union Session
  /\ Operation \subseteq AllOperations
  /\ MaxCalls \in Nat
  /\ SoloMixes \in BOOLEAN

VARIABLES
  account,  \* players and external_identities: "guest", "linked" or "gone"
  party,    \* parties and party_members, the oldest member first
  invites,  \* party_invites: the owners of a party's open invitations
  claim,    \* party_queue_claims
  owner,    \* the session that holds the lock of a player's or party's row
  tx,       \* the transaction of a session
  calls     \* how many calls have begun

tables == <<account, party, invites, claim>>
vars == <<account, party, invites, claim, owner, tx, calls>>

Row == Player \union Party

NoParty == [members |-> <<>>, leader |-> None, version |-> 0]

(* Of a snapshot only the players are kept, and which of them have another *)
(* loadout revision by now: revisions never come back.                     *)
NoClaim == [status |-> "none", party |-> None, requester |-> None, version |-> 0,
            roster |-> {}, changed |-> {}, expired |-> FALSE]

NewClaim(x, p, version, roster) ==
  [status |-> "active", party |-> x, requester |-> p, version |-> version,
   roster |-> roster, changed |-> {}, expired |-> FALSE]

QueueClaim(x) == NewClaim(x, party[x].leader, party[x].version, ToSet(party[x].members))

Idle == [op |-> "none", actor |-> None, other |-> None, claims |-> {}, hint |-> None,
         stage |-> "none", wants |-> <<>>, tries |-> 0]

(* The party that its first member founded and the others joined, queued   *)
(* or not.                                                                 *)
Joined(members) ==
  IF members = <<>> THEN NoParty
  ELSE [members |-> members, leader |-> members[1], version |-> Len(members)]

Init ==
  /\ \E f \in Founded :
       /\ account = [p \in Player |-> IF p \in f.linked THEN "linked" ELSE "guest"]
       /\ party = [x \in Party |-> Joined(f.rosters[x])]
       /\ \E claimOf \in Injection(f.queued, Claim) :
            claim = [c \in Claim |->
              IF \E x \in f.queued : claimOf[x] = c
              THEN QueueClaim(CHOOSE x \in f.queued : claimOf[x] = c) ELSE NoClaim]
  /\ invites = [x \in Party |-> ToSet(party[x].members) \cap {party[x].leader}]
  /\ owner = [r \in Row |-> None]
  /\ tx = [w \in Session |-> Idle]
  /\ calls = 0

(***************************************************************************)
(* Reading the tables.                                                     *)
(***************************************************************************)
Exists(x) == party[x].members # <<>>

Members(x) == ToSet(party[x].members)

PartyOf(p) == IF \E x \in Party : p \in Members(x)
              THEN CHOOSE x \in Party : p \in Members(x)
              ELSE None

Unsettled(c) == claim[c].status \in {"active", "cancelling"} /\ ~claim[c].expired

NotQueued(x) == \A c \in Claim : Unsettled(c) => claim[c].party # x

NotQueuedSolo(p) ==
  \A c \in Claim : Unsettled(c) /\ claim[c].party = None => claim[c].requester # p

(* A member's loadout is locked by the party's claim, another player's by  *)
(* their own.                                                              *)
LoadoutUnlocked(p) ==
  IF PartyOf(p) = None THEN NotQueuedSolo(p) ELSE NotQueued(PartyOf(p))

Leads(p, x) == Exists(x) /\ party[x].leader = p

RowExists(r) == IF r \in Player THEN account[r] # "gone" ELSE Exists(r)

(***************************************************************************)
(* Writing them.                                                           *)
(***************************************************************************)
(* The oldest linked member, or else the oldest. *)
Successor(members) ==
  LET linked == {i \in DOMAIN members : account[members[i]] = "linked"}
  IN  members[IF linked = {} THEN 1 ELSE Min(linked)]

OthersOf(x, p) ==
  LET members == party[x].members
  IN  RemoveAt(members, CHOOSE i \in DOMAIN members : members[i] = p)

LeaderAfter_bug(x, p) == party[x].leader
LeaderAfter(x, p) ==
  IF Leads(p, x) THEN Successor(OthersOf(x, p)) ELSE party[x].leader

Changed(x, members, leader) ==
  [members |-> members, leader |-> leader, version |-> party[x].version + 1]

(* A party that nobody is left in is deleted. *)
PartyAfter(x, p) ==
  IF OthersOf(x, p) = <<>> THEN NoParty ELSE Changed(x, OthersOf(x, p), LeaderAfter(x, p))

(* Rows that refer to a deleted party, or to a deleted player, go with it. *)
ClaimsAfter(parties, gone, changed) ==
  [c \in Claim |->
    IF \/ claim[c].requester \in gone
       \/ claim[c].party # None /\ parties[claim[c].party] = NoParty
    THEN NoClaim
    ELSE [claim[c] EXCEPT !.changed = @ \union (claim[c].roster \cap changed)]]

InvitesAfter(parties, gone) ==
  [x \in Party |-> IF parties[x] = NoParty THEN {} ELSE invites[x] \ gone]

(* The roster is written; a player may be deleted, a loadout may change.   *)
Write(parties, gone, changed) ==
  /\ party' = parties
  /\ claim' = ClaimsAfter(parties, gone, gone \union changed)
  /\ account' = [p \in Player |-> IF p \in gone THEN "gone" ELSE account[p]]

(***************************************************************************)
(* Locks.                                                                  *)
(***************************************************************************)
Holds(w, r) == owner[r] = w

Ascending(R) ==
  [i \in 1..Cardinality(R) |-> CHOOSE r \in R : Cardinality({q \in R : q < r}) = i - 1]

(* What a transaction locks between its caller's row and its decision. *)
SuccessorRows(x, p) == IF Leads(p, x) THEN Ascending(Members(x) \ {p}) ELSE <<>>

FirstWants(op, p, other, claims) ==
  LET x == PartyOf(p) IN
  CASE op = "start" -> Tail(Ascending(UNION {claim[c].roster : c \in claims}))
    [] op = "merge" -> <<other>>
    [] op = "accept" -> IF x \in {None, other} THEN <<other>> ELSE <<>>
    [] op \in {"link", "loadout"} -> <<>>
    [] op \in {"leave", "delete"} -> IF x = None THEN <<>> ELSE Append(SuccessorRows(x, p), x)
    [] op = "transfer" -> IF x # None /\ Leads(p, x) /\ other \in Members(x) THEN <<other, x>> ELSE <<>>
    [] OTHER -> IF x = None THEN <<>> ELSE <<x>>

(* A row that is gone when its turn comes is not there to be locked. *)
Lock(w) ==
  /\ tx[w].wants # <<>>
  /\ LET r == Head(tx[w].wants) IN
     /\ RowExists(r) => owner[r] \in {None, w}
     /\ owner' = IF RowExists(r) THEN [owner EXCEPT ![r] = w] ELSE owner
  /\ tx' = [tx EXCEPT ![w].wants = Tail(@)]
  /\ UNCHANGED <<tables, calls>>

Ready(w, op) == tx[w].op = op /\ tx[w].wants = <<>> /\ tx[w].stage # "again"

Released(w) == [r \in Row |-> IF owner[r] = w THEN None ELSE owner[r]]

End(w) ==
  /\ tx' = [tx EXCEPT ![w] = Idle]
  /\ owner' = Released(w)
  /\ UNCHANGED calls

Retried == {"leave", "transfer", "claim", "link", "merge", "delete"}

(***************************************************************************)
(* A call: partyActor locks the caller's row and reads the membership.     *)
(***************************************************************************)
Locking(w, op, p, other, claims, tries) ==
  /\ owner[p] = None /\ account[p] # "gone"
  /\ owner' = [owner EXCEPT ![p] = w]
  /\ tx' = [tx EXCEPT ![w] =
       [op |-> op, actor |-> p, other |-> other, claims |-> claims, hint |-> PartyOf(p),
        stage |-> "first", wants |-> FirstWants(op, p, other, claims), tries |-> tries]]
  /\ UNCHANGED tables

Unused(x) == ~Exists(x) /\ \A w \in Session : x \notin {tx[w].hint, tx[w].other} \union ToSet(tx[w].wants)

(* Bound: every founder will find an id. *)
IdLeft == Cardinality({w \in Session : tx[w].op = "invite"}) < Cardinality({x \in Party : Unused(x)})

Unmixed(op, p, other) ==
  \/ SoloMixes
  \/ /\ op = "invite" /\ PartyOf(p) = None => NotQueuedSolo(p)
     /\ op = "merge" => NotQueuedSolo(other) /\ \A w \in Session : tx[w].op = "claim" => tx[w].actor # other
     /\ op = "claim" => \A w \in Session : tx[w].op = "merge" => tx[w].other # p

Call(w, op, p, other, claims) ==
  /\ tx[w] = Idle
  /\ op \in Operation
  /\ calls < MaxCalls /\ calls' = calls + 1
  /\ Unmixed(op, p, other)
  /\ Locking(w, op, p, other, claims, 0)

CallParty(w) ==
  \E p \in Player, op \in {"invite", "revoke", "leave", "disband", "loadout", "link", "delete"} :
    /\ op = "invite" /\ PartyOf(p) = None => IdLeft
    /\ op = "link" => account[p] = "guest"
    /\ op = "delete" => account[p] = "linked"
    /\ Call(w, op, p, None, {})

CallAccept(w) == \E p \in Player, x \in Party : invites[x] # {} /\ Call(w, "accept", p, x, {})

CallTransfer(w) == \E p \in Player : \E q \in Player \ {p} : Call(w, "transfer", p, q, {})

CallMerge(w) ==
  \E p \in Player : \E q \in Player \ {p} :
    account[p] = "guest" /\ account[q] = "linked" /\ Call(w, "merge", p, q, {})

CallClaim(w) ==
  \E p \in Player, c \in Claim :
    /\ claim[c] = NoClaim /\ \A v \in Session : c \notin tx[v].claims
    /\ Call(w, "claim", p, None, {c})

CallCancel(w) ==
  \E p \in Player, c \in Claim, op \in {"cancel", "complete"} :
    claim[c] # NoClaim /\ Call(w, op, p, None, {c})

(* The arena's run begins with the rosters it was given for these claims. *)
CallStart(w) ==
  \E K \in (SUBSET Claim) \ {{}} :
    /\ \A c \in K : claim[c] # NoClaim
    /\ \A c, d \in K : c = d \/ claim[c].roster \cap claim[d].roster = {}
    /\ Call(w, "start", Ascending(UNION {claim[c].roster : c \in K})[1], None, K)

(***************************************************************************)
(* Membership.  Each decision is made under the party's lock, from rows    *)
(* that are read again.                                                    *)
(***************************************************************************)
(* The caller is still a member of the party it was a member of. *)
Current(w) ==
  LET x == tx[w].hint IN x # None /\ Holds(w, x) /\ PartyOf(tx[w].actor) = x

CurrentLeader(w) == Current(w) /\ Leads(tx[w].actor, tx[w].hint)

MayInvite(w) ==
  /\ account[tx[w].actor] = "linked"
  /\ \/ tx[w].hint = None
     \/ CurrentLeader(w) /\ NotQueued(tx[w].hint) /\ Cardinality(Members(tx[w].hint)) < MaxMembers

Invite(w) ==
  LET p == tx[w].actor IN
  /\ Ready(w, "invite") /\ MayInvite(w)
  /\ \/ /\ tx[w].hint # None
        /\ invites' = [invites EXCEPT ![tx[w].hint] = @ \union {p}]
        /\ UNCHANGED party
     \/ /\ tx[w].hint = None
        /\ \E x \in Party :
             /\ Unused(x)
             /\ party' = [party EXCEPT ![x] = [members |-> <<p>>, leader |-> p, version |-> 1]]
             /\ invites' = [invites EXCEPT ![x] = {p}]
  /\ End(w) /\ UNCHANGED <<account, claim>>

MayRevoke(w) == account[tx[w].actor] = "linked" /\ CurrentLeader(w)

Revoke(w) ==
  /\ Ready(w, "revoke") /\ MayRevoke(w)
  /\ invites' = [invites EXCEPT ![tx[w].hint] = {}]
  /\ End(w) /\ UNCHANGED <<account, party, claim>>

MayAccept_bug(w) ==
  LET p == tx[w].actor  x == tx[w].other IN
  /\ Holds(w, x) /\ PartyOf(p) = None /\ invites[x] # {}
  /\ NotQueuedSolo(p)
  /\ Cardinality(Members(x)) < MaxMembers
MayAccept_solo_bug(w) ==
  LET p == tx[w].actor  x == tx[w].other IN
  /\ Holds(w, x) /\ PartyOf(p) = None /\ invites[x] # {}
  /\ NotQueued(x)
  /\ Cardinality(Members(x)) < MaxMembers
MayAccept(w) ==
  LET p == tx[w].actor  x == tx[w].other IN
  /\ Holds(w, x) /\ PartyOf(p) = None /\ invites[x] # {}
  /\ NotQueuedSolo(p) /\ NotQueued(x)
  /\ Cardinality(Members(x)) < MaxMembers

Accept(w) ==
  LET x == tx[w].other IN
  /\ Ready(w, "accept") /\ MayAccept(w)
  /\ party' = [party EXCEPT ![x] = Changed(x, Append(@.members, tx[w].actor), @.leader)]
  /\ End(w) /\ UNCHANGED <<account, invites, claim>>

(* A new leader's row must not be locked by another: a foreign key refers  *)
(* to it.                                                                  *)
NewLeaderRow(w) ==
  LET x == PartyOf(tx[w].actor)  p == tx[w].actor IN
  IF x # None /\ Leads(p, x) /\ OthersOf(x, p) # <<>> THEN LeaderAfter(x, p) ELSE None

LeaderFree(w) == NewLeaderRow(w) # None => owner[NewLeaderRow(w)] \in {None, w}

MayLeave(w) == Current(w) /\ NotQueued(tx[w].hint)

Leave(w) ==
  LET x == tx[w].hint  p == tx[w].actor  after == [party EXCEPT ![x] = PartyAfter(x, p)] IN
  /\ Ready(w, "leave") /\ MayLeave(w) /\ LeaderFree(w)
  /\ Write(after, {}, {}) /\ invites' = InvitesAfter(after, {})
  /\ End(w)

MayDisband(w) == CurrentLeader(w) /\ NotQueued(tx[w].hint)

Disband(w) ==
  LET after == [party EXCEPT ![tx[w].hint] = NoParty] IN
  /\ Ready(w, "disband") /\ MayDisband(w)
  /\ Write(after, {}, {}) /\ invites' = InvitesAfter(after, {})
  /\ End(w)

MayTransfer(w) ==
  CurrentLeader(w) /\ NotQueued(tx[w].hint) /\ tx[w].other \in Members(tx[w].hint)

Transfer(w) ==
  LET x == tx[w].hint IN
  /\ Ready(w, "transfer") /\ MayTransfer(w)
  /\ party' = [party EXCEPT ![x] = Changed(x, @.members, tx[w].other)]
  /\ End(w) /\ UNCHANGED <<account, invites, claim>>

(***************************************************************************)
(* Queue claims.                                                           *)
(***************************************************************************)
MayQueueSolo(w) == tx[w].hint = None /\ NotQueuedSolo(tx[w].actor)

MayQueue(w) == CurrentLeader(w) /\ NotQueued(tx[w].hint)

QueueSolo(w) ==
  LET p == tx[w].actor IN
  /\ Ready(w, "claim") /\ MayQueueSolo(w)
  /\ \E c \in tx[w].claims : claim' = [claim EXCEPT ![c] = NewClaim(None, p, 1, {p})]
  /\ End(w) /\ UNCHANGED <<account, party, invites>>

(* The other members' rows are locked while the party's is held. *)
Snapshot(w) ==
  /\ Ready(w, "claim") /\ tx[w].stage = "first" /\ MayQueue(w)
  /\ tx' = [tx EXCEPT ![w].stage = "snapshot", ![w].wants = Ascending(Members(tx[w].hint) \ {tx[w].actor})]
  /\ UNCHANGED <<tables, owner, calls>>

Queue(w) ==
  LET x == tx[w].hint IN
  /\ Ready(w, "claim") /\ tx[w].stage = "snapshot"
  /\ \E c \in tx[w].claims :
       claim' = [claim EXCEPT ![c] = QueueClaim(x)]
  /\ End(w) /\ UNCHANGED <<account, party, invites>>

(* partyQueueClaimByRecord accepts the claim for this caller. *)
Canonical(c, x, p) ==
  claim[c].party = x /\ claim[c].version = party[x].version /\ {p, party[x].leader} \subseteq claim[c].roster

MayCancel(w, c) ==
  LET p == tx[w].actor IN
  /\ claim[c].status = "active"
  /\ \/ Current(w) /\ Canonical(c, tx[w].hint, p)
     \/ tx[w].hint = None /\ claim[c].party = None /\ claim[c].requester = p

Cancel(w) ==
  /\ Ready(w, "cancel")
  /\ \E c \in tx[w].claims :
       MayCancel(w, c) /\ claim' = [claim EXCEPT ![c].status = "cancelling"]
  /\ End(w) /\ UNCHANGED <<account, party, invites>>

MayComplete(w, c) ==
  /\ claim[c].status = "cancelling"
  /\ Current(w) \/ tx[w].hint = None
  /\ IF claim[c].party = None THEN claim[c].requester = tx[w].actor ELSE claim[c].party = tx[w].hint

Complete(w) ==
  /\ Ready(w, "complete")
  /\ \E c \in tx[w].claims :
       MayComplete(w, c) /\ claim' = [claim EXCEPT ![c].status = "cancelled"]
  /\ End(w) /\ UNCHANGED <<account, party, invites>>

MayStart_bug(w) ==
  \A c \in tx[w].claims : claim[c].status \in {"active", "cancelling"} /\ ~claim[c].expired /\ claim[c].changed = {}
MayStart(w) ==
  \A c \in tx[w].claims : claim[c].status = "active" /\ ~claim[c].expired /\ claim[c].changed = {}

(* The loadouts are spent, which makes another revision of each. *)
Start(w) ==
  LET spent == UNION {claim[c].roster : c \in tx[w].claims} IN
  /\ Ready(w, "start") /\ MayStart(w)
  /\ claim' = [c \in Claim |->
       [claim[c] EXCEPT !.status = IF c \in tx[w].claims THEN "completed" ELSE @,
                        !.changed = @ \union (claim[c].roster \cap spent)]]
  /\ End(w) /\ UNCHANGED <<account, party, invites>>

MayChangeLoadout(w) == LoadoutUnlocked(tx[w].actor)

ChangeLoadout(w) ==
  /\ Ready(w, "loadout") /\ MayChangeLoadout(w)
  /\ Write(party, {}, {tx[w].actor})
  /\ End(w) /\ UNCHANGED invites

(***************************************************************************)
(* Accounts: linking a guest, merging a guest into a linked account, and   *)
(* deletion.                                                               *)
(***************************************************************************)
MayLink(w) == account[tx[w].actor] = "guest"

Link(w) ==
  /\ Ready(w, "link") /\ MayLink(w)
  /\ account' = [account EXCEPT ![tx[w].actor] = "linked"]
  /\ End(w) /\ UNCHANGED <<party, invites, claim>>

(* With both players locked, the parties of both are locked in order; a    *)
(* leader's possible successors come before them.                          *)
Involve(w) ==
  LET p == tx[w].actor  x == PartyOf(p)  y == PartyOf(tx[w].other) IN
  /\ Ready(w, "merge") /\ tx[w].stage = "first"
  /\ tx' = [tx EXCEPT ![w].stage = "involved",
       ![w].wants = (IF x # None /\ x # y THEN SuccessorRows(x, p) ELSE <<>>)
                    \o Ascending({x, y} \ {None})]
  /\ UNCHANGED <<tables, owner, calls>>

Renamed(members, p, q) == [i \in DOMAIN members |-> IF members[i] = p THEN q ELSE members[i]]

RenamedLeader(x, p, q) == IF Leads(p, x) THEN q ELSE party[x].leader

Adopted(p, q) == [x \in Party |-> IF p \in invites[x] THEN (invites[x] \ {p}) \union {q} ELSE invites[x]]

(* The rows the merge needs are there, and nobody is queued. *)
MayMerge(w) ==
  LET p == tx[w].actor  q == tx[w].other  x == PartyOf(p)  y == PartyOf(q) IN
  /\ tx[w].stage = "involved" /\ account[p] = "guest" /\ account[q] # "gone"
  /\ \A z \in Party : Holds(w, z) => NotQueued(z)
  /\ IF x = None THEN NotQueuedSolo(p)
     ELSE /\ y = None => NotQueuedSolo(q)
          /\ Holds(w, x)

SplitParties(w) ==
  LET x == PartyOf(tx[w].actor)  y == PartyOf(tx[w].other) IN x # None /\ y # None /\ x # y

Merge(w) ==
  LET p == tx[w].actor  q == tx[w].other  x == PartyOf(p) IN
  /\ Ready(w, "merge") /\ MayMerge(w) /\ ~SplitParties(w)
  /\ LET members == IF PartyOf(q) = x THEN OthersOf(x, p) ELSE Renamed(party[x].members, p, q)
         after == IF x = None THEN party
                  ELSE [party EXCEPT ![x] = Changed(x, members, RenamedLeader(x, p, q))]
     IN  Write(after, {p}, {q})
  /\ invites' = Adopted(p, q)
  /\ End(w)

(* The guest of another party leaves it, and its invitations are revoked. *)
MergeSplit(w) ==
  LET p == tx[w].actor  x == PartyOf(p)  after == [party EXCEPT ![x] = PartyAfter(x, p)] IN
  /\ Ready(w, "merge") /\ MayMerge(w) /\ SplitParties(w) /\ LeaderFree(w)
  /\ Write(after, {p}, {tx[w].other}) /\ invites' = InvitesAfter(after, {p})
  /\ End(w)

(* A party that was disbanded meanwhile does not keep an account. *)
MayDelete(w) ==
  LET p == tx[w].actor IN
  IF PartyOf(p) = None THEN tx[w].hint = None => NotQueuedSolo(p) ELSE MayLeave(w)

Delete(w) ==
  LET p == tx[w].actor  x == PartyOf(p)
      after == IF x = None THEN party ELSE [party EXCEPT ![x] = PartyAfter(x, p)] IN
  /\ Ready(w, "delete") /\ MayDelete(w) /\ LeaderFree(w)
  /\ Write(after, {p}, {}) /\ invites' = InvitesAfter(after, {p})
  /\ End(w)

(***************************************************************************)
(* A call that writes nothing: it is refused, it finds what it asks for    *)
(* already done, or it names an old version of the roster.                 *)
(***************************************************************************)
Granted(w) ==
  CASE tx[w].op = "invite" -> MayInvite(w)
    [] tx[w].op = "revoke" -> MayRevoke(w)
    [] tx[w].op = "accept" -> MayAccept(w)
    [] tx[w].op = "leave" -> MayLeave(w)
    [] tx[w].op = "disband" -> MayDisband(w)
    [] tx[w].op = "transfer" -> MayTransfer(w)
    [] tx[w].op = "claim" -> MayQueueSolo(w) \/ MayQueue(w)
    [] tx[w].op = "cancel" -> \E c \in tx[w].claims : MayCancel(w, c)
    [] tx[w].op = "complete" -> \E c \in tx[w].claims : MayComplete(w, c)
    [] tx[w].op = "start" -> MayStart(w)
    [] tx[w].op = "loadout" -> MayChangeLoadout(w)
    [] tx[w].op = "link" -> MayLink(w)
    [] tx[w].op = "merge" -> MayMerge(w)
    [] tx[w].op = "delete" -> MayDelete(w)

Versioned == {"leave", "disband", "transfer"}

Answer(w) ==
  /\ tx[w] # Idle /\ Ready(w, tx[w].op)
  /\ tx[w].op = "merge" => tx[w].stage = "involved"
  /\ Granted(w) => tx[w].op \in Versioned
  /\ End(w) /\ UNCHANGED tables

(***************************************************************************)
(* Deadlocks.                                                              *)
(***************************************************************************)
(* The row a transaction cannot go on without. *)
Needs(w) ==
  IF tx[w].wants # <<>> THEN Head(tx[w].wants)
  ELSE IF \/ tx[w].op \in {"leave", "delete"} /\ Granted(w)
          \/ Ready(w, "merge") /\ MayMerge(w) /\ SplitParties(w)
       THEN NewLeaderRow(w)
       ELSE None

Blocker(w) ==
  IF tx[w] = Idle \/ Needs(w) = None \/ tx[w].stage = "again" THEN None
  ELSE IF RowExists(Needs(w)) /\ owner[Needs(w)] # w THEN owner[Needs(w)] ELSE None

(* The waiters of a cycle wait for one another and for nobody else. *)
Deadlocked(w) == \E S \in SUBSET Session : w \in S /\ {Blocker(v) : v \in S} = S

MayTryAgain(w) == tx[w].op \in Retried /\ tx[w].tries < 2

(* PostgreSQL fails one transaction of a cycle, and its locks go. *)
BreakDeadlock(w) ==
  /\ Deadlocked(w)
  /\ owner' = Released(w)
  /\ tx' = [tx EXCEPT ![w] =
       IF MayTryAgain(w) THEN [@ EXCEPT !.stage = "again", !.hint = None, !.wants = <<>>] ELSE Idle]
  /\ UNCHANGED <<tables, calls>>

TryAgain(w) ==
  /\ tx[w].stage = "again"
  /\ Locking(w, tx[w].op, tx[w].actor, tx[w].other, tx[w].claims, tx[w].tries + 1)
  /\ UNCHANGED calls

(* The caller was merged or deleted while it waited. *)
GiveUp(w) ==
  /\ tx[w].stage = "again" /\ account[tx[w].actor] = "gone"
  /\ End(w) /\ UNCHANGED tables

(***************************************************************************)
(* Time: a claim lives for six hours, an invitation for a day.             *)
(***************************************************************************)
ExpireClaim ==
  /\ \E c \in Claim : Unsettled(c) /\ claim' = [claim EXCEPT ![c].expired = TRUE]
  /\ UNCHANGED <<account, party, invites, owner, tx, calls>>

ExpireInvite ==
  /\ \E x \in Party : \E p \in invites[x] : invites' = [invites EXCEPT ![x] = @ \ {p}]
  /\ UNCHANGED <<account, party, claim, owner, tx, calls>>

Begin(w) ==
  CallParty(w) \/ CallAccept(w) \/ CallTransfer(w) \/ CallMerge(w) \/ CallClaim(w) \/ CallCancel(w) \/ CallStart(w)

Decide(w) ==
  \/ Invite(w) \/ Revoke(w) \/ Accept(w) \/ Leave(w) \/ Disband(w) \/ Transfer(w)
  \/ QueueSolo(w) \/ Snapshot(w) \/ Queue(w) \/ Cancel(w) \/ Complete(w) \/ Start(w)
  \/ ChangeLoadout(w) \/ Link(w) \/ Involve(w) \/ Merge(w) \/ MergeSplit(w) \/ Delete(w)
  \/ Answer(w) \/ GiveUp(w)

Next ==
  \/ \E w \in Session : Begin(w) \/ Lock(w) \/ Decide(w) \/ BreakDeadlock(w) \/ TryAgain(w)
  \/ ExpireClaim
  \/ ExpireInvite

Spec == Init /\ [][Next]_vars
=============================================================================
