---------------------------- MODULE AdmissionGate ----------------------------
(***************************************************************************)
(* The door of a public game server: createGameServer in app.ts with       *)
(* atomic party allocation on, the GameLift session gate and the adapter   *)
(* behind it.                                                              *)
(*                                                                         *)
(* The matchmaker reserves one GameLift player session for every member of *)
(* a queue claim.  Each member opens a socket and presents its session; the *)
(* server inspects it, checks the player, and stages the member until the  *)
(* whole party is there.  Then all sessions are accepted in one adapter    *)
(* call and all members enter the arena in one step.  Whatever goes wrong, *)
(* every session the server knows is removed from GameLift, with retries   *)
(* that outlast an outage of the adapter.                                  *)
(*                                                                         *)
(* The server is one JavaScript thread, so an action is what runs between  *)
(* two awaits.  The adapter is another process: its calls take effect when *)
(* they want to, and their answers may be lost.                            *)
(*                                                                         *)
(* Simplifications.  Time is not a number: a timer is an action that may   *)
(* happen whenever it is armed.  The arena decides on its own when it      *)
(* releases, forgets or refuses members (HotArena models it).  Every claim *)
(* has the same roster.  The signature checks of a session are one         *)
(* nondeterministic refusal.  One cancellation is reconciled at a time.    *)
(*                                                                         *)
(* An operator named X_bug or X_bug2 is X with a plausible bug; the        *)
(* specification does not use it.                                          *)
(***************************************************************************)
EXTENDS Naturals, FiniteSets

CONSTANTS
  Player,           \* the roster of every claim
  ClaimCount,       \* queue claims of the party, one after another
  Peer,             \* sockets; each says one hello
  RemovalAttempts,  \* 3 in the code: tries before a removal is declared failed
  NoPeer, NoBatch, NoEntry   \* null and undefined

Claim == 1..ClaimCount
Session == Player \X Claim   \* a player session is its player and its claim
PlayerOf(s) == s[1]
ClaimOf(s) == s[2]
SessionsOf(c) == Player \X {c}

ASSUME GateAssumption ==
  /\ ClaimCount \in Nat \ {0}
  /\ RemovalAttempts \in Nat \ {0}
  /\ IsFiniteSet(Player) /\ Player # {}
  /\ NoPeer \notin Peer

VARIABLES
  gl,       \* GameLift's status of each session; "gone" is COMPLETED or TIMEDOUT
  entry,    \* activePlayerSessions
  failed,   \* failedPlayerSessionRemovals
  batch,    \* every party batch ever staged, named after its first session
  pending,  \* pendingAtomicParties: the open batch of each claim
  conn,     \* the socket and how far its hello has come
  room,     \* the arena's members: whose claim seats them, on which socket
  rec,      \* the cancellation being reconciled
  admitted, \* history: claims whose party was seated
  reported  \* history: sessions reported as released to the matchmaker

gateVars == <<entry, failed>>
batchVars == <<batch, pending>>
recVars == <<rec, reported>>
vars == <<gl, entry, failed, batch, pending, conn, room, rec, admitted, reported>>

(* attempt counts the tries of a running removal loop; 0: no loop runs. *)
Entries == [peer: Peer \union {NoPeer}, known: BOOLEAN, removing: BOOLEAN,
            timer: {"none", "reconnect", "recovery"}, attempt: 0..RemovalAttempts]

(***************************************************************************)
(* "accepting": commitPendingAtomicParty awaits acceptPublicPartySessions. *)
(* "joining": it awaits rooms.commitPublicParty.  call is what the adapter *)
(* has made of the accept-party call, which it performs even when the      *)
(* server stops waiting.                                                   *)
(***************************************************************************)
Batches == [members: SUBSET Player, settled: BOOLEAN,
            stage: {"staging", "accepting", "joining", "over"},
            call: {"none", "sent", "accepted", "refused"}]

(***************************************************************************)
(* "joining": a reconnected socket awaits rooms.handleMessage.  "refused"  *)
(* covers a refused hello up to its ws.close: nothing it still does changes *)
(* any state here.                                                         *)
(***************************************************************************)
Connections == [ws: {"open", "closing", "closed"}, session: Session \union {NoEntry},
                pc: {"idle", "inspecting", "preparing", "staged", "joining", "game", "refused"}]

Members == [claim: Claim, peer: Peer \union {NoPeer}]

(* A missing binding, batch, member or socket is none of the real ones. *)
ASSUME NullAssumption ==
  /\ NoBatch \notin Session \union Batches
  /\ NoEntry \notin Session \union Entries \union Members

TypeOK ==
  /\ gl \in [Session -> {"none", "RESERVED", "ACTIVE", "gone"}]
  /\ entry \in [Session -> Entries \union {NoEntry}]
  /\ failed \subseteq Session
  /\ batch \in [Session -> Batches \union {NoBatch}]
  /\ pending \in [Claim -> Session \union {NoBatch}]
  /\ conn \in [Peer -> Connections]
  /\ room \in [Player -> Members \union {NoEntry}]
  /\ rec \in [stage: {"idle", "verifying", "draining", "removing"}, claim: Claim,
              wait: SUBSET Session, evict: SUBSET Player, left: SUBSET Session]
  /\ admitted \subseteq Claim /\ reported \subseteq Session

Init ==
  /\ gl = [s \in Session |-> "none"]
  /\ entry = [s \in Session |-> NoEntry]
  /\ failed = {}
  /\ batch = [s \in Session |-> NoBatch]
  /\ pending = [c \in Claim |-> NoBatch]
  /\ conn = [p \in Peer |-> [ws |-> "open", session |-> NoEntry, pc |-> "idle"]]
  /\ room = [m \in Player |-> NoEntry]
  /\ rec = [stage |-> "idle", claim |-> 1, wait |-> {}, evict |-> {}, left |-> {}]
  /\ admitted = {} /\ reported = {}

-----------------------------------------------------------------------------
(* Reading the state. *)

Open(p) == conn[p].ws = "open"
At(p, pc) == conn[p].pc = pc

(* pendingPlayerSessions: a hello of the session is still in flight. *)
PendingSessions ==
  {conn[p].session : p \in {q \in Peer : conn[q].pc \in {"inspecting", "preparing", "staged"}}}

Roster(b) == batch[b].members \X {ClaimOf(b)}
StagedPeers(b) == {p \in Peer : At(p, "staged") /\ conn[p].session \in Roster(b)}
PeerOf(s) == CHOOSE p \in Peer : At(p, "staged") /\ conn[p].session = s
AllPeersActive(b) == \A p \in StagedPeers(b) : Open(p)

(* A removal loop is running, between two tries or inside one. *)
Removing(s) == entry[s] # NoEntry /\ entry[s].attempt > 0

Close(ws) == IF ws = "open" THEN "closing" ELSE ws

-----------------------------------------------------------------------------
(* Functions on the bindings (activePlayerSessions) and on the sockets.    *)
(* They are composed by the handlers, so they take and return values.      *)

Bound(p) == [peer |-> p, known |-> TRUE, removing |-> FALSE, timer |-> "none", attempt |-> 0]

(* finishPlayerSessionRemoval, up to its first await. *)
StartRemoval(e) ==
  IF e = NoEntry \/ e.removing THEN e
  ELSE [e EXCEPT !.removing = TRUE, !.timer = "none", !.attempt = 1]

RetainAndRemove_bug(E, S) ==
  [s \in Session |-> IF s \notin S THEN E[s] ELSE StartRemoval(E[s])]

(* retainReservationForRemoval, then finishPlayerSessionRemoval. *)
RetainAndRemove(E, S) ==
  [s \in Session |-> IF s \notin S THEN E[s]
                     ELSE StartRemoval(IF E[s] = NoEntry THEN Bound(NoPeer) ELSE E[s])]

Unbind_bug(e, p, immediate) ==
  IF e = NoEntry THEN e
  ELSE IF e.peer # p \/ e.removing THEN e
  ELSE IF immediate THEN StartRemoval([e EXCEPT !.peer = NoPeer])
  ELSE [e EXCEPT !.peer = NoPeer]

(* removePlayerSession: the binding of a closed or refused socket. *)
Unbind(e, p, immediate) ==
  IF e = NoEntry THEN e
  ELSE IF e.peer # p \/ e.removing THEN e
  ELSE IF immediate THEN StartRemoval([e EXCEPT !.peer = NoPeer])
  ELSE [e EXCEPT !.peer = NoPeer, !.timer = "reconnect"]

(***************************************************************************)
(* The releasePublicMember callback for one released member: its binding   *)
(* is found by the player of the reservation, or by the socket.            *)
(***************************************************************************)
Matches(e, s, m, peer) ==
  /\ e # NoEntry
  /\ \/ e.known /\ PlayerOf(s) = m
     \/ peer # NoPeer /\ e.peer = peer

(* What releasing the members R of the arena does to bindings and sockets. *)
Hit(E, R) == {s \in Session : \E m \in R : Matches(E[s], s, m, room[m].peer)}
AfterRelease(E, R) ==
  [s \in Session |-> IF s \in Hit(E, R)
                     THEN StartRemoval([E[s] EXCEPT !.peer = NoPeer]) ELSE E[s]]
ClosedByRelease(E, R) ==
  ({E[s].peer : s \in Hit(E, R)} \union {room[m].peer : m \in R}) \ {NoPeer}
CloseSockets(C, P) == [p \in Peer |-> IF p \in P THEN [C[p] EXCEPT !.ws = Close(@)] ELSE C[p]]
Vacate(R) == [m \in Player |-> IF m \in R THEN NoEntry ELSE room[m]]

(* releasePublicReservations: every member of a party that one of the players M is in. *)
Evicted(M) ==
  {m \in Player : room[m] # NoEntry /\ \E x \in M : room[x] # NoEntry /\ room[x].claim = room[m].claim}

RefuseAll(C, P) == [p \in Peer |-> IF p \in P THEN [C[p] EXCEPT !.pc = "refused"] ELSE C[p]]

(***************************************************************************)
(* releasePendingAtomicParty for the batches B of distinct claims: settle  *)
(* them, forget them, refuse their staged sockets, and remove every        *)
(* session they know, and the extra ones.  A batch that is settled already *)
(* is left alone.  E and C are the bindings and sockets the caller has     *)
(* changed, and a commit that ends here takes its batch to "over".         *)
(***************************************************************************)
Unsettled(B) == {b \in B : ~batch[b].settled}

Forget(B) == pending' = [c \in Claim |-> IF pending[c] \in B THEN NoBatch ELSE pending[c]]

Release(B, extra, E, C) ==
  LET unsettled == Unsettled(B)
  IN  /\ Forget(unsettled)
      /\ entry' = RetainAndRemove(E, extra \union UNION {Roster(b) : b \in unsettled})
      /\ conn' = RefuseAll(C, UNION {StagedPeers(b) : b \in unsettled})

ReleaseBatches(B, extra, E, C) ==
  /\ batch' = [b \in Session |-> IF b \in Unsettled(B) THEN [batch[b] EXCEPT !.settled = TRUE]
                                 ELSE batch[b]]
  /\ Release(B, extra, E, C)

EndCommit(b, E, C) ==
  /\ batch' = [batch EXCEPT ![b].settled = TRUE, ![b].stage = "over"]
  /\ Release({b}, {}, E, C)

-----------------------------------------------------------------------------
(* The matchmaker reserves the sessions of the party's next claim: every   *)
(* previous one was admitted, or holds no reservation any more.            *)
CreateSessions(c) ==
  /\ \A s \in SessionsOf(c) : gl[s] = "none"
  /\ \A d \in Claim : d < c => d \in admitted \/ \A s \in SessionsOf(d) : gl[s] = "gone"
  /\ gl' = [s \in Session |-> IF ClaimOf(s) = c THEN "RESERVED" ELSE gl[s]]
  /\ UNCHANGED <<gateVars, batchVars, conn, room, recVars, admitted>>

(* GameLift gives a reservation up that nobody accepted in time. *)
ReservationExpires(s) ==
  /\ gl[s] = "RESERVED"
  /\ gl' = [gl EXCEPT ![s] = "gone"]
  /\ UNCHANGED <<gateVars, batchVars, conn, room, recVars, admitted>>

-----------------------------------------------------------------------------
(* The hello of a socket. *)

Refused(k, s) == [k EXCEPT !.session = s, !.pc = "refused", !.ws = Close(@)]
Refuse(p, s) == conn' = [conn EXCEPT ![p] = Refused(@, s)]

HelloRefused_bug2(s) ==
  \/ entry[s] # NoEntry /\ entry[s].removing
  \/ entry[s] = NoEntry /\ (failed # {} \/ s \in PendingSessions)

HelloRefused(s) ==
  \/ entry[s] # NoEntry /\ (entry[s].removing \/ entry[s].peer # NoPeer)
  \/ entry[s] = NoEntry /\ (failed # {} \/ s \in PendingSessions)

Hello(p, s) ==
  /\ At(p, "idle") /\ Open(p)
  /\ gl[s] # "none"
  /\ \/ /\ HelloRefused(s)
        /\ Refuse(p, s)
        /\ UNCHANGED entry
     \/ /\ ~HelloRefused(s) /\ entry[s] = NoEntry
        /\ conn' = [conn EXCEPT ![p] = [@ EXCEPT !.session = s, !.pc = "inspecting"]]
        /\ UNCHANGED entry
     \/ /\ ~HelloRefused(s) /\ entry[s] # NoEntry
        /\ entry' = [entry EXCEPT ![s] = [@ EXCEPT !.peer = p, !.timer = "none"]]
        /\ conn' = [conn EXCEPT ![p] = [@ EXCEPT !.session = s, !.pc = "joining"]]
  /\ UNCHANGED <<gl, failed, batchVars, room, recVars, admitted>>

(***************************************************************************)
(* inspectPublicPlayerSession answers: reserved and well described,        *)
(* refused, or reserved with metadata the server cannot use.  In the last  *)
(* case releaseUninspectedReservation removes a session of unknown owner.  *)
(***************************************************************************)
InspectReturns(p) ==
  LET s == conn[p].session
  IN  /\ At(p, "inspecting")
      /\ \/ /\ gl[s] = "RESERVED"
            /\ conn' = [conn EXCEPT ![p].pc = "preparing"]
            /\ UNCHANGED entry
         \/ /\ Refuse(p, s)
            /\ UNCHANGED entry
         \/ /\ gl[s] = "RESERVED"
            /\ Refuse(p, s)
            /\ entry' = [entry EXCEPT ![s] =
                 StartRemoval(IF @ = NoEntry THEN [Bound(NoPeer) EXCEPT !.known = FALSE] ELSE @)]
      /\ UNCHANGED <<gl, failed, batchVars, room, recVars, admitted>>

(* preparePublicPartyMember failed, or the reservation expired meanwhile:  *)
(* the batch of the claim is released with this session in it.             *)
PrepareFails(p) ==
  LET s == conn[p].session
      b == pending[ClaimOf(s)]
  IN  /\ At(p, "preparing")
      /\ ReleaseBatches({b} \ {NoBatch}, {s}, entry, [conn EXCEPT ![p] = Refused(@, s)])
      /\ UNCHANGED <<gl, failed, room, recVars, admitted>>

Complete_bug(members) == Cardinality(members) + 1 >= Cardinality(Player)
Complete(members) == members = Player

(* The members of the claim's batch once p is staged. *)
StagedWith(p) ==
  LET b == pending[ClaimOf(conn[p].session)]
  IN  {PlayerOf(conn[p].session)} \union (IF b = NoBatch THEN {} ELSE batch[b].members)

(* The member is staged and the party still misses somebody. *)
Stages(p) ==
  LET s == conn[p].session
      c == ClaimOf(s)
      b == IF pending[c] = NoBatch THEN s ELSE pending[c]
      staged == [members |-> StagedWith(p), settled |-> FALSE, stage |-> "staging", call |-> "none"]
  IN  /\ At(p, "preparing") /\ Open(p)
      /\ ~Complete(StagedWith(p))
      /\ batch' = [batch EXCEPT ![b] = staged]
      /\ pending' = [pending EXCEPT ![c] = b]
      /\ conn' = [conn EXCEPT ![p].pc = "staged"]
      /\ UNCHANGED <<gl, gateVars, room, recVars, admitted>>

(***************************************************************************)
(* The last member is staged: commitPendingAtomicParty starts at once.     *)
(* With a member that is already gone it fails before GameLift is asked.   *)
(***************************************************************************)
StagesLast(p) ==
  LET s == conn[p].session
      c == ClaimOf(s)
      b == IF pending[c] = NoBatch THEN s ELSE pending[c]
      others == IF pending[c] = NoBatch THEN {} ELSE StagedPeers(b)
      full == [members |-> StagedWith(p), settled |-> FALSE, stage |-> "accepting", call |-> "sent"]
  IN  /\ At(p, "preparing") /\ Open(p)
      /\ Complete(StagedWith(p))
      /\ IF \A q \in others : Open(q)
         THEN /\ batch' = [batch EXCEPT ![b] = full]
              /\ pending' = [pending EXCEPT ![c] = b]
              /\ conn' = [conn EXCEPT ![p].pc = "staged"]
              /\ UNCHANGED <<entry, room>>
         ELSE LET R == Evicted(full.members)
              IN  /\ batch' = [batch EXCEPT ![b] = [full EXCEPT !.settled = TRUE, !.stage = "over", !.call = "none"]]
                  /\ pending' = [pending EXCEPT ![c] = NoBatch]
                  /\ room' = Vacate(R)
                  /\ entry' = RetainAndRemove(AfterRelease(entry, R), full.members \X {c})
                  /\ conn' = CloseSockets(RefuseAll(conn, others \union {p}), ClosedByRelease(entry, R))
      /\ UNCHANGED <<gl, failed, recVars, admitted>>

-----------------------------------------------------------------------------
(* Committing a complete party. *)

(***************************************************************************)
(* The adapter performs the accept-party call under the locks of all its   *)
(* sessions: it accepts all of them, or it refuses and removes what it     *)
(* can.  A session may stay accepted when that removal fails.              *)
(***************************************************************************)
AdapterAccepts(b) ==
  /\ batch[b] # NoBatch /\ batch[b].call = "sent"
  /\ \A s \in Roster(b) : gl[s] = "RESERVED"
  /\ gl' = [s \in Session |-> IF s \in Roster(b) THEN "ACTIVE" ELSE gl[s]]
  /\ batch' = [batch EXCEPT ![b].call = "accepted"]
  /\ UNCHANGED <<gateVars, pending, conn, room, recVars, admitted>>

AdapterRefuses(b) ==
  /\ batch[b] # NoBatch /\ batch[b].call = "sent"
  /\ \E gone, active \in SUBSET Roster(b) :
       /\ gone \intersect active = {}
       /\ active # {} => \A s \in Roster(b) : gl[s] = "RESERVED"
       /\ gl' = [s \in Session |-> IF s \in gone THEN "gone"
                                   ELSE IF s \in active THEN "ACTIVE" ELSE gl[s]]
  /\ batch' = [batch EXCEPT ![b].call = "refused"]
  /\ UNCHANGED <<gateVars, pending, conn, room, recVars, admitted>>

(* acceptPublicPartySessions resolves: the bindings exist from here on. *)
CommitAccepted(b) ==
  /\ batch[b] # NoBatch /\ batch[b].stage = "accepting" /\ batch[b].call = "accepted"
  /\ \/ /\ batch[b].settled
        /\ batch' = [batch EXCEPT ![b].stage = "over"]
        /\ UNCHANGED entry
     \/ /\ ~batch[b].settled /\ AllPeersActive(b)
        /\ entry' = [s \in Session |-> IF s \in Roster(b) THEN Bound(PeerOf(s)) ELSE entry[s]]
        /\ batch' = [batch EXCEPT ![b].stage = "joining"]
  /\ UNCHANGED <<gl, failed, pending, conn, room, recVars, admitted>>

(***************************************************************************)
(* The catch of commitPendingAtomicParty: the arena gives up every member  *)
(* of the players' parties, then the batch is released.  It runs when the  *)
(* accept call failed, was refused, timed out or answered nonsense, when a *)
(* member disconnected meanwhile, and when the arena failed half-way.      *)
(***************************************************************************)
Catch(b, E) ==
  LET R == Evicted(batch[b].members)
  IN  /\ room' = Vacate(R)
      /\ EndCommit(b, AfterRelease(E, R), CloseSockets(conn, ClosedByRelease(E, R)))

CommitFails(b) ==
  /\ batch[b] # NoBatch /\ batch[b].stage = "accepting"
  /\ Catch(b, entry)
  /\ UNCHANGED <<gl, failed, recVars, admitted>>

(* The party was accepted but a member is gone: its bindings exist already. *)
CommitMissesMember(b) ==
  /\ batch[b] # NoBatch /\ batch[b].stage = "accepting" /\ batch[b].call = "accepted"
  /\ ~batch[b].settled /\ ~AllPeersActive(b)
  /\ Catch(b, [s \in Session |-> IF s \in Roster(b) THEN Bound(PeerOf(s)) ELSE entry[s]])
  /\ UNCHANGED <<gl, failed, recVars, admitted>>

(* rooms.commitPublicParty refuses the party, and nobody has entered. *)
JoinRefused(b) ==
  /\ batch[b] # NoBatch /\ batch[b].stage = "joining"
  /\ EndCommit(b, entry, conn)
  /\ UNCHANGED <<gl, failed, room, recVars, admitted>>

MayJoin_bug(b) == ~batch[b].settled

(***************************************************************************)
(* joinPublicParty: every check first, then all members at once.  Members  *)
(* the same players still have from an earlier claim are released first.   *)
(***************************************************************************)
MayJoin(b) ==
  /\ ~batch[b].settled
  /\ AllPeersActive(b)

PartyJoins(b) ==
  LET replaced == {m \in batch[b].members : room[m] # NoEntry}
      c == ClaimOf(b)
      peers == StagedPeers(b)
  IN  /\ batch[b] # NoBatch /\ batch[b].stage = "joining"
      /\ MayJoin(b)
      /\ room' = [m \in Player |-> IF m \in batch[b].members
                                   THEN [claim |-> c, peer |-> PeerOf(<<m, c>>)] ELSE room[m]]
      /\ entry' = AfterRelease(entry, replaced)
      /\ conn' = CloseSockets([p \in Peer |-> IF p \in peers THEN [conn[p] EXCEPT !.pc = "game"] ELSE conn[p]],
                              ClosedByRelease(entry, replaced))
      /\ batch' = [batch EXCEPT ![b].settled = TRUE, ![b].stage = "over"]
      /\ pending' = [pending EXCEPT ![c] = NoBatch]
      /\ admitted' = admitted \union {c}
      /\ UNCHANGED <<gl, failed, recVars>>

(* The members are in the arena when telling them fails: the catch takes   *)
(* all of them out again.                                                  *)
DeliveryFails(b) ==
  LET peers == StagedPeers(b)
  IN  /\ batch[b] # NoBatch /\ batch[b].stage = "joining"
      /\ MayJoin(b)
      /\ room' = [m \in Player |-> IF m \in batch[b].members THEN NoEntry ELSE room[m]]
      /\ batch' = [batch EXCEPT ![b].settled = TRUE, ![b].stage = "over"]
      /\ pending' = [pending EXCEPT ![ClaimOf(b)] = NoBatch]
      /\ entry' = RetainAndRemove([s \in Session |->
                     IF PlayerOf(s) \in batch[b].members /\ entry[s] # NoEntry /\ entry[s].known
                     THEN StartRemoval([entry[s] EXCEPT !.peer = NoPeer]) ELSE entry[s]], Roster(b))
      /\ conn' = CloseSockets(RefuseAll(conn, peers),
                   peers \union {entry[s].peer : s \in {x \in Session : PlayerOf(x) \in batch[b].members
                                                          /\ entry[x] # NoEntry}})
      /\ UNCHANGED <<gl, failed, recVars, admitted>>

(* The reservations expired before the whole party had connected. *)
BatchTimeout(b) ==
  /\ batch[b] # NoBatch /\ ~batch[b].settled
  /\ ReleaseBatches({b}, {}, entry, conn)
  /\ UNCHANGED <<gl, failed, room, recVars, admitted>>

-----------------------------------------------------------------------------
(* Sockets. *)

SocketClosing(p) ==
  /\ Open(p)
  /\ conn' = [conn EXCEPT ![p].ws = "closing"]
  /\ UNCHANGED <<gl, gateVars, batchVars, room, recVars, admitted>>

(***************************************************************************)
(* The close event: cancelPendingAtomicPeer, rooms.disconnect, and the     *)
(* binding keeps the session for a reconnection.                           *)
(***************************************************************************)
SocketCloses(p) ==
  LET s == conn[p].session
      staged == IF At(p, "staged") THEN {pending[ClaimOf(s)]} ELSE {}
      accepted == conn[p].pc \in {"joining", "game"}
  IN  /\ conn[p].ws = "closing"
      /\ room' = [m \in Player |-> IF room[m] # NoEntry /\ room[m].peer = p
                                   THEN [room[m] EXCEPT !.peer = NoPeer] ELSE room[m]]
      /\ ReleaseBatches(staged, {},
           IF accepted THEN [entry EXCEPT ![s] = Unbind(@, p, FALSE)] ELSE entry,
           [conn EXCEPT ![p].ws = "closed"])
      /\ UNCHANGED <<gl, failed, recVars, admitted>>

ReconnectExpires(s) ==
  /\ entry[s] # NoEntry /\ entry[s].timer = "reconnect"
  /\ entry' = [entry EXCEPT ![s] = StartRemoval(@)]
  /\ UNCHANGED <<gl, failed, batchVars, conn, room, recVars, admitted>>

(* The reconnected socket's rooms.handleMessage resolves.  Room.join gives *)
(* a member its new socket, or lets a player without a member in again.    *)
Rejoins(p) ==
  LET s == conn[p].session
      m == PlayerOf(s)
  IN  /\ At(p, "joining") /\ Open(p)
      /\ room' = [room EXCEPT ![m] = [claim |-> IF @ = NoEntry THEN ClaimOf(s) ELSE @.claim, peer |-> p]]
      /\ conn' = [conn EXCEPT ![p].pc = "game"]
      /\ UNCHANGED <<gl, gateVars, batchVars, recVars, admitted>>

RejoinFails(p) ==
  LET s == conn[p].session
  IN  /\ At(p, "joining")
      /\ entry' = [entry EXCEPT ![s] = Unbind(@, p, TRUE)]
      /\ Refuse(p, s)
      /\ UNCHANGED <<gl, failed, batchVars, room, recVars, admitted>>

-----------------------------------------------------------------------------
(* Removing sessions from GameLift. *)

(* The adapter removes the session, or finds it gone; then the answer      *)
(* arrives, or not.                                                        *)
RemovalOutcome(s, ok) ==
  \/ gl' = [gl EXCEPT ![s] = "gone"]
  \/ ~ok /\ UNCHANGED gl

RemovalSucceeds(s) ==
  /\ Removing(s)
  /\ RemovalOutcome(s, TRUE)
  /\ entry' = [entry EXCEPT ![s] = NoEntry]
  /\ failed' = failed \ {s}
  /\ UNCHANGED <<batchVars, conn, room, recVars, admitted>>

RemovalFails_bug(s) ==
  /\ Removing(s)
  /\ RemovalOutcome(s, FALSE)
  /\ IF entry[s].attempt <= RemovalAttempts
     THEN /\ entry' = [entry EXCEPT ![s].attempt = @ + 1]
          /\ UNCHANGED failed
     ELSE /\ entry' = [entry EXCEPT ![s] = [@ EXCEPT !.timer = "recovery", !.attempt = 0]]
          /\ failed' = failed \union {s}
  /\ UNCHANGED <<batchVars, conn, room, recVars, admitted>>

(* The last failed try keeps the binding in removal, pauses the admission  *)
(* of new sessions and arms the recovery timer.                            *)
RemovalFails(s) ==
  /\ Removing(s)
  /\ RemovalOutcome(s, FALSE)
  /\ IF entry[s].attempt < RemovalAttempts
     THEN /\ entry' = [entry EXCEPT ![s].attempt = @ + 1]
          /\ UNCHANGED failed
     ELSE /\ entry' = [entry EXCEPT ![s] = [@ EXCEPT !.timer = "recovery", !.attempt = 0]]
          /\ failed' = failed \union {s}
  /\ UNCHANGED <<batchVars, conn, room, recVars, admitted>>

RemovalRecovers(s) ==
  /\ entry[s] # NoEntry /\ entry[s].timer = "recovery"
  /\ entry' = [entry EXCEPT ![s] = StartRemoval([@ EXCEPT !.timer = "none", !.removing = FALSE])]
  /\ UNCHANGED <<gl, failed, batchVars, conn, room, recVars, admitted>>

-----------------------------------------------------------------------------
(* The arena. *)

(* A redeployment without this member, or an arena that no longer fits its *)
(* party: releasePublicMember and its callback.                            *)
RoomReleases(m) ==
  /\ room[m] # NoEntry
  /\ room' = Vacate({m})
  /\ entry' = AfterRelease(entry, {m})
  /\ conn' = CloseSockets(conn, ClosedByRelease(entry, {m}))
  /\ UNCHANGED <<gl, failed, batchVars, recVars, admitted>>

(* expireHandoff drops a disconnected member without telling the gate. *)
RoomForgets(m) ==
  /\ room[m] # NoEntry /\ room[m].peer = NoPeer
  /\ room' = Vacate({m})
  /\ UNCHANGED <<gl, gateVars, batchVars, conn, recVars, admitted>>

-----------------------------------------------------------------------------
(* A cancelled claim: reconcilePublicPartyRelease, asked by the matchmaker *)
(* for every session of the claim.                                         *)

ReleaseRequested(c) ==
  /\ rec.stage = "idle"
  /\ \E s \in SessionsOf(c) : gl[s] # "none"
  /\ rec' = [stage |-> "verifying", claim |-> c, wait |-> {}, evict |-> {}, left |-> SessionsOf(c)]
  /\ UNCHANGED <<gl, gateVars, batchVars, conn, room, admitted, reported>>

(* Ownership could not be verified, or a binding is of an unknown player:  *)
(* every session is reported as failed and the matchmaker asks again.      *)
VerifyFails ==
  /\ rec.stage = "verifying"
  /\ rec' = [rec EXCEPT !.stage = "idle", !.left = {}]
  /\ UNCHANGED <<gl, gateVars, batchVars, conn, room, admitted, reported>>

(* The arena gives the players' members up and the direct removals start. *)
Evict(E, C, M) ==
  LET R == Evicted(M)
  IN  /\ room' = Vacate(R)
      /\ entry' = AfterRelease(E, R)
      /\ conn' = CloseSockets(C, ClosedByRelease(E, R))

ActivePlayers(c) == {m \in Player : entry[<<m, c>>] # NoEntry}

VerifySucceeds ==
  LET c == rec.claim
      staged == {pending[c]} \ {NoBatch}
      started == {s \in UNION {Roster(b) : b \in staged} : entry[s] = NoEntry \/ ~entry[s].removing}
  IN  /\ rec.stage = "verifying"
      /\ \A s \in SessionsOf(c) : entry[s] # NoEntry => entry[s].known
      /\ IF staged = {}
         THEN /\ Evict(entry, conn, ActivePlayers(c))
              /\ rec' = [rec EXCEPT !.stage = "removing"]
              /\ UNCHANGED batchVars
         ELSE /\ ReleaseBatches(staged, {}, entry, conn)
              /\ rec' = [rec EXCEPT !.stage = "draining", !.wait = started, !.evict = ActivePlayers(c)]
              /\ UNCHANGED room
      /\ UNCHANGED <<gl, failed, admitted, reported>>

(* The batch's removals have ended one way or the other. *)
Drained ==
  /\ rec.stage = "draining"
  /\ \A s \in rec.wait : ~Removing(s)
  /\ Evict(entry, conn, rec.evict)
  /\ rec' = [rec EXCEPT !.stage = "removing", !.wait = {}, !.evict = {}]
  /\ UNCHANGED <<gl, failed, batchVars, admitted, reported>>

(* releasePartyReservations: each session on its own, three tries. *)
DirectRemoval(s) ==
  /\ rec.stage = "removing" /\ s \in rec.left
  /\ \E ok \in BOOLEAN :
       /\ RemovalOutcome(s, ok)
       /\ reported' = IF ok THEN reported \union {s} ELSE reported
  /\ rec' = [rec EXCEPT !.left = @ \ {s}, !.stage = IF rec.left = {s} THEN "idle" ELSE @]
  /\ UNCHANGED <<gateVars, batchVars, conn, room, admitted>>

-----------------------------------------------------------------------------
Handshake(p) ==
  \/ \E s \in Session : Hello(p, s)
  \/ InspectReturns(p) \/ PrepareFails(p) \/ Stages(p) \/ StagesLast(p)
  \/ SocketClosing(p) \/ SocketCloses(p)
  \/ Rejoins(p) \/ RejoinFails(p)

Commit(b) ==
  \/ AdapterAccepts(b) \/ AdapterRefuses(b)
  \/ CommitAccepted(b) \/ CommitFails(b) \/ CommitMissesMember(b)
  \/ JoinRefused(b) \/ PartyJoins(b) \/ DeliveryFails(b)
  \/ BatchTimeout(b)

Removal(s) ==
  \/ ReconnectExpires(s)
  \/ RemovalSucceeds(s) \/ RemovalFails(s) \/ RemovalRecovers(s)

Arena == \E m \in Player : RoomReleases(m) \/ RoomForgets(m)

Reconcile ==
  \/ \E c \in Claim : ReleaseRequested(c)
  \/ VerifyFails \/ VerifySucceeds \/ Drained
  \/ \E s \in Session : DirectRemoval(s)

Next ==
  \/ \E c \in Claim : CreateSessions(c)
  \/ \E s \in Session : ReservationExpires(s)
  \/ \E p \in Peer : Handshake(p)
  \/ \E b \in Session : Commit(b)
  \/ \E s \in Session : Removal(s)
  \/ Arena
  \/ Reconcile

Spec == Init /\ [][Next]_vars
=============================================================================
