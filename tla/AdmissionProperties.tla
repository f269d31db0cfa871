------------------------- MODULE AdmissionProperties -------------------------
(***************************************************************************)
(* What the door of a public server promises, and the fairness under which *)
(* it keeps the promises that take time.                                   *)
(***************************************************************************)
EXTENDS AdmissionGate

(* A binding is never forgotten: its removal goes on, its socket will      *)
(* report its end, or the reconnection timer runs.                         *)
Kept(s) ==
  /\ entry[s] # NoEntry
  /\ IF entry[s].removing THEN entry[s].attempt > 0 \/ entry[s].timer = "recovery"
     ELSE IF entry[s].peer # NoPeer THEN conn[entry[s].peer].ws # "closed"
     ELSE entry[s].timer = "reconnect"

(* A session GameLift counts as playing is bound here, by a binding that   *)
(* something will end, or the answer to its acceptance is still on its     *)
(* way.  Otherwise a slot of the arena would be lost for good.             *)
NoUnownedSeat ==
  \A s \in Session : gl[s] = "ACTIVE" =>
    \/ Kept(s)
    \/ \E b \in Session : batch[b] # NoBatch /\ s \in Roster(b) /\ batch[b].stage = "accepting"

(* Whoever sits in the arena on an open socket said hello there with a     *)
(* session of its own, which is bound to that socket and is not being      *)
(* removed: nobody plays on a slot that is given away.                     *)
SeatedSocketIsBound ==
  \A m \in Player :
    room[m] # NoEntry /\ room[m].peer # NoPeer /\ Open(room[m].peer) =>
      LET s == conn[room[m].peer].session
      IN  /\ s # NoEntry /\ PlayerOf(s) = m
          /\ entry[s] # NoEntry /\ ~entry[s].removing /\ entry[s].peer = room[m].peer

(* The member sits in the arena for the claim, on an open socket, with a   *)
(* binding to it that is not being removed.                                *)
Welcomed(m, c) ==
  LET e == entry[<<m, c>>]
  IN  /\ e # NoEntry /\ ~e.removing
      /\ conn[e.peer].ws = "open"
      /\ room[m] = [claim |-> c, peer |-> e.peer]

(* The step that seats a party welcomes every member.  Room.ts:405 tells   *)
(* the member it takes out for that only "A fresh quick-play claim         *)
(* replaced this completed reservation.": the old reservation ends, and    *)
(* the fresh claim is seated.                                              *)
AdmittedAreBound ==
  [][\A c \in admitted' \ admitted, m \in Player : Welcomed(m, c)']_vars

(* A party that is seated for a later claim, while the bindings, removals  *)
(* and sockets of an earlier claim of the same players are still about:    *)
(* every member the arena did not still seat for the earlier claim is      *)
(* welcomed, whichever of the others had to be replaced.                   *)
NewcomersAreBound ==
  [][\A c \in admitted' \ admitted, m \in Player :
       room[m] = NoEntry => Welcomed(m, c)']_vars

(***************************************************************************)
(* The promise to the party.  A claim is dissolved once the server has     *)
(* begun to remove one of its sessions before the admission, or GameLift   *)
(* has given one up that no hello holds inspected.  A member that is       *)
(* staged holds its session until the bindings of the party exist.         *)
(***************************************************************************)
Held(s) ==
  \E p \in Peer :
    /\ conn[p].session = s
    /\ \/ At(p, "preparing")
       \/ LET b == pending[ClaimOf(s)]
          IN  At(p, "staged") /\ b # NoBatch /\ batch[b].stage # "joining"

Dissolved(c) ==
  \E s \in SessionsOf(c) :
    \/ entry[s] # NoEntry /\ entry[s].removing
    \/ gl[s] = "gone" /\ entry[s] = NoEntry /\ ~Held(s)

Phase == [c \in Claim |-> IF c \in admitted THEN "admitted"
                         ELSE IF Dissolved(c) THEN "dissolved" ELSE "open"]
Sitting == [c \in Claim |-> {m \in Player : room[m] # NoEntry /\ room[m].claim = c}]

Seats == INSTANCE PartySeats WITH phase <- Phase, seated <- Sitting

AllOrNobody == Seats!Spec

(***************************************************************************)
(* Fairness.  The server's own continuations and timers run: every await   *)
(* has a timeout.  The adapter recovers in the end, so a removal that is   *)
(* tried for ever succeeds once.                                           *)
(***************************************************************************)
Fairness ==
  /\ \A p \in Peer :
       /\ WF_vars(InspectReturns(p))
       /\ WF_vars(PrepareFails(p) \/ Stages(p) \/ StagesLast(p))
       /\ WF_vars(SocketCloses(p))
       /\ WF_vars(Rejoins(p) \/ RejoinFails(p))
  /\ \A b \in Session :
       /\ WF_vars(CommitAccepted(b) \/ CommitFails(b) \/ CommitMissesMember(b))
       /\ WF_vars(JoinRefused(b) \/ PartyJoins(b) \/ DeliveryFails(b))
       /\ WF_vars(BatchTimeout(b))
  /\ \A s \in Session :
       /\ WF_vars(ReconnectExpires(s))
       /\ WF_vars(RemovalSucceeds(s) \/ RemovalFails(s))
       /\ WF_vars(RemovalRecovers(s))
       /\ SF_vars(RemovalSucceeds(s))

FairSpec == Spec /\ Fairness

(* A slot GameLift counts as playing is given back, or its player sits in  *)
(* the arena: whatever fails on the way in, no slot is held for ever.      *)
SlotIsUsedOrFreed ==
  \A s \in Session : gl[s] = "ACTIVE" ~> (gl[s] = "gone" \/ room[PlayerOf(s)] # NoEntry)

=============================================================================
