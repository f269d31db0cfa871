--------------------------- MODULE AdmissionProofs ---------------------------
(***************************************************************************)
(* For every roster, any number of sockets, claims and removal attempts:   *)
(* the types of the door's variables, and that whoever sits in the arena   *)
(* on an open socket is bound to it.                                       *)
(*                                                                         *)
(* Neither is inductive alone.  That a seated socket is bound depends on   *)
(* the party it came in with: while a party waits, each of its members has *)
(* exactly one staged socket, and its sessions have no binding; between    *)
(* the accepted call and the arena every open socket of it has one.  So    *)
(* the invariant follows a session through binding (Bindings), socket      *)
(* (Hellos), batch (BatchesOf, PendingOf) and member (Seated), and says    *)
(* that a claim is admitted by one full batch (AdmittedOnce).              *)
(*                                                                         *)
(* Twenty-odd handlers fail in ways that look alike: they turn bindings    *)
(* into removals, settle batches, refuse staged sockets and empty seats.   *)
(* GivesUp describes such a step, one lemma shows that it keeps the        *)
(* invariant, and each failing handler is shown to be one.  The handlers   *)
(* that bring a player further (Advances) are each proved directly.        *)
(*                                                                         *)
(* The last part rests on that invariant and follows two states: who is    *)
(* given up stays so, who plays keeps an owner, and the door implements    *)
(* PartySeats.                                                             *)
(***************************************************************************)
EXTENDS AdmissionProperties, TLAPS

(***************************************************************************)
(* The inductive invariant.                                                *)
(***************************************************************************)

(* The hellos between the first check of a session and its answer. *)
Waiting == {"inspecting", "preparing", "staged"}

Staged(b) == batch[b] # NoBatch
Settled(b) == Staged(b) /\ batch[b].settled
Unresolved(b) == Staged(b) /\ ~batch[b].settled

(* A removal goes on by itself, and a binding without a socket waits for   *)
(* one until its timer fires. *)
Timed(e) ==
  /\ e.attempt > 0 \/ e.timer = "recovery" => e.removing
  /\ e.removing => e.attempt > 0 \/ e.timer = "recovery"
  /\ e.timer = "reconnect" => ~e.removing /\ e.peer = NoPeer
  /\ ~e.removing => e.known /\ (e.peer = NoPeer => e.timer = "reconnect")

(* The socket of a binding said hello with its session.  Unless the        *)
(* session is being removed that socket is still there, and the party is   *)
(* in the arena or about to enter it. *)
Bindings(s) ==
  LET e == entry[s]
      b == pending[ClaimOf(s)]
  IN  e # NoEntry =>
        /\ Timed(e)
        /\ e.peer # NoPeer => conn[e.peer].session = s
        /\ ~e.removing /\ e.peer # NoPeer =>
             conn[e.peer].pc \in {"staged", "joining", "game"} /\ conn[e.peer].ws # "closed"
        /\ ~e.removing => \/ ClaimOf(s) \in admitted
                          \/ /\ b # NoBatch /\ batch[b].stage = "joining"
                             /\ e.peer # NoPeer /\ At(e.peer, "staged")

Hellos(p) ==
  LET s == conn[p].session
      b == pending[ClaimOf(s)]
  IN  /\ IF At(p, "idle") THEN s = NoEntry ELSE s \in Session
      /\ \A q \in Peer : conn[p].pc \in Waiting /\ conn[q].pc \in Waiting /\ conn[q].session = s => q = p
      /\ conn[p].pc \in {"inspecting", "preparing"} => entry[s] = NoEntry
      /\ conn[p].pc \in {"preparing", "staged"} => \A d \in Session : Settled(d) => s \notin Roster(d)
      /\ At(p, "staged") => conn[p].ws # "closed" /\ b # NoBatch /\ s \in Roster(b)
      /\ conn[p].pc \in {"joining", "game"} => ClaimOf(s) \in admitted
      /\ At(p, "joining") /\ Open(p) => entry[s] # NoEntry /\ ~entry[s].removing /\ entry[s].peer = p

(* While a party waits each of its members has a socket; while it enters   *)
(* the arena each open socket has its binding. *)
Waits(b) ==
  /\ pending[ClaimOf(b)] = b
  /\ batch[b].stage # "over"
  /\ batch[b].stage # "staging" => batch[b].members = Player
  /\ \A s \in Roster(b) : \E p \in Peer : At(p, "staged") /\ conn[p].session = s
  /\ batch[b].stage # "joining" => \A s \in Roster(b) : entry[s] = NoEntry
  /\ batch[b].stage = "joining" =>
       \A p \in {q \in StagedPeers(b) : Open(q)} :
         LET e == entry[conn[p].session] IN e # NoEntry /\ ~e.removing /\ e.peer = p

(* A session of a party that has had its answer has a binding until        *)
(* GameLift has given it up. *)
BatchesOf(b) ==
  Staged(b) =>
    /\ b \in Roster(b)
    /\ batch[b].call = "sent" => batch[b].stage \in {"accepting", "over"}
    /\ batch[b].settled => \A s \in Roster(b) : entry[s] # NoEntry \/ gl[s] = "gone"
    /\ ~batch[b].settled => Waits(b)

PendingOf(c) == pending[c] # NoBatch => ClaimOf(pending[c]) = c /\ Unresolved(pending[c])

Seated(m) ==
  room[m] # NoEntry =>
    /\ room[m].claim \in admitted
    /\ room[m].peer # NoPeer => At(room[m].peer, "game") /\ PlayerOf(conn[room[m].peer].session) = m

AdmittedOnce(c) ==
  \E b \in Session : Settled(b) /\ ClaimOf(b) = c /\ batch[b].members = Player

GateInv ==
  /\ \A s \in Session : Bindings(s) /\ BatchesOf(s)
  /\ \A p \in Peer : Hellos(p)
  /\ \A c \in Claim : PendingOf(c)
  /\ \A m \in Player : Seated(m)
  /\ SeatedSocketIsBound
  /\ \A c \in admitted : AdmittedOnce(c)

IInv == TypeOK /\ GateInv

-----------------------------------------------------------------------------
(* A session is the pair of its player and its claim.                      *)
LEMMA SessionParts ==
  /\ \A s \in Session : PlayerOf(s) \in Player /\ ClaimOf(s) \in Claim /\ s = <<PlayerOf(s), ClaimOf(s)>>
  /\ \A m \in Player, c \in Claim : /\ <<m, c>> \in Session
                                    /\ PlayerOf(<<m, c>>) = m /\ ClaimOf(<<m, c>>) = c
  /\ \A s, t \in Session : PlayerOf(s) = PlayerOf(t) /\ ClaimOf(s) = ClaimOf(t) => s = t
<1>1. \A s \in Session : PlayerOf(s) \in Player /\ ClaimOf(s) \in Claim /\ s = <<PlayerOf(s), ClaimOf(s)>>
  BY DEF Session, PlayerOf, ClaimOf
<1>2. \A m \in Player, c \in Claim : /\ <<m, c>> \in Session
                                     /\ PlayerOf(<<m, c>>) = m /\ ClaimOf(<<m, c>>) = c
  BY DEF Session, PlayerOf, ClaimOf
<1>3. \A s, t \in Session : PlayerOf(s) = PlayerOf(t) /\ ClaimOf(s) = ClaimOf(t) => s = t
  BY <1>1
<1> QED
  BY <1>1, <1>2, <1>3

(* The sessions of a claim, and of some of its members.                    *)
LEMMA SessionsOfClaim == \A c \in Claim : \A s : s \in SessionsOf(c) <=> s \in Session /\ ClaimOf(s) = c
  BY DEF SessionsOf, Session, PlayerOf, ClaimOf

LEMMA SessionsOfMembers ==
  ASSUME NEW M \in SUBSET Player, NEW c \in Claim
  PROVE  \A s : s \in M \X {c} <=> s \in Session /\ ClaimOf(s) = c /\ PlayerOf(s) \in M
<1>1. \A s : s \in M \X {c} => s \in Session /\ ClaimOf(s) = c /\ PlayerOf(s) \in M
  BY SessionParts DEF PlayerOf, ClaimOf, Session
<1>2. \A s : s \in Session /\ ClaimOf(s) = c /\ PlayerOf(s) \in M => s \in M \X {c}
  BY SessionParts
<1> QED
  BY <1>1, <1>2

(* The sessions of a batch are those of its members, of one claim.         *)
LEMMA RosterOfBatch ==
  ASSUME TypeOK, NEW b \in Session, batch[b] # NoBatch
  PROVE  /\ batch[b] \in Batches
         /\ \A s : s \in Roster(b) <=> s \in Session /\ ClaimOf(s) = ClaimOf(b) /\ PlayerOf(s) \in batch[b].members
<1>1. batch[b] \in Batches /\ batch[b].members \in SUBSET Player /\ ClaimOf(b) \in Claim
  BY SessionParts DEF TypeOK, Batches
<1> QED
  BY <1>1, SessionsOfMembers DEF Roster

LEMMA RosterOfNextBatch ==
  ASSUME TypeOK', NEW b \in Session, batch'[b] # NoBatch
  PROVE  /\ batch'[b] \in Batches
         /\ \A s : s \in Roster(b)' <=> s \in Session /\ ClaimOf(s) = ClaimOf(b) /\ PlayerOf(s) \in batch'[b].members
<1>1. batch'[b] \in Batches /\ batch'[b].members \in SUBSET Player /\ ClaimOf(b) \in Claim
  BY SessionParts DEF TypeOK, Batches
<1> QED
  BY <1>1, SessionsOfMembers DEF Roster

(* Unfolding the parts of the invariant in one place. *)
LEMMA EntryType ==
  ASSUME NEW e \in Entries \union {NoEntry}, e # NoEntry
  PROVE  /\ e \in Entries /\ e.peer \in Peer \union {NoPeer}
         /\ e.known \in BOOLEAN /\ e.removing \in BOOLEAN
         /\ e.timer \in {"none", "reconnect", "recovery"}
         /\ e.attempt \in 0..RemovalAttempts /\ e.attempt \in Nat
BY GateAssumption DEF Entries

(* What the functions on bindings return.                                  *)
LEMMA BoundType ==
  \A p \in Peer \union {NoPeer} : 
    /\ Bound(p) \in Entries /\ Bound(p) # NoEntry
    /\ Bound(p).peer = p /\ Bound(p).known /\ ~Bound(p).removing
    /\ Bound(p).timer = "none" /\ Bound(p).attempt = 0
<1> TAKE p \in Peer \union {NoPeer}
<1>1. 0 \in 0..RemovalAttempts
  BY GateAssumption
<1>2. Bound(p) \in Entries
  BY <1>1 DEF Bound, Entries
<1>3. Bound(p) # NoEntry
  BY <1>2, NullAssumption
<1> QED
  BY <1>2, <1>3 DEF Bound

LEMMA StartRemovalOf ==
  ASSUME NEW e \in Entries \union {NoEntry}
  PROVE  /\ e = NoEntry => StartRemoval(e) = NoEntry
         /\ e # NoEntry => LET r == StartRemoval(e) IN
              /\ r \in Entries /\ r # NoEntry /\ r.removing
              /\ r.peer = e.peer /\ r.known = e.known
              /\ e.removing => r = e
              /\ ~e.removing => r.timer = "none" /\ r.attempt = 1
<1>1. CASE e = NoEntry
  BY <1>1 DEF StartRemoval
<1>2. CASE e # NoEntry /\ e.removing
  BY <1>2 DEF StartRemoval
<1>3. CASE e # NoEntry /\ ~e.removing
  <2>1. e \in Entries
    BY <1>3
  <2>2. StartRemoval(e) = [e EXCEPT !.removing = TRUE, !.timer = "none", !.attempt = 1]
    BY <1>3 DEF StartRemoval
  <2>3. 1 \in 0..RemovalAttempts
    BY GateAssumption
  <2>4. StartRemoval(e) = [peer |-> e.peer, known |-> e.known, removing |-> TRUE,
                           timer |-> "none", attempt |-> 1]
    BY <2>1, <2>2 DEF Entries
  <2>5. StartRemoval(e) \in Entries
    BY <2>1, <2>3, <2>4 DEF Entries
  <2>6. StartRemoval(e) # NoEntry
    BY <2>5, NullAssumption
  <2> QED
    BY <1>3, <2>4, <2>5, <2>6
<1> QED
  BY <1>1, <1>2, <1>3

(* What a removal makes of a binding: it never gets another socket. *)
Removed(e, r) ==
  /\ r \in Entries /\ r # NoEntry /\ r.removing /\ Timed(r)
  /\ r.peer # NoPeer => e # NoEntry /\ r.peer = e.peer

EntryMap == [Session -> Entries \union {NoEntry}]
TimedMap(E) == E \in EntryMap /\ \A s \in Session : E[s] # NoEntry => Timed(E[s])

(* A binding that starts its removal is one.                               *)
LEMMA RemovalIsTimed ==
  ASSUME NEW e \in Entries, e.removing => Timed(e)
  PROVE  Removed(e, StartRemoval(e))
<1>1. e # NoEntry
  BY NullAssumption
<1>2. StartRemoval(e) \in Entries /\ StartRemoval(e) # NoEntry /\ StartRemoval(e).removing /\ StartRemoval(e).peer = e.peer
  BY <1>1, StartRemovalOf
<1>3. CASE e.removing
  <2>1. StartRemoval(e) = e
    BY <1>1, <1>3, StartRemovalOf
  <2> QED
    BY <1>1, <1>2, <1>3, <2>1 DEF Removed
<1>4. CASE ~e.removing
  <2>1. StartRemoval(e).timer = "none" /\ StartRemoval(e).attempt = 1
    BY <1>1, <1>4, StartRemovalOf
  <2>2. Timed(StartRemoval(e))
    BY <1>2, <2>1 DEF Timed
  <2> QED
    BY <1>1, <1>2, <2>2 DEF Removed
<1> QED
  BY <1>3, <1>4

LEMMA RemovalOfUnbound ==
  ASSUME NEW e \in Entries, Timed(e)
  PROVE  Removed(e, StartRemoval([e EXCEPT !.peer = NoPeer]))
<1> DEFINE f == [e EXCEPT !.peer = NoPeer]
<1>1. f \in Entries /\ f.removing = e.removing /\ f.peer = NoPeer
      /\ f.timer = e.timer /\ f.attempt = e.attempt /\ f.known = e.known
  BY DEF Entries
<1>2. f.removing => Timed(f)
  BY <1>1 DEF Timed
<1>3. Removed(f, StartRemoval(f))
  BY <1>1, <1>2, RemovalIsTimed
<1>4. StartRemoval(f).peer = NoPeer
  BY <1>1, <1>3, StartRemovalOf, NullAssumption
<1> QED
  BY <1>3, <1>4 DEF Removed

(* The maps a handler composes change the bindings they name, and no other. *)
LEMMA RetainOf ==
  ASSUME NEW E, TimedMap(E), NEW S
  PROVE  /\ TimedMap(RetainAndRemove(E, S))
         /\ \A s \in Session : IF s \in S THEN Removed(E[s], RetainAndRemove(E, S)[s])
                              ELSE RetainAndRemove(E, S)[s] = E[s]
<1> DEFINE R == RetainAndRemove(E, S)
<1>1. \A s \in Session : IF s \in S THEN Removed(E[s], R[s]) ELSE R[s] = E[s]
  <2> TAKE s \in Session
  <2>1. E[s] \in Entries \union {NoEntry} /\ (E[s] # NoEntry => Timed(E[s]))
    BY DEF TimedMap, EntryMap
  <2>2. CASE s \notin S
    BY <2>2 DEF RetainAndRemove
  <2>3. CASE s \in S /\ E[s] # NoEntry
    <3>1. R[s] = StartRemoval(E[s])
      BY <2>3 DEF RetainAndRemove
    <3> QED
      BY <2>1, <2>3, <3>1, RemovalIsTimed
  <2>4. CASE s \in S /\ E[s] = NoEntry
    <3>1. R[s] = StartRemoval(Bound(NoPeer))
      BY <2>4 DEF RetainAndRemove
    <3>2. Removed(Bound(NoPeer), R[s])
      BY <3>1, BoundType, RemovalIsTimed
    <3>3. R[s].peer = NoPeer
      BY <3>2, BoundType DEF Removed
    <3> QED
      BY <2>4, <3>2, <3>3 DEF Removed
  <2> QED
    BY <2>2, <2>3, <2>4
<1>2. \A s \in Session : R[s] \in Entries \union {NoEntry} /\ (R[s] # NoEntry => Timed(R[s]))
  BY <1>1 DEF Removed, TimedMap, EntryMap
<1>3. R \in EntryMap
  BY <1>2 DEF RetainAndRemove, EntryMap
<1> QED
  BY <1>1, <1>2, <1>3 DEF TimedMap

LEMMA ReleaseOf ==
  ASSUME NEW E, TimedMap(E), NEW R
  PROVE  /\ TimedMap(AfterRelease(E, R))
         /\ \A s \in Session : IF s \in Hit(E, R) THEN Removed(E[s], AfterRelease(E, R)[s])
                              ELSE AfterRelease(E, R)[s] = E[s]
<1> DEFINE A == AfterRelease(E, R)
<1>1. \A s \in Session : IF s \in Hit(E, R) THEN Removed(E[s], A[s]) ELSE A[s] = E[s]
  <2> TAKE s \in Session
  <2>1. E[s] \in Entries \union {NoEntry} /\ (E[s] # NoEntry => Timed(E[s]))
    BY DEF TimedMap, EntryMap
  <2>2. CASE s \notin Hit(E, R)
    BY <2>2 DEF AfterRelease
  <2>3. CASE s \in Hit(E, R)
    <3>1. E[s] # NoEntry
      BY <2>3 DEF Hit, Matches
    <3>2. A[s] = StartRemoval([E[s] EXCEPT !.peer = NoPeer])
      BY <2>3 DEF AfterRelease
    <3> QED
      BY <2>1, <2>3, <3>1, <3>2, RemovalOfUnbound
  <2> QED
    BY <2>2, <2>3
<1>2. \A s \in Session : A[s] \in Entries \union {NoEntry} /\ (A[s] # NoEntry => Timed(A[s]))
  BY <1>1 DEF Removed, TimedMap, EntryMap
<1>3. A \in EntryMap
  BY <1>2 DEF AfterRelease, EntryMap
<1> QED
  BY <1>1, <1>2, <1>3 DEF TimedMap

LEMMA SocketsOf ==
  ASSUME NEW C \in [Peer -> Connections], NEW P
  PROVE  /\ RefuseAll(C, P) \in [Peer -> Connections] /\ CloseSockets(C, P) \in [Peer -> Connections]
         /\ \A p \in Peer :
              /\ RefuseAll(C, P)[p].session = C[p].session /\ RefuseAll(C, P)[p].ws = C[p].ws
              /\ RefuseAll(C, P)[p].pc = IF p \in P THEN "refused" ELSE C[p].pc
              /\ CloseSockets(C, P)[p].session = C[p].session /\ CloseSockets(C, P)[p].pc = C[p].pc
              /\ CloseSockets(C, P)[p].ws = IF p \in P THEN Close(C[p].ws) ELSE C[p].ws
<1>1. \A p \in Peer : C[p] \in Connections /\ Close(C[p].ws) \in {"open", "closing", "closed"}
  BY DEF Connections, Close
<1>2. \A p \in Peer :
        /\ RefuseAll(C, P)[p] \in Connections
        /\ RefuseAll(C, P)[p].session = C[p].session /\ RefuseAll(C, P)[p].ws = C[p].ws
        /\ RefuseAll(C, P)[p].pc = IF p \in P THEN "refused" ELSE C[p].pc
  BY <1>1 DEF RefuseAll, Connections
<1>3. \A p \in Peer :
        /\ CloseSockets(C, P)[p] \in Connections
        /\ CloseSockets(C, P)[p].session = C[p].session /\ CloseSockets(C, P)[p].pc = C[p].pc
        /\ CloseSockets(C, P)[p].ws = IF p \in P THEN Close(C[p].ws) ELSE C[p].ws
  BY <1>1 DEF CloseSockets, Connections
<1>4. RefuseAll(C, P) \in [Peer -> Connections] /\ CloseSockets(C, P) \in [Peer -> Connections]
  BY <1>2, <1>3 DEF RefuseAll, CloseSockets
<1> QED
  BY <1>2, <1>3, <1>4

-----------------------------------------------------------------------------
(***************************************************************************)
(* Most failures have the same shape.  The server gives up some sessions   *)
(* and some batches: bindings turn into removals, batches are settled and  *)
(* forgotten, staged sockets are refused, members leave the arena.         *)
(***************************************************************************)
Quits(s) ==
  /\ entry'[s] # NoEntry /\ entry'[s].removing /\ Timed(entry'[s])
  /\ entry'[s].peer # NoPeer => conn[entry'[s].peer].session = s
  /\ \A p \in Peer : conn[p].session = s =>
       /\ conn'[p].pc \notin {"inspecting", "preparing"}
       /\ conn'[p].pc = "staged" => conn'[p].ws # "open" /\ entry[s] # NoEntry
       /\ conn'[p].ws = "open" => /\ conn'[p].pc # "joining"
                                  /\ \A m \in Player : room'[m] # NoEntry => room'[m].peer # p

(* The last step of a removal. *)
Ends(s) == entry[s] # NoEntry /\ entry[s].removing /\ entry'[s] = NoEntry /\ gl'[s] = "gone"

Retires(b) ==
  /\ Settled(b)' /\ (b \in Roster(b))'
  /\ batch'[b].call = "sent" => batch'[b].stage \in {"accepting", "over"}
  /\ Staged(b) => batch[b].members \subseteq batch'[b].members
  /\ pending'[ClaimOf(b)] # b
  /\ \A s \in Session : (s \in Roster(b))' =>
       /\ entry'[s] # NoEntry \/ gl'[s] = "gone"
       /\ \A p \in Peer : conn[p].session = s => conn'[p].pc \notin {"preparing", "staged"}

Withdraws(p) ==
  LET s == conn[p].session
  IN  /\ conn'[p].session = s
      /\ \/ conn'[p].pc = conn[p].pc
         \/ /\ conn[p].pc \in {"preparing", "staged"} /\ conn'[p].pc = "refused"
            /\ entry'[s] # NoEntry /\ entry'[s].removing
            /\ At(p, "staged") => \A b \in Session : b = pending[ClaimOf(s)] => Settled(b)'
         \/ conn[p].pc = "inspecting" /\ conn'[p].pc = "refused"
         \/ /\ conn[p].pc = "joining" /\ conn'[p].pc = "refused"
            /\ entry'[s] # NoEntry /\ ~entry'[s].removing => entry'[s].peer # p
      /\ \/ conn'[p].ws = conn[p].ws
         \/ (conn[p].ws = "open" /\ conn'[p].ws = "closing")
         \/ conn'[p].pc = "refused"

(* GameLift gives sessions up, and creates new ones. *)
GameLiftMoves ==
  \A s \in Session : gl'[s] = gl[s] \/ gl'[s] = "gone" \/ (gl[s] = "none" /\ gl'[s] = "RESERVED")

GivesUp ==
  /\ UNCHANGED admitted /\ GameLiftMoves
  /\ \A s \in Session : entry'[s] = entry[s] \/ Quits(s) \/ Ends(s)
  /\ \A b \in Session : batch'[b] = batch[b] \/ Retires(b)
  /\ \A c \in Claim : \/ pending'[c] = pending[c]
                       \/ /\ pending'[c] = NoBatch
                          /\ \A b \in Session : b = pending[c] => Settled(b)'
  /\ \A p \in Peer : Withdraws(p)
  /\ \A m \in Player : room'[m] = room[m] \/ room'[m] = NoEntry

(* A step of this shape keeps the invariant.                               *)
LEMMA GivesUpKeeps ==
  ASSUME IInv, TypeOK', GivesUp
  PROVE  GateInv'
<1> USE SessionParts
<1>0. TypeOK /\ GateInv
  BY DEF IInv
<1>a. \A b \in Session : Staged(b) /\ Retires(b) => Roster(b) \subseteq Roster(b)'
  BY DEF Roster, Retires
<1>b. \A b \in Session : Unresolved(b)' => batch'[b] = batch[b] /\ Unresolved(b) /\ Roster(b)' = Roster(b)
  BY DEF Unresolved, Staged, Settled, Retires, Roster, GivesUp
<1>1. ASSUME NEW s \in Session PROVE Bindings(s)'
  <2> DEFINE e == entry[s]  c == ClaimOf(s)
  <2>1. CASE entry'[s] # NoEntry /\ Quits(s)
    <3>1. entry'[s].peer # NoPeer => entry'[s].peer \in Peer /\ conn'[entry'[s].peer].session = s
      <4>1. entry'[s].peer \in Peer \union {NoPeer}
        BY <2>1, EntryType DEF TypeOK
      <4> QED
        BY <2>1, <4>1 DEF Quits, GivesUp, Withdraws
    <3> QED
      BY <2>1, <3>1 DEF Quits, Bindings
  <2>2. CASE entry'[s] # NoEntry /\ ~Quits(s)
    <3>1. entry'[s] = e /\ e # NoEntry
      BY <2>2 DEF GivesUp, Ends
    <3>2. Bindings(s)
      BY <1>0 DEF GateInv
    <3>3. e.peer \in Peer \union {NoPeer}
      BY <1>0, <3>1, EntryType DEF TypeOK
    <3>4. Timed(entry'[s])
      BY <3>1, <3>2 DEF Bindings
    <3>5. e.peer # NoPeer => conn'[e.peer].session = s
      BY <3>1, <3>2, <3>3 DEF Bindings, GivesUp, Withdraws
    <3>6. ASSUME ~e.removing, e.peer # NoPeer
          PROVE  conn'[e.peer].pc = conn[e.peer].pc /\ conn'[e.peer].pc \in {"staged", "joining", "game"}
                 /\ conn'[e.peer].ws # "closed"
      <4>1. e.peer \in Peer /\ conn[e.peer].session = s /\ Withdraws(e.peer)
            /\ conn[e.peer].pc \in {"staged", "joining", "game"} /\ conn[e.peer].ws # "closed"
        BY <3>1, <3>2, <3>3, <3>6 DEF Bindings, GivesUp
      <4>2. conn'[e.peer].pc = conn[e.peer].pc
        BY <3>1, <3>6, <4>1 DEF Withdraws
      <4> QED
        BY <4>1, <4>2 DEF Withdraws
    <3>7. ASSUME ~e.removing, c \notin admitted
          PROVE  /\ pending'[c] # NoBatch /\ batch'[pending'[c]].stage = "joining"
                 /\ e.peer # NoPeer /\ conn'[e.peer].pc = "staged"
      <4>0. pending[c] # NoBatch /\ c \in Claim
        BY <3>1, <3>2, <3>7, SessionParts DEF Bindings
      <4>2. PICK b \in Session : b = pending[c]
        BY <1>0, <4>0 DEF TypeOK
      <4>1. b # NoBatch /\ batch[b].stage = "joining" /\ e.peer # NoPeer /\ conn[e.peer].pc = "staged"
            /\ conn[e.peer].session = s
        BY <3>1, <3>2, <3>7, <4>0, <4>2 DEF Bindings, At
      <4>3. Unresolved(b) /\ ClaimOf(b) = c /\ s \in Roster(b)
        BY <1>0, <3>3, <4>0, <4>1, <4>2 DEF GateInv, PendingOf, Hellos, At
      <4>4. ~Retires(b)
        <5>1. SUFFICES ASSUME Retires(b) PROVE FALSE
          OBVIOUS
        <5>2. (s \in Roster(b))'
          BY <1>a, <4>2, <4>3, <5>1 DEF Unresolved
        <5>3. conn'[e.peer].pc # "staged"
          BY <3>3, <4>1, <4>2, <5>1, <5>2 DEF Retires
        <5> QED
          BY <3>6, <3>7, <4>1, <5>3
      <4>5. batch'[b] = batch[b]
        BY <4>2, <4>4 DEF GivesUp
      <4>6. ~Settled(b)'
        BY <4>3, <4>5 DEF Unresolved, Settled, Staged
      <4>7. pending'[c] = b
        BY <4>0, <4>2, <4>6 DEF GivesUp
      <4>8. conn'[e.peer].pc = "staged"
        BY <3>6, <3>7, <4>1
      <4> QED
        BY <4>1, <4>5, <4>7, <4>8
    <3>9. admitted' = admitted
      BY DEF GivesUp
    <3> QED
      BY <3>1, <3>4, <3>5, <3>6, <3>7, <3>9 DEF Bindings, At
  <2> QED
    BY <2>1, <2>2 DEF Bindings
<1>3. ASSUME NEW p \in Peer PROVE Hellos(p)'
  <2>0. PICK s : s = conn[p].session
    OBVIOUS
  <2>1. Hellos(p) /\ Withdraws(p) /\ conn'[p].session = s /\ conn[p].session = s
    BY <1>0, <2>0 DEF GateInv, GivesUp, Withdraws
  <2>2. conn'[p].pc # conn[p].pc => conn'[p].pc = "refused" /\ s \in Session
    BY <2>1 DEF Withdraws, Hellos, At
  <2>3. IF At(p, "idle")' THEN s = NoEntry ELSE s \in Session
    BY <2>1, <2>2 DEF Hellos, At
  <2>4. ASSUME NEW q \in Peer, conn'[p].pc \in Waiting, conn'[q].pc \in Waiting, conn'[q].session = s
        PROVE  q = p
    <3>1. conn[p].pc \in Waiting /\ conn[q].pc \in Waiting /\ conn[q].session = s
      <4>1. \A r \in Peer : Withdraws(r)
        BY DEF GivesUp
      <4>2. \A r \in Peer : conn'[r].pc # "refused" => conn'[r].pc = conn[r].pc
        BY <4>1 DEF Withdraws
      <4>3. \A r \in Peer : conn'[r].session = conn[r].session
        BY <4>1 DEF Withdraws
      <4> QED
        BY <2>1, <2>4, <4>2, <4>3 DEF Waiting
    <3> QED
      BY <2>1, <3>1 DEF Hellos
  <2>5. conn'[p].pc \in {"inspecting", "preparing"} => entry'[s] = NoEntry
    <3>1. SUFFICES ASSUME conn'[p].pc \in {"inspecting", "preparing"} PROVE entry'[s] = NoEntry
      OBVIOUS
    <3>2. conn'[p].pc = conn[p].pc
      BY <2>2, <3>1
    <3>3. s \in Session /\ entry[s] = NoEntry
      BY <2>1, <3>1, <3>2 DEF Hellos, At
    <3>4. ~Quits(s)
      BY <2>1, <3>1 DEF Quits
    <3> QED
      BY <3>3, <3>4 DEF GivesUp, Ends
  <2>6. ASSUME conn'[p].pc \in {"preparing", "staged"}, NEW d \in Session, Settled(d)'
        PROVE  (s \notin Roster(d))'
    <3>1. conn'[p].pc = conn[p].pc /\ s \in Session
      BY <2>1, <2>2, <2>6 DEF Hellos, At
    <3>2. CASE Retires(d)
      BY <2>1, <2>6, <3>1, <3>2 DEF Retires
    <3>3. CASE ~Retires(d)
      <4>1. batch'[d] = batch[d]
        BY <3>3 DEF GivesUp
      <4>2. Settled(d) /\ Roster(d)' = Roster(d)
        BY <2>6, <4>1 DEF Settled, Staged, Roster
      <4> QED
        BY <2>1, <2>6, <3>1, <4>2 DEF Hellos
    <3> QED
      BY <3>2, <3>3
  <2>7. ASSUME At(p, "staged")'
        PROVE  conn'[p].ws # "closed" /\ pending'[ClaimOf(s)] # NoBatch /\ s \in Roster(pending[ClaimOf(s)])'
    <3>1. conn[p].pc = "staged" /\ conn'[p].pc = "staged"
      BY <2>2, <2>7 DEF At
    <3>0. s \in Session /\ conn[p].ws # "closed" /\ pending[ClaimOf(s)] # NoBatch
          /\ s \in Roster(pending[ClaimOf(s)]) /\ ClaimOf(s) \in Claim
      BY <2>1, <3>1 DEF Hellos, At
    <3>3. PICK b \in Session : b = pending[ClaimOf(s)]
      BY <1>0, <3>0 DEF TypeOK
    <3>2. s \in Session /\ conn[p].ws # "closed" /\ b # NoBatch /\ s \in Roster(b)
      BY <3>0, <3>3
    <3>4. Unresolved(b)
      BY <1>0, <3>0, <3>3 DEF GateInv, PendingOf
    <3>5. ~Retires(b)
      <4>1. SUFFICES ASSUME Retires(b) PROVE FALSE
        OBVIOUS
      <4>2. (s \in Roster(b))'
        BY <1>a, <3>2, <3>3, <3>4, <4>1 DEF Unresolved
      <4> QED
        BY <2>1, <3>1, <3>2, <4>1, <4>2 DEF Retires
    <3>6. batch'[b] = batch[b]
      BY <3>3, <3>5 DEF GivesUp
    <3>7. ~Settled(b)' /\ Roster(b)' = Roster(b)
      BY <3>4, <3>6, <1>b DEF Unresolved, Settled, Staged, Roster
    <3>8. pending'[ClaimOf(s)] = b
      BY <3>0, <3>3, <3>7 DEF GivesUp
    <3>9. conn'[p].ws # "closed"
      BY <2>1, <3>1, <3>2 DEF Withdraws
    <3>10. Roster(pending[ClaimOf(s)])' = Roster(b)'
      BY <3>8 DEF Roster
    <3> QED
      BY <3>2, <3>7, <3>8, <3>9, <3>10
  <2>8. conn'[p].pc \in {"joining", "game"} => ClaimOf(s) \in admitted'
    BY <2>1, <2>2 DEF Hellos, GivesUp
  <2>9. \A d \in Session : conn'[p].pc \in {"preparing", "staged"} /\ Settled(d)' => s \notin Roster(d)'
    BY <2>6
  <2>10. conn'[p].session = s
    BY <2>1
  <2>11. ASSUME conn'[p].pc = "joining", conn'[p].ws = "open"
         PROVE  entry'[s] # NoEntry /\ ~entry'[s].removing /\ entry'[s].peer = p
    <3>1. conn[p].pc = "joining" /\ conn[p].ws = "open" /\ s \in Session
      BY <2>1, <2>2, <2>11 DEF Withdraws, Hellos, At
    <3>2. entry[s] # NoEntry /\ ~entry[s].removing /\ entry[s].peer = p
      BY <2>1, <3>1 DEF Hellos, At, Open
    <3>3. ~Quits(s)
      BY <2>1, <2>11 DEF Quits
    <3> QED
      BY <3>1, <3>2, <3>3 DEF GivesUp, Ends
  <2>12. At(p, "joining")' /\ Open(p)' => entry'[s] # NoEntry /\ ~entry'[s].removing /\ entry'[s].peer = p
    BY <2>11 DEF At, Open
  <2> QED
    BY <2>10, <2>3, <2>4, <2>5, <2>9, <2>7, <2>8, <2>12 DEF Hellos
<1>2. ASSUME NEW b \in Session PROVE BatchesOf(b)'
  <2>1. CASE Retires(b)
    <3>1. \A s \in Roster(b)' : entry'[s] # NoEntry \/ gl'[s] = "gone"
      BY <2>1, RosterOfNextBatch DEF Retires, Settled, Staged, GivesUp
    <3> QED
      BY <2>1, <3>1 DEF Retires, BatchesOf, Settled
  <2>2. CASE ~Retires(b)
    <3>1. batch'[b] = batch[b] /\ Roster(b)' = Roster(b) /\ BatchesOf(b)
      BY <1>0, <2>2 DEF GivesUp, GateInv, Roster
    <3>2. ASSUME Settled(b), NEW s \in Session, s \in Roster(b)
          PROVE  entry'[s] # NoEntry \/ gl'[s] = "gone"
      <4>1. entry[s] # NoEntry \/ gl[s] = "gone"
        BY <3>1, <3>2 DEF BatchesOf, Settled
      <4> QED
        BY <3>2, <4>1 DEF GivesUp, GameLiftMoves, Quits, Ends
    <3>3. ASSUME Unresolved(b) PROVE Waits(b)'
      <4>1. Waits(b) /\ ~Settled(b)' /\ batch[b].members \subseteq Player
        BY <1>0, <3>1, <3>3, RosterOfBatch DEF BatchesOf, Unresolved, Settled, Staged, Batches
      <4>2. ASSUME NEW s \in Session, s \in Roster(b), NEW p \in Peer, At(p, "staged"), conn[p].session = s
            PROVE  conn'[p].pc = "staged" /\ conn'[p].session = s /\ (entry'[s] = entry[s] \/ conn'[p].ws # "open")
        <5>1. pending[ClaimOf(s)] = b
          BY <1>0, <3>3, <4>1, <4>2, RosterOfBatch DEF Unresolved, Staged, Waits
        <5>2. Withdraws(p) /\ conn[p].pc = "staged"
          BY <4>2 DEF GivesUp, At
        <5>3. conn'[p].pc = "staged" /\ conn'[p].session = s
          BY <4>1, <4>2, <5>1, <5>2 DEF Withdraws, At
        <5>4. ~Ends(s) \/ conn'[p].ws # "open"
          <6>1. SUFFICES ASSUME Ends(s), conn'[p].ws = "open" PROVE FALSE
            OBVIOUS
          <6>2. p \in StagedPeers(b) /\ Open(p)
            BY <4>2, <5>2, <5>3, <6>1 DEF StagedPeers, Withdraws, At, Open
          <6> QED
            BY <4>1, <4>2, <6>1, <6>2 DEF Waits, Ends
        <5> QED
          BY <4>2, <5>3, <5>4 DEF GivesUp, Quits
      <4>3. pending'[ClaimOf(b)] = b
        <5>1. ClaimOf(b) \in Claim /\ pending[ClaimOf(b)] = b
          BY <4>1, SessionParts DEF Waits
        <5> QED
          BY <4>1, <5>1 DEF GivesUp
      <4>4. \A s \in Roster(b) : s \in Session
        BY <1>0, <3>3, RosterOfBatch DEF Unresolved, Staged
      <4>5. \A s \in Roster(b) : \E p \in Peer : At(p, "staged")' /\ conn'[p].session = s
        BY <4>1, <4>2, <4>4 DEF Waits, At
      <4>6. ASSUME batch[b].stage # "joining", NEW s \in Roster(b)
            PROVE  entry'[s] = NoEntry
        <5>1. entry[s] = NoEntry /\ s \in Session
          BY <4>1, <4>4, <4>6 DEF Waits
        <5>2. PICK p \in Peer : At(p, "staged") /\ conn[p].session = s
          BY <4>1, <4>6 DEF Waits
        <5>3. ~Quits(s)
          BY <4>2, <5>1, <5>2, <4>6 DEF Quits
        <5> QED
          BY <5>1, <5>3 DEF GivesUp, Ends
      <4>7. ASSUME batch[b].stage = "joining", NEW p \in Peer, p \in StagedPeers(b)', Open(p)'
            PROVE  LET e == entry'[conn'[p].session] IN e # NoEntry /\ ~e.removing /\ e.peer = p
        <5>1. At(p, "staged") /\ conn'[p].session = conn[p].session /\ conn[p].session \in Roster(b)
          BY <3>1, <4>7 DEF StagedPeers, GivesUp, Withdraws, At
        <5>2. conn[p].session \in Session /\ entry'[conn[p].session] = entry[conn[p].session]
          BY <4>2, <4>4, <4>7, <5>1 DEF Open
        <5>3. p \in StagedPeers(b) /\ Open(p)
          BY <4>7, <5>1 DEF StagedPeers, Open, GivesUp, Withdraws, At
        <5> QED
          BY <4>1, <4>7, <5>1, <5>2, <5>3 DEF Waits
      <4>8. batch'[b].stage = "joining" =>
              \A p \in {q \in StagedPeers(b)' : Open(q)'} :
                LET e == entry'[conn'[p].session] IN e # NoEntry /\ ~e.removing /\ e.peer = p
        BY <3>1, <4>7 DEF StagedPeers
      <4>9. batch'[b].stage # "joining" => \A s \in Roster(b)' : entry'[s] = NoEntry
        BY <3>1, <4>6
      <4> QED
        BY <3>1, <4>1, <4>3, <4>5, <4>8, <4>9 DEF Waits
    <3>4. Staged(b)' => Staged(b) /\ (Settled(b) \/ Unresolved(b)) /\ (batch'[b].settled <=> batch[b].settled)
      BY <3>1 DEF Staged, Settled, Unresolved
    <3>5. \A s \in Roster(b) : Staged(b) => s \in Session
      BY <1>0, RosterOfBatch DEF Staged
    <3> QED
      BY <3>1, <3>2, <3>3, <3>4, <3>5 DEF BatchesOf, Settled, Unresolved
  <2> QED
    BY <2>1, <2>2
<1>4. ASSUME NEW c \in Claim PROVE PendingOf(c)'
  <2>1. SUFFICES ASSUME pending'[c] # NoBatch PROVE ClaimOf(pending'[c]) = c /\ Unresolved(pending[c])'
    BY DEF PendingOf
  <2>2. pending'[c] = pending[c] /\ pending[c] \in Session
    BY <1>0, <2>1 DEF GivesUp, TypeOK
  <2>3. ClaimOf(pending[c]) = c /\ Unresolved(pending[c])
    BY <1>0, <2>1, <2>2 DEF GateInv, PendingOf
  <2>4. batch'[pending[c]] = batch[pending[c]]
    BY <2>2, <2>3 DEF GivesUp, Retires
  <2> QED
    BY <2>2, <2>3, <2>4 DEF Unresolved, Staged
<1>5. ASSUME NEW m \in Player PROVE Seated(m)'
  <2>1. SUFFICES ASSUME room'[m] # NoEntry
                 PROVE  /\ room'[m].claim \in admitted'
                        /\ room'[m].peer # NoPeer => conn'[room'[m].peer].pc = "game" /\ PlayerOf(conn'[room'[m].peer].session) = m
    BY DEF Seated, At
  <2>2. room'[m] = room[m] /\ Seated(m) /\ room[m].peer \in Peer \union {NoPeer}
    BY <1>0, <2>1 DEF GivesUp, GateInv, TypeOK, Members
  <2>3. room[m].peer # NoPeer => Withdraws(room[m].peer)
    BY <2>2 DEF GivesUp
  <2> QED
    BY <2>1, <2>2, <2>3 DEF Seated, GivesUp, Withdraws, At
<1>6. SeatedSocketIsBound'
  <2>1. SUFFICES ASSUME NEW m \in Player, room'[m] # NoEntry, room'[m].peer # NoPeer, conn'[room'[m].peer].ws = "open"
                 PROVE  LET s == conn'[room'[m].peer].session
                        IN  /\ s # NoEntry /\ PlayerOf(s) = m
                            /\ entry'[s] # NoEntry /\ ~entry'[s].removing /\ entry'[s].peer = room'[m].peer
    BY DEF SeatedSocketIsBound, Open
  <2>0. room'[m] = room[m] /\ Seated(m) /\ room[m].peer \in Peer
    BY <1>0, <2>1 DEF GivesUp, GateInv, TypeOK, Members
  <2>a. PICK p \in Peer : p = room[m].peer
    BY <2>0
  <2>b. PICK s : s = conn[p].session
    OBVIOUS
  <2>2. room'[m] = room[m] /\ Seated(m) /\ p = room[m].peer /\ room'[m].peer = p
    BY <2>0, <2>a
  <2>3. Withdraws(p) /\ conn[p].pc = "game" /\ conn'[p].ws = "open"
    BY <2>1, <2>2 DEF GivesUp, Seated, At, Open
  <2>4. Open(p) /\ conn'[p].session = s
    BY <2>3, <2>b DEF Withdraws, Open
  <2>5. s # NoEntry /\ PlayerOf(s) = m /\ entry[s] # NoEntry /\ ~entry[s].removing /\ entry[s].peer = p
    BY <1>0, <2>1, <2>2, <2>b, <2>4 DEF GateInv, SeatedSocketIsBound
  <2>6. s \in Session
    BY <1>0, <2>b, <2>5 DEF TypeOK, Connections
  <2>7. ~Quits(s)
    BY <2>1, <2>2, <2>b, <2>3, <2>4 DEF Quits
  <2>8. entry'[s] = entry[s]
    BY <2>5, <2>6, <2>7 DEF GivesUp, Ends
  <2> QED
    BY <2>2, <2>4, <2>5, <2>8
<1>7. ASSUME NEW c \in admitted' PROVE AdmittedOnce(c)'
  <2>1. PICK b \in Session : Settled(b) /\ ClaimOf(b) = c /\ batch[b].members = Player
    BY <1>0 DEF GivesUp, GateInv, AdmittedOnce
  <2>2. Settled(b)' /\ batch'[b].members = Player
    <3>1. CASE batch'[b] = batch[b]
      BY <2>1, <3>1 DEF Settled, Staged
    <3>2. CASE Retires(b)
      <4>1. Settled(b)' /\ Player \subseteq batch'[b].members
        BY <2>1, <3>2 DEF Retires, Settled
      <4>2. batch'[b].members \subseteq Player
        BY <4>1, RosterOfNextBatch DEF Settled, Staged, Batches
      <4> QED
        BY <4>1, <4>2
    <3> QED
      BY <3>1, <3>2 DEF GivesUp
  <2> QED
    BY <2>1, <2>2 DEF AdmittedOnce
<1> QED
  BY <1>1, <1>2, <1>3, <1>4, <1>5, <1>6, <1>7 DEF GateInv

-----------------------------------------------------------------------------
(* Facts that follow from the invariant. *)

(* Who has said hello has a session.                                       *)
LEMMA HelloFacts ==
  ASSUME IInv, NEW p \in Peer, conn[p].pc # "idle"
  PROVE  /\ conn[p].session \in Session /\ ClaimOf(conn[p].session) \in Claim
         /\ PlayerOf(conn[p].session) \in Player
BY SessionParts DEF IInv, GateInv, Hellos, At

LEMMA EntryFacts ==
  ASSUME IInv
  PROVE  TimedMap(entry)
BY DEF IInv, GateInv, TypeOK, Bindings, TimedMap, EntryMap

(* An unresolved batch is the pending one of a claim that was not admitted. *)
LEMMA BatchFacts ==
  ASSUME IInv, NEW b \in Session, Unresolved(b)
  PROVE  /\ batch[b] \in Batches /\ b \in Roster(b) /\ pending[ClaimOf(b)] = b /\ Waits(b)
         /\ \A s \in Roster(b) : s \in Session /\ ClaimOf(s) = ClaimOf(b) /\ ClaimOf(s) \notin admitted
         /\ \A p \in Peer : At(p, "staged") /\ ClaimOf(conn[p].session) = ClaimOf(b) => conn[p].session \in Roster(b)
<1>1. batch[b] \in Batches /\ \A s : s \in Roster(b) <=>
        s \in Session /\ ClaimOf(s) = ClaimOf(b) /\ PlayerOf(s) \in batch[b].members
  BY RosterOfBatch DEF IInv, Unresolved, Staged
<1>2. b \in Roster(b) /\ Waits(b)
  BY DEF IInv, GateInv, BatchesOf, Unresolved
<1>3. pending[ClaimOf(b)] = b
  BY <1>2 DEF Waits
<1>4. ASSUME NEW s \in Roster(b), ClaimOf(s) \in admitted
      PROVE  FALSE
  <2>1. PICK p \in Peer : At(p, "staged") /\ conn[p].session = s
    BY <1>2 DEF Waits
  <2>2. PICK d \in Session : Settled(d) /\ ClaimOf(d) = ClaimOf(s) /\ batch[d].members = Player
    BY <1>4 DEF IInv, GateInv, AdmittedOnce
  <2>3. s \in Roster(d)
    BY <1>1, <2>2, RosterOfBatch, SessionParts DEF IInv, Settled, Staged
  <2> QED
    BY <2>1, <2>2, <2>3 DEF IInv, GateInv, Hellos, At
<1>5. ASSUME NEW p \in Peer, At(p, "staged"), ClaimOf(conn[p].session) = ClaimOf(b)
      PROVE  conn[p].session \in Roster(b)
  BY <1>3, <1>5 DEF IInv, GateInv, Hellos
<1> QED
  BY <1>1, <1>2, <1>3, <1>4, <1>5

(* Each session of a waiting party has one staged socket.                  *)
LEMMA PeerOfMember ==
  ASSUME IInv, NEW b \in Session, Unresolved(b), NEW s \in Roster(b)
  PROVE  /\ PeerOf(s) \in Peer /\ At(PeerOf(s), "staged") /\ conn[PeerOf(s)].session = s
         /\ \A p \in Peer : At(p, "staged") /\ conn[p].session = s => p = PeerOf(s)
<1>1. \E p \in Peer : At(p, "staged") /\ conn[p].session = s
  BY BatchFacts DEF Waits
<1>2. PeerOf(s) \in Peer /\ At(PeerOf(s), "staged") /\ conn[PeerOf(s)].session = s
  BY <1>1 DEF PeerOf
<1>3. \A p \in Peer : At(p, "staged") /\ conn[p].session = s => p = PeerOf(s)
  BY <1>2 DEF IInv, GateInv, Hellos, At, Waiting
<1> QED
  BY <1>2, <1>3

(* A staged member is in the party its claim has pending. *)
LEMMA StagedFacts ==
  ASSUME IInv, NEW p \in Peer, At(p, "staged")
  PROVE  \E b \in Session : /\ Unresolved(b) /\ b = pending[ClaimOf(conn[p].session)]
                            /\ conn[p].session \in Roster(b)
<1>1. conn[p].session \in Session /\ ClaimOf(conn[p].session) \in Claim
  BY HelloFacts DEF At
<1>2. pending[ClaimOf(conn[p].session)] # NoBatch
      /\ conn[p].session \in Roster(pending[ClaimOf(conn[p].session)])
  BY DEF IInv, GateInv, Hellos
<1> QED
  BY <1>1, <1>2 DEF IInv, GateInv, PendingOf, TypeOK

(* A session that is being prepared is unbound and in no batch.            *)
LEMMA PreparingFacts ==
  ASSUME IInv, NEW p \in Peer, At(p, "preparing")
  PROVE  /\ ClaimOf(conn[p].session) \notin admitted /\ entry[conn[p].session] = NoEntry
         /\ \A d \in Session : Unresolved(d) => conn[p].session \notin Roster(d)
<1>1. conn[p].session \in Session /\ Hellos(p)
  BY HelloFacts DEF At, IInv, GateInv
<1>2. ASSUME ClaimOf(conn[p].session) \in admitted PROVE FALSE
  <2>1. PICK d \in Session : Settled(d) /\ ClaimOf(d) = ClaimOf(conn[p].session) /\ batch[d].members = Player
    BY <1>2 DEF IInv, GateInv, AdmittedOnce
  <2>2. conn[p].session \in Roster(d)
    BY <1>1, <2>1, RosterOfBatch, SessionParts DEF IInv, Settled, Staged
  <2> QED
    BY <1>1, <2>1, <2>2 DEF Hellos, At
<1>3. ASSUME NEW d \in Session, Unresolved(d), conn[p].session \in Roster(d) PROVE FALSE
  <2>1. PICK q \in Peer : At(q, "staged") /\ conn[q].session = conn[p].session
    BY <1>3, BatchFacts DEF Waits
  <2>2. q = p
    BY <1>1, <2>1 DEF Hellos, At, Waiting
  <2> QED
    BY <2>1, <2>2 DEF At
<1> QED
  BY <1>1, <1>2, <1>3 DEF Hellos, At

(* Who sits in the arena on a socket is at the stage "game" there.         *)
LEMMA SeatedFacts ==
  ASSUME IInv, NEW m \in Player, room[m] # NoEntry, room[m].peer # NoPeer
  PROVE  /\ room[m].peer \in Peer /\ At(room[m].peer, "game")
         /\ conn[room[m].peer].session \in Session /\ PlayerOf(conn[room[m].peer].session) = m
         /\ ClaimOf(conn[room[m].peer].session) \in admitted
<1>1. room[m].peer \in Peer /\ At(room[m].peer, "game") /\ PlayerOf(conn[room[m].peer].session) = m
  BY DEF IInv, GateInv, Seated, TypeOK, Members
<1>2. Hellos(room[m].peer)
  BY <1>1 DEF IInv, GateInv
<1> QED
  BY <1>1, <1>2 DEF Hellos, At

-----------------------------------------------------------------------------
(* A step that retires the sessions T with their parties, and removes      *)
(* other bindings only together with their sockets, gives up.              *)
RetiresSessions(T) ==
  \A s \in T :
    /\ entry'[s] # NoEntry /\ entry'[s].removing /\ Timed(entry'[s])
    /\ entry'[s].peer # NoPeer => conn[entry'[s].peer].session = s
    /\ ClaimOf(s) \notin admitted
    /\ \A p \in Peer : conn[p].session = s => conn[p].pc # "inspecting"
    /\ \A b \in Session : Unresolved(b) /\ s \in Roster(b) => Settled(b)'

EvictsSessions(T) ==
  \A s \in Session \ T : entry'[s] # entry[s] =>
    \/ Ends(s)
    \/ /\ entry[s] # NoEntry /\ Removed(entry[s], entry'[s])
       /\ ~entry[s].removing /\ entry[s].peer # NoPeer => conn'[entry[s].peer].ws # "open"

RefusesSockets(T) ==
  \A p \in Peer :
    LET refused == conn[p].pc \in {"preparing", "staged"} /\ conn[p].session \in T
    IN  /\ conn'[p].session = conn[p].session
        /\ conn'[p].pc = IF refused THEN "refused" ELSE conn[p].pc
        /\ \/ conn'[p].ws = conn[p].ws
           \/ (conn[p].ws = "open" /\ conn'[p].ws = "closing")
           \/ refused

SettlesBatches(T) ==
  \A b \in Session : batch'[b] # batch[b] =>
    /\ Settled(b)' /\ (b \in Roster(b))'
    /\ batch'[b].call = "sent" => batch'[b].stage \in {"accepting", "over"}
    /\ Staged(b) => batch[b].members \subseteq batch'[b].members
    /\ \/ Settled(b) /\ batch'[b].members = batch[b].members
       \/ \A s \in Session : (s \in Roster(b))' => s \in T
    /\ pending'[ClaimOf(b)] # b

Retirement(T) ==
  /\ UNCHANGED admitted /\ GameLiftMoves
  /\ RetiresSessions(T) /\ EvictsSessions(T) /\ RefusesSockets(T) /\ SettlesBatches(T)
  /\ \A c \in Claim : \/ pending'[c] = pending[c]
                       \/ /\ pending'[c] = NoBatch
                          /\ \A b \in Session : b = pending[c] => Settled(b)'
  /\ \A m \in Player : room'[m] = room[m] \/ room'[m] = NoEntry

(* A retirement gives up.                                                  *)
LEMMA Retiring ==
  ASSUME IInv, TypeOK', NEW T \in SUBSET Session, Retirement(T)
  PROVE  GivesUp
<1>1. ASSUME NEW s \in T PROVE Quits(s)
  <2>1. ASSUME NEW p \in Peer, conn[p].session = s
        PROVE  /\ conn'[p].pc \notin {"inspecting", "preparing", "staged"}
               /\ conn'[p].ws = "open" => conn'[p].pc # "joining"
               /\ \A m \in Player : room'[m] # NoEntry => room'[m].peer # p
    <3>1. conn'[p].pc \notin {"inspecting", "preparing", "staged"}
      BY <2>1 DEF Retirement, RetiresSessions, RefusesSockets
    <3>3. conn'[p].pc # "joining"
      <4>1. ClaimOf(s) \notin admitted
        BY DEF Retirement, RetiresSessions
      <4>2. conn[p].pc # "joining"
        BY <2>1, <4>1 DEF IInv, GateInv, Hellos
      <4> QED
        BY <4>2 DEF Retirement, RefusesSockets
    <3>2. ASSUME NEW m \in Player, room'[m] # NoEntry, room'[m].peer = p
          PROVE  FALSE
      <4>1. room[m] # NoEntry /\ room[m].peer = p /\ p # NoPeer
        BY <3>2, GateAssumption DEF Retirement
      <4>2. ClaimOf(s) \in admitted
        BY <2>1, <4>1, SeatedFacts
      <4> QED
        BY <4>2 DEF Retirement, RetiresSessions
    <3> QED
      BY <3>1, <3>2, <3>3
  <2> QED
    BY <2>1 DEF Quits, Retirement, RetiresSessions
<1>2. ASSUME NEW s \in Session, s \notin T, entry'[s] # entry[s], ~Ends(s) PROVE Quits(s)
  <2>1. /\ entry[s] # NoEntry /\ Removed(entry[s], entry'[s])
        /\ ~entry[s].removing /\ entry[s].peer # NoPeer => conn'[entry[s].peer].ws # "open"
    BY <1>2 DEF Retirement, EvictsSessions
  <2>2. Bindings(s) /\ entry[s] \in Entries
    BY <2>1 DEF IInv, GateInv, TypeOK
  <2>3. entry'[s].peer # NoPeer => conn[entry'[s].peer].session = s
    BY <2>1, <2>2 DEF Bindings, Removed
  <2>4. ASSUME NEW p \in Peer, conn[p].session = s
        PROVE  /\ conn'[p].pc \notin {"inspecting", "preparing"}
               /\ conn'[p].pc \in {"staged", "joining"} => conn'[p].ws # "open"
               /\ conn'[p].ws = "open" => \A m \in Player : room'[m] # NoEntry => room'[m].peer # p
    <3>1. conn'[p].pc = conn[p].pc /\ (conn'[p].ws = "open" => conn[p].ws = "open")
      BY <1>2, <2>4 DEF Retirement, RefusesSockets
    <3>2. conn[p].pc \notin {"inspecting", "preparing"}
      BY <2>1, <2>4 DEF IInv, GateInv, Hellos
    <3>3. ASSUME conn[p].pc = "staged", conn[p].ws = "open"
          PROVE  ~entry[s].removing /\ entry[s].peer = p
      <4>1. PICK b \in Session : Unresolved(b) /\ s \in Roster(b)
        BY <2>4, <3>3, StagedFacts DEF At
      <4>2. batch[b].stage = "joining"
        BY <2>1, <4>1, BatchFacts DEF Waits
      <4>3. p \in StagedPeers(b) /\ Open(p)
        BY <2>4, <3>3, <4>1 DEF StagedPeers, At, Open
      <4> QED
        BY <2>4, <4>1, <4>2, <4>3, BatchFacts DEF Waits
    <3>4. ASSUME NEW m \in Player, room'[m] # NoEntry, room'[m].peer = p, conn[p].ws = "open"
          PROVE  ~entry[s].removing /\ entry[s].peer = p
      <4>1. room[m] # NoEntry /\ room[m].peer = p /\ p # NoPeer
        BY <3>4, GateAssumption DEF Retirement
      <4> QED
        BY <2>4, <3>4, <4>1 DEF IInv, GateInv, SeatedSocketIsBound, Open
    <3>5. p # NoPeer
      BY GateAssumption
    <3>6. conn[p].pc = "joining" /\ conn[p].ws = "open" => ~entry[s].removing /\ entry[s].peer = p
      BY <2>4 DEF IInv, GateInv, Hellos, At, Open
    <3> QED
      BY <2>1, <3>1, <3>2, <3>3, <3>4, <3>5, <3>6
  <2> QED
    BY <2>1, <2>3, <2>4 DEF Quits, Removed
<1>3. ASSUME NEW b \in Session, batch'[b] # batch[b] PROVE Retires(b)
  <2>1. /\ Settled(b)' /\ (b \in Roster(b))' /\ pending'[ClaimOf(b)] # b
        /\ batch'[b].call = "sent" => batch'[b].stage \in {"accepting", "over"}
        /\ Staged(b) => batch[b].members \subseteq batch'[b].members
        /\ \/ Settled(b) /\ batch'[b].members = batch[b].members
           \/ \A s \in Session : (s \in Roster(b))' => s \in T
    BY <1>3 DEF Retirement, SettlesBatches
  <2>2. ASSUME NEW s \in Session, (s \in Roster(b))'
        PROVE  /\ entry'[s] # NoEntry \/ gl'[s] = "gone"
               /\ \A p \in Peer : conn[p].session = s => conn'[p].pc \notin {"preparing", "staged"}
    <3>1. CASE s \in T
      BY <3>1 DEF Retirement, RetiresSessions, RefusesSockets
    <3>2. CASE s \notin T
      <4>1. Settled(b) /\ Roster(b)' = Roster(b)
        BY <2>1, <2>2, <3>2 DEF Settled, Roster
      <4>2. entry[s] # NoEntry \/ gl[s] = "gone"
        BY <2>2, <4>1 DEF IInv, GateInv, BatchesOf, Settled
      <4>3. \A p \in Peer : conn[p].session = s => conn[p].pc \notin {"preparing", "staged"}
        BY <2>2, <4>1 DEF IInv, GateInv, Hellos
      <4> QED
        BY <3>2, <4>2, <4>3 DEF Removed, Retirement, EvictsSessions, RefusesSockets, GameLiftMoves, Ends
    <3> QED
      BY <3>1, <3>2
  <2> QED
    BY <2>1, <2>2 DEF Retires
<1>4. ASSUME NEW p \in Peer PROVE Withdraws(p)
  <2>1. PICK s : s = conn[p].session
    OBVIOUS
  <2>2. ASSUME At(p, "staged"), s \in T, NEW b \in Session, b = pending[ClaimOf(s)] PROVE Settled(b)'
    BY <2>1, <2>2, StagedFacts DEF Retirement, RetiresSessions
  <2>3. conn'[p].session = s
    BY <2>1 DEF Retirement, RefusesSockets
  <2>4. \/ conn[p].pc \in {"preparing", "staged"} /\ s \in T /\ conn'[p].pc = "refused"
        \/ /\ conn'[p].pc = conn[p].pc
           /\ conn'[p].ws = conn[p].ws \/ (conn[p].ws = "open" /\ conn'[p].ws = "closing")
    BY <2>1 DEF Retirement, RefusesSockets
  <2>5. s \in T => entry'[s] # NoEntry /\ entry'[s].removing
    BY DEF Retirement, RetiresSessions
  <2>6. \/ conn'[p].pc = conn[p].pc
        \/ /\ conn[p].pc \in {"preparing", "staged"} /\ conn'[p].pc = "refused"
           /\ entry'[s] # NoEntry /\ entry'[s].removing
           /\ At(p, "staged") => \A b \in Session : b = pending[ClaimOf(s)] => Settled(b)'
    BY <2>2, <2>4, <2>5
  <2> QED
    BY <2>1, <2>3, <2>4, <2>6 DEF Withdraws
<1> QED
  BY <1>1, <1>2, <1>3, <1>4 DEF GivesUp, Retirement

-----------------------------------------------------------------------------
(* What the functions shared by the failing handlers do to a state that    *)
(* satisfies the invariant. *)
RosterOf(U) == UNION {Roster(b) : b \in U}

(* The members of the unresolved parties U. *)
LEMMA RosterFacts ==
  ASSUME IInv, NEW U \in SUBSET Session, \A b \in U : Unresolved(b), NEW s \in RosterOf(U)
  PROVE  /\ s \in Session /\ ClaimOf(s) \notin admitted
         /\ \A p \in Peer : conn[p].session = s => conn[p].pc \notin {"inspecting", "preparing"}
         /\ \A b \in Session : Unresolved(b) /\ s \in Roster(b) => b \in U
<1>1. PICK b \in U : s \in Roster(b)
  BY DEF RosterOf
<1>2. s \in Session /\ ClaimOf(s) = ClaimOf(b) /\ ClaimOf(s) \notin admitted /\ pending[ClaimOf(b)] = b
  BY <1>1, BatchFacts
<1>3. ASSUME NEW p \in Peer, conn[p].session = s, conn[p].pc \in {"inspecting", "preparing"}
      PROVE  FALSE
  <2>1. PICK q \in Peer : At(q, "staged") /\ conn[q].session = s
    BY <1>1, BatchFacts DEF Waits
  <2>2. p = q
    BY <1>3, <2>1 DEF IInv, GateInv, Hellos, Waiting, At
  <2> QED
    BY <1>3, <2>1, <2>2 DEF At
<1>4. ASSUME NEW d \in Session, Unresolved(d), s \in Roster(d)
      PROVE  d \in U
  <2>1. ClaimOf(s) = ClaimOf(d) /\ pending[ClaimOf(d)] = d
    BY <1>4, BatchFacts
  <2> QED
    BY <1>1, <1>2, <2>1
<1> QED
  BY <1>2, <1>3, <1>4

(* releasePendingAtomicParty, as a change of bindings and sockets.         *)
LEMMA ReleaseEffect ==
  ASSUME IInv, NEW B \in SUBSET Session, NEW X, NEW E, TimedMap(E),
         NEW C \in [Peer -> Connections], Release(B, X, E, C)
  PROVE  /\ TimedMap(entry') /\ conn' \in [Peer -> Connections]
         /\ pending' \in [Claim -> Session \union {NoBatch}]
         /\ \A s \in Session : IF s \in X \union RosterOf(Unsettled(B)) THEN Removed(E[s], entry'[s])
                               ELSE entry'[s] = E[s]
         /\ \A p \in Peer :
              /\ conn'[p].session = C[p].session /\ conn'[p].ws = C[p].ws
              /\ conn'[p].pc = IF At(p, "staged") /\ conn[p].session \in RosterOf(Unsettled(B))
                               THEN "refused" ELSE C[p].pc
         /\ \A c \in Claim : pending'[c] = IF pending[c] \in Unsettled(B) THEN NoBatch ELSE pending[c]
<1> DEFINE U == Unsettled(B)
<1>1. entry' = RetainAndRemove(E, X \union RosterOf(U)) /\ conn' = RefuseAll(C, UNION {StagedPeers(b) : b \in U})
      /\ pending' = [c \in Claim |-> IF pending[c] \in U THEN NoBatch ELSE pending[c]]
  BY DEF Release, Forget, RosterOf
<1>2. \A p \in Peer : p \in UNION {StagedPeers(b) : b \in U} <=> At(p, "staged") /\ conn[p].session \in RosterOf(U)
  BY DEF StagedPeers, RosterOf
<1>3. pending' \in [Claim -> Session \union {NoBatch}]
  BY <1>1 DEF IInv, TypeOK
<1>4. TimedMap(entry') /\ \A s \in Session : IF s \in X \union RosterOf(U) THEN Removed(E[s], entry'[s])
                               ELSE entry'[s] = E[s]
  BY <1>1, RetainOf
<1>5. conn' \in [Peer -> Connections]
  BY <1>1, SocketsOf
<1>6. \A p \in Peer :
              /\ conn'[p].session = C[p].session /\ conn'[p].ws = C[p].ws
              /\ conn'[p].pc = IF At(p, "staged") /\ conn[p].session \in RosterOf(U)
                               THEN "refused" ELSE C[p].pc
  BY <1>1, <1>2, SocketsOf
<1> QED
  BY <1>1, <1>3, <1>4, <1>5, <1>6

(* A binding that the arena releases loses its socket, which is closed. *)
LEMMA EvictEffect ==
  ASSUME IInv, NEW E, TimedMap(E), NEW R \in SUBSET Player
  PROVE  /\ TimedMap(AfterRelease(E, R))
         /\ \A s \in Session : LET a == AfterRelease(E, R)[s] IN
              \/ a = E[s]
              \/ /\ E[s] # NoEntry /\ Removed(E[s], a)
                 /\ E[s].peer # NoPeer => E[s].peer \in ClosedByRelease(E, R)
         /\ NoPeer \notin ClosedByRelease(E, R)
         /\ Vacate(R) \in [Player -> Members \union {NoEntry}]
         /\ \A m \in Player : Vacate(R)[m] = room[m] \/ Vacate(R)[m] = NoEntry
<1>1. \A s \in Session : s \in Hit(E, R) => E[s] # NoEntry /\ (E[s].peer # NoPeer => E[s].peer \in ClosedByRelease(E, R))
  BY DEF ClosedByRelease, Hit, Matches
<1>2. Vacate(R) \in [Player -> Members \union {NoEntry}] /\ \A m \in Player : Vacate(R)[m] = room[m] \/ Vacate(R)[m] = NoEntry
  BY DEF Vacate, IInv, TypeOK
<1>3. NoPeer \notin ClosedByRelease(E, R)
  BY DEF ClosedByRelease
<1> QED
  BY <1>1, <1>2, <1>3, ReleaseOf

(* A session outside every staged party that is released on its own. *)
Loose(s, B) ==
  /\ ClaimOf(s) \notin admitted
  /\ entry[s] = NoEntry
  /\ \A p \in Peer : conn[p].session = s => conn[p].pc \notin {"inspecting", "staged"}
  /\ \A b \in Session : Unresolved(b) /\ s \in Roster(b) => b \in B

(* releasePendingAtomicParty, with the sockets C its caller has changed. *)
ReleasesBatches(B, X, C) ==
  /\ B \in SUBSET Session /\ \A b \in B : Unresolved(b)
  /\ X \in SUBSET Session /\ \A s \in X : Loose(s, B)
  /\ C \in [Peer -> Connections] /\ ReleaseBatches(B, X, entry, C)
  /\ \A p \in Peer :
       LET refused == At(p, "preparing") /\ conn[p].session \in X
       IN  /\ C[p].session = conn[p].session
           /\ C[p].pc = IF refused THEN "refused" ELSE conn[p].pc
           /\ \/ C[p].ws = conn[p].ws
              \/ refused
              \/ At(p, "staged") /\ conn[p].session \in RosterOf(B)
  /\ UNCHANGED <<gl, failed, room, admitted>>
  /\ rec' \in [stage: {"idle", "verifying", "draining", "removing"}, claim: Claim,
                wait: SUBSET Session, evict: SUBSET Player, left: SUBSET Session]
  /\ reported' = reported

(* The batches it settles.                                                 *)
LEMMA ReleasedBatches ==
  ASSUME IInv, NEW B, NEW X, NEW C, ReleasesBatches(B, X, C)
  PROVE  TypeOK' /\ GivesUp
<1> SUFFICES ASSUME /\ B \in SUBSET Session /\ \A b \in B : Unresolved(b)
                    /\ X \in SUBSET Session /\ \A s \in X : Loose(s, B)
                    /\ C \in [Peer -> Connections] /\ ReleaseBatches(B, X, entry, C)
                    /\ \A p \in Peer :
                         LET refused == At(p, "preparing") /\ conn[p].session \in X
                         IN  /\ C[p].session = conn[p].session
                             /\ C[p].pc = IF refused THEN "refused" ELSE conn[p].pc
                             /\ \/ C[p].ws = conn[p].ws
                                \/ refused
                                \/ At(p, "staged") /\ conn[p].session \in RosterOf(B)
                    /\ UNCHANGED <<gl, failed, room, admitted>>
                    /\ rec' \in [stage: {"idle", "verifying", "draining", "removing"}, claim: Claim,
                                  wait: SUBSET Session, evict: SUBSET Player, left: SUBSET Session]
                    /\ reported' = reported
             PROVE  TypeOK' /\ GivesUp
  BY DEF ReleasesBatches
<1>0. PICK T : T = X \union RosterOf(B)
  OBVIOUS
<1>1. Unsettled(B) = B
  BY DEF Unsettled, Unresolved
<1>2. batch' = [b \in Session |-> IF b \in B THEN [batch[b] EXCEPT !.settled = TRUE] ELSE batch[b]]
  BY <1>1 DEF ReleaseBatches
<1>3. /\ TimedMap(entry') /\ conn' \in [Peer -> Connections]
      /\ pending' \in [Claim -> Session \union {NoBatch}]
      /\ \A s \in Session : IF s \in T THEN Removed(entry[s], entry'[s]) ELSE entry'[s] = entry[s]
      /\ \A p \in Peer :
           /\ conn'[p].session = C[p].session /\ conn'[p].ws = C[p].ws
           /\ conn'[p].pc = IF At(p, "staged") /\ conn[p].session \in RosterOf(B) THEN "refused" ELSE C[p].pc
      /\ \A c \in Claim : pending'[c] = IF pending[c] \in B THEN NoBatch ELSE pending[c]
  <2>1. TimedMap(entry) /\ Release(B, X, entry, C)
    BY EntryFacts DEF ReleaseBatches
  <2>2. /\ TimedMap(entry') /\ conn' \in [Peer -> Connections]
        /\ pending' \in [Claim -> Session \union {NoBatch}]
        /\ \A s \in Session : IF s \in X \union RosterOf(Unsettled(B)) THEN Removed(entry[s], entry'[s])
                              ELSE entry'[s] = entry[s]
        /\ \A p \in Peer :
              /\ conn'[p].session = C[p].session /\ conn'[p].ws = C[p].ws
              /\ conn'[p].pc = IF At(p, "staged") /\ conn[p].session \in RosterOf(Unsettled(B))
                               THEN "refused" ELSE C[p].pc
        /\ \A c \in Claim : pending'[c] = IF pending[c] \in Unsettled(B) THEN NoBatch ELSE pending[c]
    BY <2>1, ReleaseEffect
  <2> QED
    BY <1>0, <1>1, <2>2
<1>4. T \in SUBSET Session
  BY <1>0, RosterFacts
<1>5. \A b \in B : /\ batch[b] \in Batches /\ batch'[b] \in Batches /\ batch'[b].settled
                   /\ batch'[b].members = batch[b].members /\ batch'[b].call = batch[b].call
                   /\ batch'[b].stage = batch[b].stage /\ Roster(b)' = Roster(b)
  <2> TAKE b \in B
  <2>1. batch[b] \in Batches /\ batch'[b] = [batch[b] EXCEPT !.settled = TRUE]
    BY <1>2, BatchFacts
  <2>2. /\ batch'[b] \in Batches /\ batch'[b].settled
        /\ batch'[b].members = batch[b].members /\ batch'[b].call = batch[b].call
        /\ batch'[b].stage = batch[b].stage
    BY <2>1 DEF Batches
  <2> QED
    BY <2>1, <2>2 DEF Roster
<1>6. TypeOK'
  <2>1. batch' \in [Session -> Batches \union {NoBatch}]
    BY <1>2, <1>5 DEF IInv, TypeOK
  <2> QED
    BY <1>3, <2>1 DEF IInv, TypeOK, TimedMap, EntryMap
<1>7. \A b \in B : b \in Session /\ Settled(b)'
  BY <1>5, NullAssumption DEF Settled, Staged
<1>8. RetiresSessions(T)
  <2>1. ASSUME NEW s \in T
        PROVE  /\ entry'[s] # NoEntry /\ entry'[s].removing /\ Timed(entry'[s])
               /\ entry'[s].peer # NoPeer => conn[entry'[s].peer].session = s
    <3>1. Removed(entry[s], entry'[s]) /\ s \in Session
      BY <1>3, <1>4
    <3> QED
      BY <3>1 DEF Removed, IInv, GateInv, Bindings
  <2>2. ASSUME NEW s \in T
        PROVE  /\ ClaimOf(s) \notin admitted
               /\ \A p \in Peer : conn[p].session = s => conn[p].pc # "inspecting"
               /\ \A b \in Session : Unresolved(b) /\ s \in Roster(b) => b \in B
    BY <1>0, RosterFacts DEF Loose
  <2> QED
    BY <1>7, <2>1, <2>2 DEF RetiresSessions
<1>9. EvictsSessions(T)
  BY <1>3 DEF EvictsSessions
<1>10. RefusesSockets(T)
  <2> SUFFICES ASSUME NEW p \in Peer
               PROVE  LET refused == conn[p].pc \in {"preparing", "staged"} /\ conn[p].session \in T
                      IN  /\ conn'[p].session = conn[p].session
                          /\ conn'[p].pc = IF refused THEN "refused" ELSE conn[p].pc
                          /\ conn'[p].ws = conn[p].ws \/ refused
    BY DEF RefusesSockets
  <2>1. At(p, "staged") => conn[p].session \notin X
    <3>1. conn[p].session \in X => Loose(conn[p].session, B)
      OBVIOUS
    <3> QED
      BY <3>1 DEF Loose, At
  <2>2. At(p, "preparing") => conn[p].session \notin RosterOf(B)
    BY RosterFacts DEF At
  <2>3. CASE conn[p].session \in RosterOf(B) /\ At(p, "staged")
    <3>1. conn[p].session \in T /\ conn[p].pc = "staged" /\ conn'[p].pc = "refused"
      BY <1>0, <1>3, <2>3 DEF At
    <3>2. conn'[p].session = conn[p].session
      BY <1>3
    <3> QED
      BY <3>1, <3>2
  <2>4. CASE ~(conn[p].session \in RosterOf(B) /\ At(p, "staged"))
    BY <1>0, <1>3, <2>1, <2>2, <2>4 DEF At
  <2> QED
    BY <2>3, <2>4
<1>11. SettlesBatches(T)
  <2> SUFFICES ASSUME NEW b \in Session, batch'[b] # batch[b]
               PROVE  /\ Settled(b)' /\ (b \in Roster(b))'
                      /\ batch'[b].call = "sent" => batch'[b].stage \in {"accepting", "over"}
                      /\ Staged(b) => batch'[b].members = batch[b].members
                      /\ \A s \in Session : (s \in Roster(b))' => s \in T
                      /\ pending'[ClaimOf(b)] # b
    BY DEF SettlesBatches
  <2>1. b \in B
    BY <1>2
  <2>2. b \in Roster(b) /\ (batch[b].call = "sent" => batch[b].stage \in {"accepting", "over"})
    BY <2>1 DEF IInv, GateInv, BatchesOf, Unresolved
  <2>3. \A s \in Roster(b) : s \in T
    BY <1>0, <2>1 DEF RosterOf
  <2>4. pending'[ClaimOf(b)] # b
    BY <1>3, <2>1, SessionParts, NullAssumption
  <2> QED
    BY <1>5, <1>7, <2>1, <2>2, <2>3, <2>4
<1>12. \A c \in Claim : \/ pending'[c] = pending[c]
                        \/ /\ pending'[c] = NoBatch
                           /\ \A b \in Session : b = pending[c] => Settled(b)'
  BY <1>3, <1>7
<1>13. Retirement(T)
  BY <1>8, <1>9, <1>10, <1>11, <1>12 DEF Retirement, GameLiftMoves
<1> QED
  BY <1>4, <1>6, <1>13, Retiring

(* A commit that ends without seating its party, with the bindings E and   *)
(* the sockets C that the arena has left.  A party that had its answer     *)
(* before has no sessions left to remove. *)
Left(b) == IF Unresolved(b) THEN Roster(b) ELSE {}

(* The sessions a failed commit leaves to be removed.                      *)
LEMMA LeftFacts ==
  ASSUME IInv, NEW b \in Session, Staged(b)
  PROVE  /\ \A d : d \in Unsettled({b}) <=> d = b /\ Unresolved(b)
         /\ Left(b) = RosterOf(Unsettled({b})) /\ Left(b) \in SUBSET Session
         /\ \A s \in Left(b) :
              /\ ClaimOf(s) \notin admitted
              /\ \A p \in Peer : conn[p].session = s => conn[p].pc \notin {"inspecting", "preparing"}
              /\ \A d \in Session : Unresolved(d) /\ s \in Roster(d) => d = b
<1>1. \A d : d \in Unsettled({b}) <=> d = b /\ Unresolved(b)
  BY DEF Unsettled, Unresolved
<1>2. Left(b) = RosterOf(Unsettled({b}))
  BY <1>1 DEF Left, RosterOf
<1>3. Unsettled({b}) \in SUBSET Session /\ \A d \in Unsettled({b}) : Unresolved(d)
  BY <1>1
<1>4. \A s \in Left(b) :
        /\ s \in Session /\ ClaimOf(s) \notin admitted
        /\ \A p \in Peer : conn[p].session = s => conn[p].pc \notin {"inspecting", "preparing"}
        /\ \A d \in Session : Unresolved(d) /\ s \in Roster(d) => d \in Unsettled({b})
  BY <1>2, <1>3, RosterFacts
<1> QED
  BY <1>1, <1>2, <1>4

EndsCommit(b, E, C) ==
  /\ EndCommit(b, E, C) /\ TimedMap(E) /\ C \in [Peer -> Connections]
  /\ \A s \in Left(b) : E[s] # NoEntry /\ E[s].peer # NoPeer => conn[E[s].peer].session = s
  /\ \A s \in Session \ Left(b) : E[s] # entry[s] =>
       /\ entry[s] # NoEntry /\ Removed(entry[s], E[s])
       /\ entry[s].peer # NoPeer => C[entry[s].peer].ws # "open"
  /\ \A p \in Peer : /\ C[p].session = conn[p].session /\ C[p].pc = conn[p].pc
                     /\ C[p].ws = conn[p].ws \/ (conn[p].ws = "open" /\ C[p].ws = "closing")
  /\ room' \in [Player -> Members \union {NoEntry}]
  /\ \A m \in Player : room'[m] = room[m] \/ room'[m] = NoEntry
  /\ UNCHANGED <<gl, failed, recVars, admitted>>

(* The end of a commit retires its batch.                                  *)
LEMMA EndedCommit ==
  ASSUME IInv, NEW b \in Session, Staged(b), NEW E, NEW C, EndsCommit(b, E, C)
  PROVE  TypeOK' /\ GivesUp
<1> PICK T : T = Left(b)
  OBVIOUS
<1>0. /\ T \in SUBSET Session
      /\ \A s \in T :
           /\ ClaimOf(s) \notin admitted
           /\ \A p \in Peer : conn[p].session = s => conn[p].pc \notin {"inspecting", "preparing"}
           /\ \A d \in Session : Unresolved(d) /\ s \in Roster(d) => d = b
  BY ONLY T = Left(b), IInv, b \in Session, Staged(b), LeftFacts
<1> SUFFICES ASSUME /\ EndCommit(b, E, C) /\ TimedMap(E) /\ C \in [Peer -> Connections]
                    /\ \A s \in T : E[s] # NoEntry /\ E[s].peer # NoPeer => conn[E[s].peer].session = s
                    /\ \A s \in Session \ T : E[s] # entry[s] =>
                         /\ entry[s] # NoEntry /\ Removed(entry[s], E[s])
                         /\ entry[s].peer # NoPeer => C[entry[s].peer].ws # "open"
                    /\ \A p \in Peer : /\ C[p].session = conn[p].session /\ C[p].pc = conn[p].pc
                                       /\ C[p].ws = conn[p].ws \/ (conn[p].ws = "open" /\ C[p].ws = "closing")
                    /\ room' \in [Player -> Members \union {NoEntry}]
                    /\ \A m \in Player : room'[m] = room[m] \/ room'[m] = NoEntry
                    /\ UNCHANGED <<gl, failed, recVars, admitted>>
             PROVE  TypeOK' /\ GivesUp
  BY DEF EndsCommit
<1>1. batch' = [batch EXCEPT ![b].settled = TRUE, ![b].stage = "over"] /\ Release({b}, {}, E, C)
  BY DEF EndCommit
<1>2. /\ TimedMap(entry') /\ conn' \in [Peer -> Connections]
      /\ pending' \in [Claim -> Session \union {NoBatch}]
      /\ \A s \in Session : IF s \in T THEN Removed(E[s], entry'[s]) ELSE entry'[s] = E[s]
      /\ \A p \in Peer :
           /\ conn'[p].session = C[p].session /\ conn'[p].ws = C[p].ws
           /\ conn'[p].pc = IF At(p, "staged") /\ conn[p].session \in T THEN "refused" ELSE C[p].pc
      /\ \A c \in Claim : pending'[c] = IF pending[c] = b /\ Unresolved(b) THEN NoBatch ELSE pending[c]
  <2>0. {b} \in SUBSET Session /\ Release({b}, {}, E, C)
    BY <1>1
  <2>1. /\ TimedMap(entry') /\ conn' \in [Peer -> Connections]
        /\ pending' \in [Claim -> Session \union {NoBatch}]
        /\ \A s \in Session : IF s \in {} \union RosterOf(Unsettled({b})) THEN Removed(E[s], entry'[s])
                              ELSE entry'[s] = E[s]
        /\ \A p \in Peer :
              /\ conn'[p].session = C[p].session /\ conn'[p].ws = C[p].ws
              /\ conn'[p].pc = IF At(p, "staged") /\ conn[p].session \in RosterOf(Unsettled({b}))
                               THEN "refused" ELSE C[p].pc
        /\ \A c \in Claim : pending'[c] = IF pending[c] \in Unsettled({b}) THEN NoBatch ELSE pending[c]
    BY ONLY IInv, TimedMap(E), C \in [Peer -> Connections], <2>0, ReleaseEffect
  <2> QED
    BY <2>1, LeftFacts
<1>4. batch[b] \in Batches /\ b \in Roster(b) /\ (batch[b].call = "sent" => batch[b].stage \in {"accepting", "over"})
  BY DEF IInv, TypeOK, GateInv, BatchesOf, Staged
<1>5. /\ batch'[b] \in Batches /\ batch'[b].settled /\ batch'[b].stage = "over"
      /\ batch'[b].members = batch[b].members
      /\ \A d \in Session : d # b => batch'[d] = batch[d]
      /\ batch' \in [Session -> Batches \union {NoBatch}]
  <2>1. batch'[b] = [batch[b] EXCEPT !.settled = TRUE, !.stage = "over"] /\ \A d \in Session : d # b => batch'[d] = batch[d]
    BY <1>1 DEF IInv, TypeOK
  <2>2. /\ batch'[b] \in Batches /\ batch'[b].settled /\ batch'[b].stage = "over"
        /\ batch'[b].members = batch[b].members
    BY <1>4, <2>1 DEF Batches
  <2>3. batch' \in [Session -> Batches \union {NoBatch}]
    BY <1>1, <2>1, <2>2 DEF IInv, TypeOK
  <2> QED
    BY <2>1, <2>2, <2>3
<1>6. TypeOK'
  BY <1>2, <1>5 DEF IInv, TypeOK, TimedMap, EntryMap, recVars
<1>7. Settled(b)' /\ Roster(b)' = Roster(b)
  BY <1>5, NullAssumption DEF Settled, Staged, Roster
<1>8. RetiresSessions(T)
  <2>1. ASSUME NEW s \in T
        PROVE  /\ entry'[s] # NoEntry /\ entry'[s].removing /\ Timed(entry'[s])
               /\ entry'[s].peer # NoPeer => conn[entry'[s].peer].session = s
    <3>1. Removed(E[s], entry'[s]) /\ s \in Session
      BY <1>0, <1>2
    <3> QED
      BY <3>1 DEF Removed
  <2>2. ASSUME NEW s \in T
        PROVE  /\ ClaimOf(s) \notin admitted
               /\ \A p \in Peer : conn[p].session = s => conn[p].pc # "inspecting"
               /\ \A d \in Session : Unresolved(d) /\ s \in Roster(d) => d = b
    BY <1>0
  <2> QED
    BY <1>7, <2>1, <2>2 DEF RetiresSessions
<1>9. EvictsSessions(T)
  <2> SUFFICES ASSUME NEW s \in Session \ T, entry'[s] # entry[s]
               PROVE  /\ entry[s] # NoEntry /\ Removed(entry[s], entry'[s])
                      /\ entry[s].peer # NoPeer => conn'[entry[s].peer].ws # "open"
    BY DEF EvictsSessions
  <2>1. entry'[s] = E[s] /\ entry[s] # NoEntry
    BY <1>2
  <2>2. entry[s].peer # NoPeer => entry[s].peer \in Peer
    BY <2>1, EntryType DEF IInv, TypeOK
  <2> QED
    BY <1>2, <2>1, <2>2
<1>10. RefusesSockets(T)
  <2> SUFFICES ASSUME NEW p \in Peer
               PROVE  LET refused == conn[p].pc \in {"preparing", "staged"} /\ conn[p].session \in T
                      IN  /\ conn'[p].session = conn[p].session
                          /\ conn'[p].pc = IF refused THEN "refused" ELSE conn[p].pc
                          /\ conn'[p].ws = conn[p].ws \/ (conn[p].ws = "open" /\ conn'[p].ws = "closing")
    BY DEF RefusesSockets
  <2>1. At(p, "preparing") => conn[p].session \notin T
    BY <1>0 DEF At
  <2>2. /\ conn'[p].session = conn[p].session
        /\ conn'[p].ws = conn[p].ws \/ (conn[p].ws = "open" /\ conn'[p].ws = "closing")
        /\ conn'[p].pc = IF At(p, "staged") /\ conn[p].session \in T THEN "refused" ELSE conn[p].pc
    BY <1>2
  <2> QED
    BY <2>1, <2>2 DEF At
<1>11. SettlesBatches(T)
  <2> SUFFICES /\ Settled(b)' /\ (b \in Roster(b))'
               /\ batch'[b].call = "sent" => batch'[b].stage \in {"accepting", "over"}
               /\ batch'[b].members = batch[b].members
               /\ Settled(b) \/ \A s \in Session : (s \in Roster(b))' => s \in T
               /\ pending'[ClaimOf(b)] # b
    BY <1>5 DEF SettlesBatches
  <2>1. Unresolved(b) => \A s \in Roster(b) : s \in T
    BY ONLY T = Left(b) DEF Left
  <2>2. pending'[ClaimOf(b)] # b
    <3>1. ClaimOf(b) \in Claim /\ b # NoBatch
      BY SessionParts, NullAssumption
    <3>2. pending[ClaimOf(b)] = b => Unresolved(b)
      BY <3>1 DEF IInv, GateInv, PendingOf
    <3> QED
      BY <1>2, <3>1, <3>2
  <2> QED
    BY <1>4, <1>5, <1>7, <2>1, <2>2 DEF Settled, Unresolved
<1>12. \A c \in Claim : \/ pending'[c] = pending[c]
                        \/ /\ pending'[c] = NoBatch
                           /\ \A d \in Session : d = pending[c] => Settled(d)'
  BY <1>2, <1>7
<1>13. Retirement(T)
  BY <1>8, <1>9, <1>10, <1>11, <1>12 DEF Retirement, GameLiftMoves
<1> QED
  BY <1>0, <1>6, <1>13, Retiring

(* A socket is closed at most once.                                        *)
LEMMA CloseEffect ==
  ASSUME IInv, NEW P
  PROVE  LET C == CloseSockets(conn, P) IN
         /\ C \in [Peer -> Connections]
         /\ \A p \in Peer : /\ C[p].session = conn[p].session /\ C[p].pc = conn[p].pc
                            /\ C[p].ws = conn[p].ws \/ (conn[p].ws = "open" /\ C[p].ws = "closing")
                            /\ p \in P => C[p].ws # "open"
<1>1. conn \in [Peer -> Connections]
  BY DEF IInv, TypeOK
<1> QED
  BY <1>1, SocketsOf DEF Close

(* The arena releases the members R of its own. *)
LEMMA Evicting ==
  ASSUME IInv, NEW R \in SUBSET Player,
         room' = Vacate(R), entry' = AfterRelease(entry, R),
         conn' = CloseSockets(conn, ClosedByRelease(entry, R)),
         UNCHANGED <<gl, failed, batchVars, admitted>>,
         rec' \in [stage: {"idle", "verifying", "draining", "removing"}, claim: Claim,
                   wait: SUBSET Session, evict: SUBSET Player, left: SUBSET Session],
         reported' = reported
  PROVE  TypeOK' /\ GivesUp
<1>1. TimedMap(entry)
  BY EntryFacts
<1>2. /\ TimedMap(entry')
      /\ \A s \in Session : \/ entry'[s] = entry[s]
                            \/ /\ entry[s] # NoEntry /\ Removed(entry[s], entry'[s])
                               /\ entry[s].peer # NoPeer => entry[s].peer \in ClosedByRelease(entry, R)
      /\ room' \in [Player -> Members \union {NoEntry}]
      /\ \A m \in Player : room'[m] = room[m] \/ room'[m] = NoEntry
  BY <1>1, EvictEffect
<1>3. /\ conn' \in [Peer -> Connections]
      /\ \A p \in Peer : /\ conn'[p].session = conn[p].session /\ conn'[p].pc = conn[p].pc
                         /\ conn'[p].ws = conn[p].ws \/ (conn[p].ws = "open" /\ conn'[p].ws = "closing")
                         /\ p \in ClosedByRelease(entry, R) => conn'[p].ws # "open"
  BY CloseEffect
<1>4. TypeOK'
  BY <1>2, <1>3 DEF IInv, TypeOK, TimedMap, EntryMap, batchVars
<1>5. EvictsSessions({})
  <2> SUFFICES ASSUME NEW s \in Session, entry'[s] # entry[s]
               PROVE  /\ entry[s] # NoEntry /\ Removed(entry[s], entry'[s])
                      /\ entry[s].peer # NoPeer => conn'[entry[s].peer].ws # "open"
    BY DEF EvictsSessions
  <2>1. entry[s].peer # NoPeer => entry[s].peer \in Peer
    BY <1>2, EntryType DEF IInv, TypeOK
  <2> QED
    BY <1>2, <1>3, <2>1
<1>6. RefusesSockets({}) /\ RetiresSessions({}) /\ SettlesBatches({})
  BY <1>3 DEF RefusesSockets, RetiresSessions, SettlesBatches, batchVars
<1>7. Retirement({})
  BY <1>2, <1>5, <1>6 DEF Retirement, GameLiftMoves, batchVars
<1> QED
  BY <1>4, <1>7, Retiring

(* The catch of commitPendingAtomicParty gives up.                         *)
LEMMA Catching ==
  ASSUME IInv, NEW b \in Session, Staged(b), NEW E, TimedMap(E),
         \A s \in Left(b) : E[s] # NoEntry /\ E[s].peer # NoPeer => conn[E[s].peer].session = s,
         \A s \in Session \ Left(b) : E[s] = entry[s],
         Catch(b, E), UNCHANGED <<gl, failed, recVars, admitted>>
  PROVE  TypeOK' /\ GivesUp
<1> DEFINE R == Evicted(batch[b].members)
           A == AfterRelease(E, R)
           P == ClosedByRelease(E, R)
           C == CloseSockets(conn, P)
<1>1. room' = Vacate(R) /\ EndCommit(b, A, C) /\ R \in SUBSET Player
  BY DEF Catch, Evicted
<1>2. /\ TimedMap(A)
      /\ \A s \in Session : \/ A[s] = E[s]
                            \/ /\ E[s] # NoEntry /\ Removed(E[s], A[s])
                               /\ E[s].peer # NoPeer => E[s].peer \in P
      /\ Vacate(R) \in [Player -> Members \union {NoEntry}]
      /\ \A m \in Player : Vacate(R)[m] = room[m] \/ Vacate(R)[m] = NoEntry
  BY <1>1, EvictEffect
<1>3. /\ C \in [Peer -> Connections]
      /\ \A p \in Peer : /\ C[p].session = conn[p].session /\ C[p].pc = conn[p].pc
                         /\ C[p].ws = conn[p].ws \/ (conn[p].ws = "open" /\ C[p].ws = "closing")
                         /\ p \in P => C[p].ws # "open"
  BY CloseEffect
<1> HIDE DEF R, A, P, C
<1>4. Left(b) \in SUBSET Session
  BY LeftFacts
<1>5. \A s \in Left(b) : A[s] # NoEntry /\ A[s].peer # NoPeer => conn[A[s].peer].session = s
  BY <1>2, <1>4 DEF Removed
<1>6. ASSUME NEW s \in Session \ Left(b), A[s] # entry[s]
      PROVE  /\ entry[s] # NoEntry /\ Removed(entry[s], A[s])
             /\ entry[s].peer # NoPeer => C[entry[s].peer].ws # "open"
  <2>1. /\ entry[s] # NoEntry /\ Removed(entry[s], A[s])
        /\ entry[s].peer # NoPeer => entry[s].peer \in P
    BY <1>2, <1>6
  <2>2. entry[s].peer # NoPeer => entry[s].peer \in Peer
    BY <2>1, EntryType DEF IInv, TypeOK
  <2> QED
    BY <1>3, <2>1, <2>2
<1>7. room' \in [Player -> Members \union {NoEntry}] /\ \A m \in Player : room'[m] = room[m] \/ room'[m] = NoEntry
  BY <1>1, <1>2
<1>8. \A p \in Peer : /\ C[p].session = conn[p].session /\ C[p].pc = conn[p].pc
                      /\ C[p].ws = conn[p].ws \/ (conn[p].ws = "open" /\ C[p].ws = "closing")
  BY <1>3
<1>9. EndsCommit(b, A, C)
  BY <1>1, <1>2, <1>3, <1>5, <1>6, <1>7, <1>8 DEF EndsCommit
<1> QED
  BY <1>9, EndedCommit

-----------------------------------------------------------------------------
(* The actions that give up. *)

(* The pending batch of a claim is a session of it.                        *)
LEMMA PendingFacts ==
  ASSUME IInv, NEW c \in Claim
  PROVE  /\ {pending[c]} \ {NoBatch} \in SUBSET Session
         /\ \A b \in {pending[c]} \ {NoBatch} : Unresolved(b) /\ ClaimOf(b) = c
BY DEF IInv, TypeOK, GateInv, PendingOf

(* A refused socket.                                                       *)
LEMMA RefusedSocket ==
  ASSUME NEW k \in Connections, NEW s \in Session \union {NoEntry}
  PROVE  LET r == Refused(k, s)
         IN  r \in Connections /\ r.pc = "refused" /\ r.session = s /\ r.ws = Close(k.ws)
<1>1. PICK w \in {"open", "closing", "closed"} : w = Close(k.ws)
  BY DEF Connections, Close
<1>2. Refused(k, s) = [k EXCEPT !.session = s, !.pc = "refused", !.ws = w]
  BY <1>1 DEF Refused
<1> QED
  BY <1>1, <1>2 DEF Connections

(* The handlers that give up, one by one.                                  *)
LEMMA BatchTimeoutGivesUp ==
  ASSUME IInv, NEW b \in Session, BatchTimeout(b)
  PROVE  TypeOK' /\ GivesUp
<1>1. Unresolved(b) /\ ReleaseBatches({b}, {}, entry, conn)
  BY DEF BatchTimeout, Unresolved, Staged
<1>2. ReleasesBatches({b}, {}, conn)
  BY <1>1 DEF ReleasesBatches, BatchTimeout, IInv, TypeOK, recVars, At
<1> QED
  BY <1>2, ReleasedBatches

LEMMA PrepareFailsGivesUp ==
  ASSUME IInv, NEW p \in Peer, PrepareFails(p)
  PROVE  TypeOK' /\ GivesUp
<1>0. PICK s : s = conn[p].session
  OBVIOUS
<1>1. PICK B : B = {pending[ClaimOf(s)]} \ {NoBatch}
  OBVIOUS
<1>2. PICK C : C = [conn EXCEPT ![p] = Refused(@, s)]
  OBVIOUS
<1>3. At(p, "preparing") /\ ReleaseBatches(B, {s}, entry, C) /\ UNCHANGED <<gl, failed, room, recVars, admitted>>
  BY <1>0, <1>1, <1>2 DEF PrepareFails
<1>4. s \in Session /\ ClaimOf(s) \in Claim
  BY <1>0, <1>3, HelloFacts DEF At
<1>5. B \in SUBSET Session /\ \A b \in B : Unresolved(b)
  BY <1>1, <1>4, PendingFacts
<1>6. Loose(s, B)
  <2>1. ClaimOf(s) \notin admitted /\ entry[s] = NoEntry /\ \A b \in Session : Unresolved(b) => s \notin Roster(b)
    BY <1>0, <1>3, PreparingFacts
  <2>2. ASSUME NEW q \in Peer, conn[q].session = s, conn[q].pc \in {"inspecting", "staged"}
        PROVE  FALSE
    <3>1. q = p
      BY <1>0, <1>3, <2>2 DEF IInv, GateInv, Hellos, Waiting, At
    <3> QED
      BY <1>3, <2>2, <3>1 DEF At
  <2> QED
    BY <2>1, <2>2 DEF Loose
<1>7. C \in [Peer -> Connections] /\ \A q \in Peer : IF q = p THEN C[q].session = s /\ C[q].pc = "refused"
                                                     ELSE C[q] = conn[q]
  <2>1. conn \in [Peer -> Connections]
    BY DEF IInv, TypeOK
  <2>2. C[p] = Refused(conn[p], s) /\ \A q \in Peer \ {p} : C[q] = conn[q]
    BY <1>2, <2>1
  <2>3. C[p] \in Connections /\ C[p].pc = "refused" /\ C[p].session = s
    BY <1>4, <2>1, <2>2, RefusedSocket
  <2> QED
    BY <1>2, <2>1, <2>2, <2>3
<1>8. \A q \in Peer : At(q, "preparing") /\ conn[q].session = s => q = p
  BY <1>0, <1>3 DEF IInv, GateInv, Hellos, Waiting, At
<1>9. ReleasesBatches(B, {s}, C)
  BY <1>0, <1>3, <1>4, <1>5, <1>6, <1>7, <1>8 DEF ReleasesBatches, IInv, TypeOK, recVars, At
<1> QED
  BY <1>9, ReleasedBatches

(* A staged socket that closes takes its party with it. *)
LEMMA StagedCloseGivesUp ==
  ASSUME IInv, NEW p \in Peer, SocketCloses(p), At(p, "staged")
  PROVE  TypeOK' /\ GivesUp
<1>0. PICK s : s = conn[p].session
  OBVIOUS
<1>1. PICK b \in Session : Unresolved(b) /\ b = pending[ClaimOf(s)] /\ s \in Roster(b)
  BY <1>0, StagedFacts
<1>2. PICK C : C = [conn EXCEPT ![p].ws = "closed"]
  OBVIOUS
<1>3. /\ ReleaseBatches({b}, {}, entry, C) /\ UNCHANGED <<gl, failed, recVars, admitted>>
      /\ room' = [m \in Player |-> IF room[m] # NoEntry /\ room[m].peer = p
                                   THEN [room[m] EXCEPT !.peer = NoPeer] ELSE room[m]]
  BY <1>0, <1>1, <1>2 DEF SocketCloses, At
<1>4. room' = room
  <2>1. \A m \in Player : ~(room[m] # NoEntry /\ room[m].peer = p)
    BY SeatedFacts, GateAssumption DEF At
  <2> QED
    BY <1>3, <2>1 DEF IInv, TypeOK
<1>5. C \in [Peer -> Connections] /\ \A q \in Peer :
        C[q].session = conn[q].session /\ C[q].pc = conn[q].pc /\ (q # p => C[q].ws = conn[q].ws)
  BY <1>2 DEF IInv, TypeOK, Connections
<1>6. s \in RosterOf({b})
  BY <1>1 DEF RosterOf
<1>7. ReleasesBatches({b}, {}, C)
  BY <1>0, <1>1, <1>3, <1>4, <1>5, <1>6 DEF ReleasesBatches, IInv, TypeOK, recVars
<1> QED
  BY <1>7, ReleasedBatches

LEMMA JoinRefusedGivesUp ==
  ASSUME IInv, NEW b \in Session, JoinRefused(b)
  PROVE  TypeOK' /\ GivesUp
<1>1. Staged(b) /\ EndCommit(b, entry, conn) /\ UNCHANGED <<gl, failed, room, recVars, admitted>>
  BY DEF JoinRefused, Staged
<1>2. \A s \in Left(b) : entry[s] # NoEntry /\ entry[s].peer # NoPeer => conn[entry[s].peer].session = s
  <2>1. Left(b) \in SUBSET Session
    BY <1>1, LeftFacts
  <2> QED
    BY <2>1 DEF IInv, GateInv, Bindings
<1>3. EndsCommit(b, entry, conn)
  BY <1>1, <1>2, EntryFacts DEF EndsCommit, IInv, TypeOK
<1> QED
  BY <1>1, <1>3, EndedCommit

LEMMA CommitFailsGivesUp ==
  ASSUME IInv, NEW b \in Session, CommitFails(b)
  PROVE  TypeOK' /\ GivesUp
<1>1. Staged(b) /\ Catch(b, entry) /\ UNCHANGED <<gl, failed, recVars, admitted>>
  BY DEF CommitFails, Staged
<1>2. \A s \in Left(b) : entry[s] # NoEntry /\ entry[s].peer # NoPeer => conn[entry[s].peer].session = s
  <2>1. Left(b) \in SUBSET Session
    BY <1>1, LeftFacts
  <2> QED
    BY <2>1 DEF IInv, GateInv, Bindings
<1> QED
  BY <1>1, <1>2, EntryFacts, Catching

LEMMA CommitMissesMemberGivesUp ==
  ASSUME IInv, NEW b \in Session, CommitMissesMember(b)
  PROVE  TypeOK' /\ GivesUp
<1>0. PICK E : E = [s \in Session |-> IF s \in Roster(b) THEN Bound(PeerOf(s)) ELSE entry[s]]
  OBVIOUS
<1>1. Staged(b) /\ Unresolved(b) /\ Catch(b, E) /\ UNCHANGED <<gl, failed, recVars, admitted>>
  BY <1>0 DEF CommitMissesMember, Staged, Unresolved
<1>2. Left(b) = Roster(b) /\ Left(b) \in SUBSET Session
  BY <1>1, LeftFacts DEF Left
<1>3. \A s \in Roster(b) : PeerOf(s) \in Peer /\ conn[PeerOf(s)].session = s
  BY <1>1, PeerOfMember
<1>4. \A s \in Roster(b) : E[s] \in Entries /\ Timed(E[s]) /\ E[s].peer = PeerOf(s)
  <2> SUFFICES ASSUME NEW s \in Roster(b)
               PROVE  E[s] \in Entries /\ Timed(E[s]) /\ E[s].peer = PeerOf(s)
    OBVIOUS
  <2>1. E[s] = Bound(PeerOf(s))
    BY <1>0, <1>2
  <2>2. PeerOf(s) \in Peer /\ PeerOf(s) # NoPeer
    BY <1>3, GateAssumption
  <2> QED
    BY <2>1, <2>2, BoundType DEF Timed
<1>5. \A s \in Session \ Left(b) : E[s] = entry[s]
  BY <1>0, <1>2
<1>6. TimedMap(E)
  <2>1. \A s \in Session : E[s] \in Entries \union {NoEntry} /\ (E[s] # NoEntry => Timed(E[s]))
    BY <1>2, <1>4, <1>5, EntryFacts DEF TimedMap, EntryMap
  <2> QED
    BY <1>0, <2>1 DEF TimedMap, EntryMap
<1>7. \A s \in Left(b) : E[s] # NoEntry /\ E[s].peer # NoPeer => conn[E[s].peer].session = s
  BY <1>2, <1>3, <1>4
<1> QED
  BY <1>1, <1>5, <1>6, <1>7, Catching

LEMMA RoomReleasesGivesUp ==
  ASSUME IInv, NEW m \in Player, RoomReleases(m)
  PROVE  TypeOK' /\ GivesUp
<1>1. {m} \in SUBSET Player
  OBVIOUS
<1> QED
  BY <1>1, Evicting DEF RoomReleases, IInv, TypeOK, recVars

LEMMA DrainedGivesUp ==
  ASSUME IInv, Drained
  PROVE  TypeOK' /\ GivesUp
<1>1. PICK R : R = Evicted(rec.evict)
  OBVIOUS
<1>2. R \in SUBSET Player
  BY <1>1 DEF Evicted
<1>3. room' = Vacate(R) /\ entry' = AfterRelease(entry, R) /\ conn' = CloseSockets(conn, ClosedByRelease(entry, R))
  BY <1>1 DEF Drained, Evict
<1>4. rec' \in [stage: {"idle", "verifying", "draining", "removing"}, claim: Claim,
                wait: SUBSET Session, evict: SUBSET Player, left: SUBSET Session]
  BY DEF Drained, IInv, TypeOK
<1> QED
  BY <1>2, <1>3, <1>4, Evicting DEF Drained

LEMMA VerifySucceedsGivesUp ==
  ASSUME IInv, VerifySucceeds
  PROVE  TypeOK' /\ GivesUp
<1>1. PICK c : c = rec.claim
  OBVIOUS
<1>2. PICK B : B = {pending[c]} \ {NoBatch}
  OBVIOUS
<1>3. c \in Claim /\ B \in SUBSET Session /\ \A b \in B : Unresolved(b)
  BY <1>1, <1>2, PendingFacts DEF IInv, TypeOK
<1>4. CASE B = {}
  <2>1. PICK R : R = Evicted(ActivePlayers(c))
    OBVIOUS
  <2>2. R \in SUBSET Player
    BY <2>1 DEF Evicted
  <2>3. room' = Vacate(R) /\ entry' = AfterRelease(entry, R) /\ conn' = CloseSockets(conn, ClosedByRelease(entry, R))
        /\ rec' = [rec EXCEPT !.stage = "removing"] /\ UNCHANGED batchVars
    BY <1>1, <1>2, <1>4, <2>1 DEF VerifySucceeds, Evict
  <2>4. rec' \in [stage: {"idle", "verifying", "draining", "removing"}, claim: Claim,
                  wait: SUBSET Session, evict: SUBSET Player, left: SUBSET Session]
    BY <2>3 DEF IInv, TypeOK
  <2> QED
    BY <2>2, <2>3, <2>4, Evicting DEF VerifySucceeds
<1>5. CASE B # {}
  <2>1. PICK started : started = {s \in UNION {Roster(b) : b \in B} : entry[s] = NoEntry \/ ~entry[s].removing}
    OBVIOUS
  <2>2. ReleaseBatches(B, {}, entry, conn) /\ UNCHANGED room
        /\ rec' = [rec EXCEPT !.stage = "draining", !.wait = started, !.evict = ActivePlayers(c)]
    BY <1>1, <1>2, <1>5, <2>1 DEF VerifySucceeds
  <2>3. started \in SUBSET Session /\ ActivePlayers(c) \in SUBSET Player
    BY <1>3, <2>1, RosterFacts DEF ActivePlayers, RosterOf
  <2>4. rec' \in [stage: {"idle", "verifying", "draining", "removing"}, claim: Claim,
                  wait: SUBSET Session, evict: SUBSET Player, left: SUBSET Session]
    BY <2>2, <2>3 DEF IInv, TypeOK
  <2>5. ReleasesBatches(B, {}, conn)
    BY <1>3, <2>2, <2>4 DEF ReleasesBatches, VerifySucceeds, IInv, TypeOK, At
  <2> QED
    BY <2>5, ReleasedBatches
<1> QED
  BY <1>4, <1>5

(* Refusing sockets and closing them is done in one step.                  *)
LEMMA RefuseAndClose ==
  ASSUME IInv, NEW Q, NEW P, conn' = CloseSockets(RefuseAll(conn, Q), P)
  PROVE  /\ conn' \in [Peer -> Connections]
         /\ \A p \in Peer :
              /\ conn'[p].session = conn[p].session
              /\ conn'[p].pc = IF p \in Q THEN "refused" ELSE conn[p].pc
              /\ conn'[p].ws = conn[p].ws \/ (conn[p].ws = "open" /\ conn'[p].ws = "closing")
              /\ p \in P => conn'[p].ws # "open"
<1>1. PICK C : C = RefuseAll(conn, Q)
  OBVIOUS
<1>2. C \in [Peer -> Connections] /\ \A p \in Peer :
         /\ C[p].session = conn[p].session /\ C[p].ws = conn[p].ws
         /\ C[p].pc = IF p \in Q THEN "refused" ELSE conn[p].pc
  BY <1>1, SocketsOf DEF IInv, TypeOK
<1>3. conn' \in [Peer -> Connections] /\ \A p \in Peer :
         /\ conn'[p].session = C[p].session /\ conn'[p].pc = C[p].pc
         /\ conn'[p].ws = IF p \in P THEN Close(C[p].ws) ELSE C[p].ws
  BY <1>1, <1>2, SocketsOf
<1> QED
  BY <1>2, <1>3 DEF Close

(* The arena has seated the party and telling its members fails: every     *)
(* binding of the players goes, with its socket. *)
LEMMA DeliveryFailsGivesUp ==
  ASSUME IInv, NEW b \in Session, DeliveryFails(b)
  PROVE  TypeOK' /\ GivesUp
<1>1. /\ Unresolved(b) /\ batch[b].stage = "joining"
      /\ UNCHANGED <<gl, failed, recVars, admitted>>
      /\ pending' = [pending EXCEPT ![ClaimOf(b)] = NoBatch]
      /\ batch' = [batch EXCEPT ![b].settled = TRUE, ![b].stage = "over"]
      /\ room' = [m \in Player |-> IF m \in batch[b].members THEN NoEntry ELSE room[m]]
  BY DEF DeliveryFails, MayJoin, Unresolved, Staged
<1>2. PICK T : T = Roster(b)
  OBVIOUS
<1>3. /\ batch[b] \in Batches /\ batch[b].members \subseteq Player /\ b \in T /\ pending[ClaimOf(b)] = b /\ ClaimOf(b) \in Claim
      /\ T \in SUBSET Session /\ \A s \in T : ClaimOf(s) = ClaimOf(b)
  BY <1>1, <1>2, BatchFacts, SessionParts DEF Batches
<1>4. \A s \in T : /\ ClaimOf(s) \notin admitted
                   /\ \A p \in Peer : conn[p].session = s => conn[p].pc \notin {"inspecting", "preparing"}
                   /\ \A d \in Session : Unresolved(d) /\ s \in Roster(d) => d = b
  <2>1. {b} \in SUBSET Session /\ (\A d \in {b} : Unresolved(d)) /\ RosterOf({b}) = T
    BY <1>1, <1>2 DEF RosterOf
  <2> QED
    BY <2>1, RosterFacts
<1>5. PICK E : E = [s \in Session |->
                     IF PlayerOf(s) \in batch[b].members /\ entry[s] # NoEntry /\ entry[s].known
                     THEN StartRemoval([entry[s] EXCEPT !.peer = NoPeer]) ELSE entry[s]]
  OBVIOUS
<1>6. PICK P : P = StagedPeers(b) \union
                     {entry[s].peer : s \in {x \in Session : PlayerOf(x) \in batch[b].members /\ entry[x] # NoEntry}}
  OBVIOUS
<1>7. entry' = RetainAndRemove(E, T) /\ conn' = CloseSockets(RefuseAll(conn, StagedPeers(b)), P)
  BY <1>2, <1>5, <1>6 DEF DeliveryFails
<1>8. \A s \in Session : \/ E[s] = entry[s]
                         \/ entry[s] # NoEntry /\ Removed(entry[s], E[s]) /\ entry[s].peer \in P
  <2> TAKE s \in Session
  <2>1. CASE PlayerOf(s) \in batch[b].members /\ entry[s] # NoEntry /\ entry[s].known
    <3>1. E[s] = StartRemoval([entry[s] EXCEPT !.peer = NoPeer])
      BY <1>5, <2>1
    <3>2. entry[s] \in Entries /\ Timed(entry[s])
      BY <2>1, EntryFacts DEF TimedMap, EntryMap
    <3> QED
      BY <1>6, <2>1, <3>1, <3>2, RemovalOfUnbound
  <2>2. CASE ~(PlayerOf(s) \in batch[b].members /\ entry[s] # NoEntry /\ entry[s].known)
    BY <1>5, <2>2
  <2> QED
    BY <2>1, <2>2
<1>9. TimedMap(E)
  <2>1. \A s \in Session : E[s] \in Entries \union {NoEntry} /\ (E[s] # NoEntry => Timed(E[s]))
    BY <1>8, EntryFacts DEF TimedMap, EntryMap, Removed
  <2> QED
    BY <1>5, <2>1 DEF TimedMap, EntryMap
<1>10. TimedMap(entry') /\ \A s \in Session : IF s \in T THEN Removed(E[s], entry'[s]) ELSE entry'[s] = E[s]
  BY <1>7, <1>9, RetainOf
<1>11. /\ conn' \in [Peer -> Connections]
       /\ \A p \in Peer :
            /\ conn'[p].session = conn[p].session
            /\ conn'[p].pc = IF p \in StagedPeers(b) THEN "refused" ELSE conn[p].pc
            /\ conn'[p].ws = conn[p].ws \/ (conn[p].ws = "open" /\ conn'[p].ws = "closing")
            /\ p \in P => conn'[p].ws # "open"
  BY <1>7, RefuseAndClose
<1>12. /\ batch'[b] \in Batches /\ batch'[b].settled /\ batch'[b].stage = "over" /\ batch'[b].members = batch[b].members
       /\ batch' \in [Session -> Batches \union {NoBatch}]
       /\ \A d \in Session \ {b} : batch'[d] = batch[d]
  <2>1. batch'[b] = [batch[b] EXCEPT !.settled = TRUE, !.stage = "over"] /\ \A d \in Session \ {b} : batch'[d] = batch[d]
    BY <1>1 DEF IInv, TypeOK
  <2>2. batch'[b] \in Batches /\ batch'[b].settled /\ batch'[b].stage = "over" /\ batch'[b].members = batch[b].members
    BY <1>3, <2>1 DEF Batches
  <2> QED
    BY <1>1, <2>1, <2>2 DEF IInv, TypeOK
<1>13. room' \in [Player -> Members \union {NoEntry}] /\ \A m \in Player : room'[m] = room[m] \/ room'[m] = NoEntry
  BY <1>1 DEF IInv, TypeOK
<1>14. pending' \in [Claim -> Session \union {NoBatch}]
  BY <1>1 DEF IInv, TypeOK
<1>15. TypeOK'
  BY <1>1, <1>10, <1>11, <1>12, <1>13, <1>14 DEF IInv, TypeOK, TimedMap, EntryMap, recVars
<1>16. Settled(b)' /\ Roster(b)' = Roster(b)
  BY <1>12, NullAssumption DEF Settled, Staged, Roster
<1>17. RetiresSessions(T)
  <2>1. ASSUME NEW s \in T
        PROVE  /\ entry'[s] # NoEntry /\ entry'[s].removing /\ Timed(entry'[s])
               /\ entry'[s].peer # NoPeer => conn[entry'[s].peer].session = s
    <3>1. Removed(E[s], entry'[s]) /\ Bindings(s)
      BY <1>3, <1>10 DEF IInv, GateInv
    <3>2. E[s] # NoEntry /\ E[s].peer # NoPeer => entry[s] # NoEntry /\ entry[s].peer = E[s].peer
      BY <1>3, <1>8 DEF Removed
    <3> QED
      BY <3>1, <3>2 DEF Removed, Bindings
  <2> QED
    BY <1>4, <1>16, <2>1 DEF RetiresSessions
<1>18. EvictsSessions(T)
  <2> SUFFICES ASSUME NEW s \in Session \ T, entry'[s] # entry[s]
               PROVE  /\ entry[s] # NoEntry /\ Removed(entry[s], entry'[s])
                      /\ entry[s].peer # NoPeer => conn'[entry[s].peer].ws # "open"
    BY DEF EvictsSessions
  <2>1. entry[s] # NoEntry /\ Removed(entry[s], entry'[s]) /\ entry[s].peer \in P
    BY <1>8, <1>10
  <2>2. entry[s].peer # NoPeer => entry[s].peer \in Peer
    BY <2>1, EntryType DEF IInv, TypeOK
  <2> QED
    BY <1>11, <2>1, <2>2
<1>19. RefusesSockets(T)
  <2> SUFFICES ASSUME NEW p \in Peer
               PROVE  LET refused == conn[p].pc \in {"preparing", "staged"} /\ conn[p].session \in T
                      IN  /\ conn'[p].session = conn[p].session
                          /\ conn'[p].pc = IF refused THEN "refused" ELSE conn[p].pc
                          /\ conn'[p].ws = conn[p].ws \/ (conn[p].ws = "open" /\ conn'[p].ws = "closing")
    BY DEF RefusesSockets
  <2>1. conn[p].pc = "preparing" => conn[p].session \notin T
    BY <1>4
  <2>2. p \in StagedPeers(b) <=> conn[p].pc = "staged" /\ conn[p].session \in T
    BY <1>2 DEF StagedPeers, At
  <2> QED
    BY <1>11, <2>1, <2>2
<1>20. SettlesBatches(T)
  <2>1. pending'[ClaimOf(b)] # b
    BY <1>1, <1>3, NullAssumption DEF IInv, TypeOK
  <2>2. (b \in Roster(b))' /\ \A s \in Session : (s \in Roster(b))' => s \in T
    BY <1>2, <1>3, <1>16
  <2> QED
    BY <1>12, <1>16, <2>1, <2>2 DEF SettlesBatches
<1>21. \A c \in Claim : \/ pending'[c] = pending[c]
                        \/ /\ pending'[c] = NoBatch
                           /\ \A d \in Session : d = pending[c] => Settled(d)'
  BY <1>1, <1>3, <1>16 DEF IInv, TypeOK
<1>22. Retirement(T)
  BY <1>1, <1>13, <1>17, <1>18, <1>19, <1>20, <1>21 DEF Retirement, GameLiftMoves
<1> QED
  BY <1>3, <1>15, <1>22, Retiring

(* The party of the member that is being staged. *)
LEMMA PartyOf ==
  ASSUME IInv, NEW p \in Peer, At(p, "preparing"), NEW s, s = conn[p].session
  PROVE  /\ s \in Session /\ ClaimOf(s) \in Claim /\ PlayerOf(s) \in Player
         /\ StagedWith(p) \in SUBSET Player /\ PlayerOf(s) \in StagedWith(p)
         /\ pending[ClaimOf(s)] = NoBatch => StagedWith(p) = {PlayerOf(s)}
         /\ \A b \in Session : b = pending[ClaimOf(s)] =>
              /\ Unresolved(b) /\ ClaimOf(b) = ClaimOf(s) /\ s \notin Roster(b)
              /\ StagedWith(p) = {PlayerOf(s)} \union batch[b].members
              /\ \A t \in Session : ClaimOf(t) = ClaimOf(s) /\ PlayerOf(t) \in StagedWith(p) => t = s \/ t \in Roster(b)
<1>1. s \in Session /\ ClaimOf(s) \in Claim /\ PlayerOf(s) \in Player
  BY HelloFacts DEF At
<1>2. pending[ClaimOf(s)] = NoBatch => StagedWith(p) = {PlayerOf(s)}
  BY DEF StagedWith
<1>3. ASSUME NEW b \in Session, b = pending[ClaimOf(s)]
      PROVE  /\ Unresolved(b) /\ ClaimOf(b) = ClaimOf(s) /\ s \notin Roster(b)
             /\ StagedWith(p) = {PlayerOf(s)} \union batch[b].members /\ batch[b].members \in SUBSET Player
             /\ \A t \in Session : ClaimOf(t) = ClaimOf(s) /\ PlayerOf(t) \in StagedWith(p) => t = s \/ t \in Roster(b)
  <2>1. b # NoBatch
    BY NullAssumption
  <2>2. Unresolved(b) /\ ClaimOf(b) = ClaimOf(s)
    BY <1>1, <1>3, <2>1 DEF IInv, GateInv, PendingOf
  <2>3. s \notin Roster(b)
    BY <2>2, PreparingFacts
  <2>4. StagedWith(p) = {PlayerOf(s)} \union batch[b].members
    BY <1>3, <2>1 DEF StagedWith
  <2>5. batch[b].members \in SUBSET Player /\ \A t : t \in Roster(b) <=>
          t \in Session /\ ClaimOf(t) = ClaimOf(b) /\ PlayerOf(t) \in batch[b].members
    BY <2>2, RosterOfBatch DEF IInv, Unresolved, Staged, Batches
  <2>6. \A t \in Session : ClaimOf(t) = ClaimOf(s) /\ PlayerOf(t) \in StagedWith(p) => t = s \/ t \in Roster(b)
    BY <1>1, <2>2, <2>4, <2>5, SessionParts
  <2> QED
    BY <2>2, <2>3, <2>4, <2>5, <2>6
<1>4. pending[ClaimOf(s)] = NoBatch \/ pending[ClaimOf(s)] \in Session
  BY <1>1 DEF IInv, TypeOK
<1> QED
  BY <1>1, <1>2, <1>3, <1>4

StagesLate(p) == ~ \A q \in StagedPeers(pending[ClaimOf(conn[p].session)]) : Open(q)

(* The last member is staged, but another one is gone already.             *)
LEMMA StagesLateGivesUp ==
  ASSUME IInv, NEW p \in Peer, StagesLast(p), pending[ClaimOf(conn[p].session)] # NoBatch, StagesLate(p)
  PROVE  TypeOK' /\ GivesUp
<1>0. PICK s : s = conn[p].session
  OBVIOUS
<1>1. At(p, "preparing") /\ StagedWith(p) = Player
  BY DEF StagesLast, Complete
<1>2. s \in Session /\ ClaimOf(s) \in Claim /\ PlayerOf(s) \in Player
  BY <1>0, <1>1, PartyOf
<1>3. PICK b \in Session : b = pending[ClaimOf(s)]
  BY <1>0, <1>2 DEF IInv, TypeOK
<1>4. /\ b # NoBatch /\ Unresolved(b) /\ ClaimOf(b) = ClaimOf(s) /\ s \notin Roster(b)
      /\ \A t \in Session : ClaimOf(t) = ClaimOf(s) => t = s \/ t \in Roster(b)
  <2>1. /\ Unresolved(b) /\ ClaimOf(b) = ClaimOf(s) /\ s \notin Roster(b)
        /\ \A t \in Session : ClaimOf(t) = ClaimOf(s) /\ PlayerOf(t) \in StagedWith(p) => t = s \/ t \in Roster(b)
    BY <1>0, <1>1, <1>3, PartyOf
  <2> QED
    BY <1>1, <2>1, NullAssumption, SessionParts
<1>5. PICK full : full = [members |-> Player, settled |-> FALSE, stage |-> "accepting", call |-> "sent"]
  OBVIOUS
<1>6. PICK over : over = [full EXCEPT !.settled = TRUE, !.stage = "over", !.call = "none"]
  OBVIOUS
<1>7. PICK T : T = Player \X {ClaimOf(s)}
  OBVIOUS
<1>8. PICK R : R = Evicted(Player)
  OBVIOUS
<1>9. /\ batch' = [batch EXCEPT ![b] = over]
      /\ pending' = [pending EXCEPT ![ClaimOf(s)] = NoBatch]
      /\ room' = Vacate(R)
      /\ entry' = RetainAndRemove(AfterRelease(entry, R), T)
      /\ conn' = CloseSockets(RefuseAll(conn, StagedPeers(b) \union {p}), ClosedByRelease(entry, R))
      /\ UNCHANGED <<gl, failed, recVars, admitted>>
  <2>1. ~ \A q \in StagedPeers(b) : Open(q)
    BY <1>0, <1>3 DEF StagesLate
  <2>2. [members |-> StagedWith(p), settled |-> FALSE, stage |-> "accepting", call |-> "sent"] = full
    BY <1>1, <1>5
  <2>3. full.members = Player
    BY <1>5
  <2> QED
    BY <1>0, <1>3, <1>4, <1>6, <1>7, <1>8, <2>1, <2>2, <2>3 DEF StagesLast
<1>10. R \in SUBSET Player /\ \A t : t \in T <=> t \in Session /\ ClaimOf(t) = ClaimOf(s)
  BY <1>2, <1>7, <1>8, SessionsOfMembers, SessionParts DEF Evicted
<1>11. over \in Batches /\ over.settled /\ over.stage = "over" /\ over.call = "none" /\ over.members = Player
  BY <1>5, <1>6 DEF Batches
<1>12. PICK A : A = AfterRelease(entry, R)
  OBVIOUS
<1>13. /\ TimedMap(A)
       /\ \A t \in Session : \/ A[t] = entry[t]
                             \/ /\ entry[t] # NoEntry /\ Removed(entry[t], A[t])
                                /\ entry[t].peer # NoPeer => entry[t].peer \in ClosedByRelease(entry, R)
       /\ room' \in [Player -> Members \union {NoEntry}]
       /\ \A m \in Player : room'[m] = room[m] \/ room'[m] = NoEntry
  BY <1>9, <1>10, <1>12, EntryFacts, EvictEffect
<1>14. TimedMap(entry') /\ \A t \in Session : IF t \in T THEN Removed(A[t], entry'[t]) ELSE entry'[t] = A[t]
  BY <1>9, <1>12, <1>13, RetainOf
<1>15. /\ conn' \in [Peer -> Connections]
       /\ \A q \in Peer :
            /\ conn'[q].session = conn[q].session
            /\ conn'[q].pc = IF q \in StagedPeers(b) \union {p} THEN "refused" ELSE conn[q].pc
            /\ conn'[q].ws = conn[q].ws \/ (conn[q].ws = "open" /\ conn'[q].ws = "closing")
            /\ q \in ClosedByRelease(entry, R) => conn'[q].ws # "open"
  <2>1. PICK Q, P : Q = StagedPeers(b) \union {p} /\ P = ClosedByRelease(entry, R)
    OBVIOUS
  <2>2. conn' = CloseSockets(RefuseAll(conn, Q), P)
    BY <1>9, <2>1
  <2>3. /\ conn' \in [Peer -> Connections]
        /\ \A q \in Peer :
             /\ conn'[q].session = conn[q].session
             /\ conn'[q].pc = IF q \in Q THEN "refused" ELSE conn[q].pc
             /\ conn'[q].ws = conn[q].ws \/ (conn[q].ws = "open" /\ conn'[q].ws = "closing")
             /\ q \in P => conn'[q].ws # "open"
    BY <2>2, RefuseAndClose
  <2> QED
    BY <2>1, <2>3
<1>16. TypeOK'
  <2>1. batch' \in [Session -> Batches \union {NoBatch}] /\ pending' \in [Claim -> Session \union {NoBatch}]
    BY <1>9, <1>11 DEF IInv, TypeOK
  <2> QED
    BY <1>9, <1>13, <1>14, <1>15, <2>1 DEF IInv, TypeOK, TimedMap, EntryMap, recVars
<1>17. batch'[b] = over /\ (\A d \in Session \ {b} : batch'[d] = batch[d]) /\ Settled(b)'
  <2>1. batch'[b] = over /\ \A d \in Session \ {b} : batch'[d] = batch[d]
    BY <1>9 DEF IInv, TypeOK
  <2> QED
    BY <1>11, <2>1, NullAssumption DEF Settled, Staged
<1>18. \A q \in Peer : conn[q].session \in T /\ conn[q].pc \in Waiting => q \in StagedPeers(b) \union {p}
  <2> SUFFICES ASSUME NEW q \in Peer, conn[q].session \in T, conn[q].pc \in Waiting
               PROVE  q \in StagedPeers(b) \union {p}
    OBVIOUS
  <2>1. CASE conn[q].session = s
    BY <1>0, <1>1, <2>1 DEF IInv, GateInv, Hellos, Waiting, At
  <2>2. CASE conn[q].session \in Roster(b)
    <3>1. PICK r \in Peer : At(r, "staged") /\ conn[r].session = conn[q].session
      BY <1>4, <2>2, BatchFacts DEF Waits
    <3>2. q = r
      BY <3>1 DEF IInv, GateInv, Hellos, Waiting, At
    <3> QED
      BY <2>2, <3>1, <3>2 DEF StagedPeers
  <2> QED
    BY <1>4, <1>10, <2>1, <2>2
<1>19. RetiresSessions(T)
  <2>1. ASSUME NEW t \in T
        PROVE  /\ entry'[t] # NoEntry /\ entry'[t].removing /\ Timed(entry'[t])
               /\ entry'[t].peer # NoPeer => conn[entry'[t].peer].session = t
    <3>1. t \in Session /\ Removed(A[t], entry'[t]) /\ Bindings(t)
      BY <1>10, <1>14 DEF IInv, GateInv
    <3>2. A[t] # NoEntry /\ A[t].peer # NoPeer => entry[t] # NoEntry /\ entry[t].peer = A[t].peer
      BY <1>13, <3>1 DEF Removed
    <3> QED
      BY <3>1, <3>2 DEF Removed, Bindings
  <2>2. ASSUME NEW t \in T, NEW q \in Peer, conn[q].session = t PROVE conn[q].pc # "inspecting"
    <3>1. conn[q].pc = "inspecting" => q \in StagedPeers(b) \union {p}
      BY <1>18, <2>2 DEF Waiting
    <3> QED
      BY <1>1, <3>1 DEF StagedPeers, At
  <2>3. ASSUME NEW t \in T, NEW d \in Session, Unresolved(d), t \in Roster(d) PROVE d = b
    BY <1>3, <1>10, <2>3, BatchFacts
  <2>4. ClaimOf(s) \notin admitted
    BY <1>0, <1>1, PreparingFacts
  <2> QED
    BY <1>10, <1>17, <2>1, <2>2, <2>3, <2>4 DEF RetiresSessions
<1>20. EvictsSessions(T)
  <2> SUFFICES ASSUME NEW t \in Session \ T, entry'[t] # entry[t]
               PROVE  /\ entry[t] # NoEntry /\ Removed(entry[t], entry'[t])
                      /\ entry[t].peer # NoPeer => conn'[entry[t].peer].ws # "open"
    BY DEF EvictsSessions
  <2>1. entry[t] # NoEntry /\ Removed(entry[t], entry'[t])
        /\ (entry[t].peer # NoPeer => entry[t].peer \in ClosedByRelease(entry, R))
    BY <1>13, <1>14
  <2>2. entry[t].peer # NoPeer => entry[t].peer \in Peer
    BY <2>1, EntryType DEF IInv, TypeOK
  <2> QED
    BY <1>15, <2>1, <2>2
<1>21. RefusesSockets(T)
  <2> SUFFICES ASSUME NEW q \in Peer
               PROVE  LET refused == conn[q].pc \in {"preparing", "staged"} /\ conn[q].session \in T
                      IN  /\ conn'[q].session = conn[q].session
                          /\ conn'[q].pc = IF refused THEN "refused" ELSE conn[q].pc
                          /\ conn'[q].ws = conn[q].ws \/ (conn[q].ws = "open" /\ conn'[q].ws = "closing")
    BY DEF RefusesSockets
  <2>1. conn[q].pc \in {"preparing", "staged"} /\ conn[q].session \in T => q \in StagedPeers(b) \union {p}
    BY <1>18 DEF Waiting
  <2>2. q \in StagedPeers(b) \union {p} => conn[q].pc \in {"preparing", "staged"} /\ conn[q].session \in T
    <3>1. \A t \in Roster(b) : t \in T
      BY <1>4, <1>10, BatchFacts
    <3> QED
      BY <1>0, <1>1, <1>2, <1>10, <3>1 DEF StagedPeers, At
  <2> QED
    BY <1>15, <2>1, <2>2
<1>22. SettlesBatches(T)
  <2>1. pending'[ClaimOf(b)] # b
    BY <1>2, <1>4, <1>9 DEF IInv, TypeOK
  <2>2. \A t : (t \in Roster(b))' <=> t \in T
    <3>1. Roster(b)' = T
      BY <1>4, <1>7, <1>11, <1>17 DEF Roster
    <3> QED
      BY <3>1
  <2>3. batch[b].members \subseteq Player
    BY <1>4, BatchFacts DEF Batches
  <2> QED
    BY <1>4, <1>10, <1>11, <1>17, <2>1, <2>2, <2>3 DEF SettlesBatches
<1>23. \A c \in Claim : \/ pending'[c] = pending[c]
                        \/ /\ pending'[c] = NoBatch
                           /\ \A d \in Session : d = pending[c] => Settled(d)'
  BY <1>3, <1>9, <1>17 DEF IInv, TypeOK
<1>24. Retirement(T)
  BY <1>9, <1>13, <1>19, <1>20, <1>21, <1>22, <1>23 DEF Retirement, GameLiftMoves
<1> QED
  BY <1>10, <1>16, <1>24, Retiring

(* Steps that touch no binding, no batch and no socket.                    *)
LEMMA QuietGivesUp ==
  ASSUME IInv, TypeOK', UNCHANGED <<entry, batchVars, admitted>>, GameLiftMoves,
         \A p \in Peer : /\ conn'[p].session = conn[p].session /\ conn'[p].pc = conn[p].pc
                         /\ conn'[p].ws = conn[p].ws \/ (conn[p].ws = "open" /\ conn'[p].ws = "closing"),
         \A m \in Player : room'[m] = room[m] \/ room'[m] = NoEntry
  PROVE  GivesUp
BY DEF GivesUp, Withdraws, batchVars

LEMMA RecType ==
  ASSUME IInv
  PROVE  /\ rec \in [stage: {"idle", "verifying", "draining", "removing"}, claim: Claim,
                     wait: SUBSET Session, evict: SUBSET Player, left: SUBSET Session]
         /\ reported \subseteq Session
BY DEF IInv, TypeOK

LEMMA QuietSteps ==
  ASSUME IInv, \/ UNCHANGED vars
               \/ \E c \in Claim : CreateSessions(c) \/ ReleaseRequested(c)
               \/ \E s \in Session : ReservationExpires(s) \/ DirectRemoval(s)
               \/ \E m \in Player : RoomForgets(m)
               \/ \E p \in Peer : SocketClosing(p)
               \/ VerifyFails
  PROVE  TypeOK' /\ GivesUp
<1>0. TypeOK
  BY DEF IInv
<1>1. CASE UNCHANGED vars
  <2>1. TypeOK'
    BY <1>0, <1>1 DEF TypeOK, vars
  <2> QED
    BY <1>1, <2>1, QuietGivesUp DEF vars, GameLiftMoves, batchVars
<1>2. ASSUME NEW c \in Claim, CreateSessions(c) PROVE TypeOK' /\ GivesUp
  <2>1. TypeOK' /\ GameLiftMoves
    BY <1>0, <1>2, SessionsOfClaim DEF CreateSessions, TypeOK, GameLiftMoves, gateVars, batchVars, recVars
  <2> QED
    BY <1>2, <2>1, QuietGivesUp DEF CreateSessions, gateVars
<1>3. ASSUME NEW c \in Claim, ReleaseRequested(c) PROVE TypeOK' /\ GivesUp
  <2>1. rec' \in [stage: {"idle", "verifying", "draining", "removing"}, claim: Claim,
                  wait: SUBSET Session, evict: SUBSET Player, left: SUBSET Session]
    BY <1>3, SessionsOfClaim DEF ReleaseRequested
  <2>2. TypeOK' /\ GameLiftMoves
    BY <1>0, <1>3, <2>1 DEF ReleaseRequested, TypeOK, GameLiftMoves, gateVars, batchVars
  <2> QED
    BY <1>3, <2>2, QuietGivesUp DEF ReleaseRequested, gateVars
<1>4. ASSUME NEW s \in Session, ReservationExpires(s) PROVE TypeOK' /\ GivesUp
  <2>1. TypeOK' /\ GameLiftMoves
    BY <1>0, <1>4 DEF ReservationExpires, TypeOK, GameLiftMoves, gateVars, batchVars, recVars
  <2> QED
    BY <1>4, <2>1, QuietGivesUp DEF ReservationExpires, gateVars
<1>5. ASSUME NEW s \in Session, DirectRemoval(s) PROVE TypeOK' /\ GivesUp
  <2>1. rec' \in [stage: {"idle", "verifying", "draining", "removing"}, claim: Claim,
                  wait: SUBSET Session, evict: SUBSET Player, left: SUBSET Session]
    BY <1>5, RecType DEF DirectRemoval
  <2>2. gl' \in [Session -> {"none", "RESERVED", "ACTIVE", "gone"}] /\ GameLiftMoves /\ reported' \subseteq Session
    BY <1>0, <1>5 DEF DirectRemoval, RemovalOutcome, TypeOK, GameLiftMoves
  <2>3. TypeOK'
    BY <1>0, <1>5, <2>1, <2>2 DEF DirectRemoval, TypeOK, gateVars, batchVars
  <2> QED
    BY <1>5, <2>2, <2>3, QuietGivesUp DEF DirectRemoval, gateVars
<1>6. ASSUME NEW m \in Player, RoomForgets(m) PROVE TypeOK' /\ GivesUp
  <2>1. TypeOK' /\ GameLiftMoves /\ \A n \in Player : room'[n] = room[n] \/ room'[n] = NoEntry
    BY <1>0, <1>6 DEF RoomForgets, Vacate, TypeOK, GameLiftMoves, gateVars, batchVars, recVars
  <2> QED
    BY <1>6, <2>1, QuietGivesUp DEF RoomForgets, gateVars
<1>7. ASSUME NEW p \in Peer, SocketClosing(p) PROVE TypeOK' /\ GivesUp
  <2>1. conn' \in [Peer -> Connections] /\ \A q \in Peer :
          /\ conn'[q].session = conn[q].session /\ conn'[q].pc = conn[q].pc
          /\ conn'[q].ws = conn[q].ws \/ (conn[q].ws = "open" /\ conn'[q].ws = "closing")
    BY <1>0, <1>7 DEF SocketClosing, Open, TypeOK, Connections
  <2>2. TypeOK' /\ GameLiftMoves
    BY <1>0, <1>7, <2>1 DEF SocketClosing, TypeOK, GameLiftMoves, gateVars, batchVars, recVars
  <2> QED
    BY <1>7, <2>1, <2>2, QuietGivesUp DEF SocketClosing, gateVars
<1>8. CASE VerifyFails
  <2>1. rec' \in [stage: {"idle", "verifying", "draining", "removing"}, claim: Claim,
                  wait: SUBSET Session, evict: SUBSET Player, left: SUBSET Session]
    BY <1>8, RecType DEF VerifyFails
  <2>2. TypeOK' /\ GameLiftMoves
    BY <1>0, <1>8, <2>1 DEF VerifyFails, TypeOK, GameLiftMoves, gateVars, batchVars
  <2> QED
    BY <1>8, <2>2, QuietGivesUp DEF VerifyFails, gateVars
<1> QED
  BY <1>1, <1>2, <1>3, <1>4, <1>5, <1>6, <1>7, <1>8

(* The steps of a removal that runs, and the expiry of a reconnection. *)
LEMMA RemovalSteps ==
  ASSUME IInv, NEW s \in Session,
         ReconnectExpires(s) \/ RemovalFails(s) \/ RemovalRecovers(s) \/ RemovalSucceeds(s)
  PROVE  TypeOK' /\ GivesUp
<1>0. TypeOK /\ UNCHANGED <<batchVars, conn, room, recVars, admitted>>
  BY DEF IInv, ReconnectExpires, RemovalFails, RemovalRecovers, RemovalSucceeds
<1>1. entry[s] # NoEntry
  BY DEF ReconnectExpires, RemovalFails, RemovalRecovers, RemovalSucceeds, Removing
<1>2. PICK e \in Entries : e = entry[s]
  BY <1>0, <1>1 DEF TypeOK
<1>3. Timed(e) /\ e # NoEntry
  BY <1>1, <1>2, EntryFacts DEF TimedMap
<1>4. /\ e.attempt \in 0..RemovalAttempts /\ e.attempt \in Nat /\ RemovalAttempts \in Nat \ {0}
      /\ e.timer \in {"none", "reconnect", "recovery"}
  BY <1>3, EntryType, GateAssumption
<1>5. GameLiftMoves /\ gl' \in [Session -> {"none", "RESERVED", "ACTIVE", "gone"}] /\ failed' \subseteq Session
  BY <1>0 DEF TypeOK, GameLiftMoves, ReconnectExpires, RemovalFails, RemovalRecovers, RemovalSucceeds, RemovalOutcome
<1>6. CASE RemovalSucceeds(s)
  <2>1. entry' = [entry EXCEPT ![s] = NoEntry] /\ e.removing /\ gl'[s] = "gone"
    BY <1>0, <1>2, <1>3, <1>6 DEF RemovalSucceeds, Removing, Timed, RemovalOutcome, TypeOK
  <2>2. entry' \in EntryMap /\ Ends(s) /\ \A t \in Session : t # s => entry'[t] = entry[t]
    BY <1>0, <1>2, <1>3, <2>1 DEF TypeOK, EntryMap, Ends
  <2>3. TypeOK'
    BY <1>0, <1>5, <2>2 DEF TypeOK, EntryMap, batchVars, recVars
  <2>4. GivesUp
    BY <1>0, <1>5, <2>2 DEF GivesUp, Withdraws, batchVars
  <2> QED
    BY <2>3, <2>4
<1>7. CASE ~RemovalSucceeds(s)
  <2>1. PICK r : entry' = [entry EXCEPT ![s] = r] /\ Removed(e, r) /\ (e.removing \/ e.peer = NoPeer)
    <3>1. CASE ReconnectExpires(s)
      <4>1. entry' = [entry EXCEPT ![s] = StartRemoval(e)] /\ ~e.removing /\ e.peer = NoPeer
        BY <1>2, <1>3, <3>1 DEF ReconnectExpires, Timed
      <4>2. Removed(e, StartRemoval(e))
        BY <4>1, RemovalIsTimed
      <4> QED
        BY <4>1, <4>2
    <3>2. CASE RemovalRecovers(s)
      <4>1. PICK f : f = [e EXCEPT !.timer = "none", !.removing = FALSE]
        OBVIOUS
      <4>2. entry' = [entry EXCEPT ![s] = StartRemoval(f)] /\ e.removing
        BY <1>2, <1>3, <3>2, <4>1 DEF RemovalRecovers, Timed
      <4>3. f \in Entries /\ ~f.removing /\ f.peer = e.peer
        BY <4>1 DEF Entries
      <4>4. Removed(f, StartRemoval(f))
        BY <4>3, RemovalIsTimed
      <4>5. Removed(e, StartRemoval(f))
        BY <1>3, <4>3, <4>4 DEF Removed
      <4> QED
        BY <4>2, <4>5
    <3>3. CASE RemovalFails(s)
      <4>1. e.removing /\ e.timer # "reconnect" /\ e.attempt > 0
        BY <1>2, <1>3, <3>3 DEF RemovalFails, Removing, Timed
      <4>2. CASE e.attempt < RemovalAttempts
        <5>1. PICK n : n = e.attempt + 1
          OBVIOUS
        <5>2. entry' = [entry EXCEPT ![s] = [e EXCEPT !.attempt = n]]
          BY <1>0, <1>2, <3>3, <4>2, <5>1 DEF RemovalFails, TypeOK
        <5>3. n \in 0..RemovalAttempts /\ n > 0
          BY <1>4, <4>1, <4>2, <5>1
        <5>4. PICK r : r = [e EXCEPT !.attempt = n]
          OBVIOUS
        <5>5. r \in Entries /\ r.removing /\ r.timer = e.timer /\ r.peer = e.peer /\ r.attempt = n
          BY <4>1, <5>3, <5>4 DEF Entries
        <5>6. Removed(e, r)
          BY <1>3, <4>1, <5>3, <5>5, NullAssumption DEF Removed, Timed
        <5> QED
          BY <4>1, <5>2, <5>4, <5>6
      <4>3. CASE ~(e.attempt < RemovalAttempts)
        <5>1. PICK r : r = [e EXCEPT !.timer = "recovery", !.attempt = 0]
          OBVIOUS
        <5>2. entry' = [entry EXCEPT ![s] = r]
          BY <1>2, <3>3, <4>3, <5>1 DEF RemovalFails
        <5>3. r \in Entries /\ r.removing /\ r.timer = "recovery" /\ r.peer = e.peer /\ r.attempt = 0
          <6>1. 0 \in 0..RemovalAttempts
            BY <1>4
          <6> QED
            BY <4>1, <5>1, <6>1 DEF Entries
        <5>4. Removed(e, r)
          BY <1>3, <4>1, <5>3, NullAssumption DEF Removed, Timed
        <5> QED
          BY <4>1, <5>2, <5>4
      <4> QED
        BY <4>2, <4>3
    <3> QED
      BY <1>7, <3>1, <3>2, <3>3
  <2>2. entry'[s] = r /\ (\A t \in Session : t # s => entry'[t] = entry[t]) /\ entry' \in EntryMap
    BY <1>0, <2>1 DEF TypeOK, EntryMap, Removed
  <2>3. TypeOK'
    BY <1>0, <1>5, <2>2 DEF TypeOK, EntryMap, batchVars, recVars
  <2>4. EvictsSessions({})
    BY <1>1, <1>2, <2>1, <2>2 DEF EvictsSessions
  <2>5. RefusesSockets({}) /\ RetiresSessions({}) /\ SettlesBatches({})
    BY <1>0 DEF RefusesSockets, RetiresSessions, SettlesBatches, batchVars
  <2>6. Retirement({})
    BY <1>0, <1>5, <2>4, <2>5 DEF Retirement, batchVars
  <2> QED
    BY <2>3, <2>6, Retiring
<1> QED
  BY <1>6, <1>7

(* A reconnection that the arena refuses ends the binding of its socket. *)
LEMMA RejoinFailsGivesUp ==
  ASSUME IInv, NEW p \in Peer, RejoinFails(p)
  PROVE  TypeOK' /\ GivesUp
<1>0. PICK s : s = conn[p].session
  OBVIOUS
<1>1. /\ At(p, "joining") /\ entry' = [entry EXCEPT ![s] = Unbind(@, p, TRUE)]
      /\ conn' = [conn EXCEPT ![p] = Refused(@, s)]
      /\ UNCHANGED <<gl, failed, batchVars, room, recVars, admitted>>
  BY <1>0 DEF RejoinFails, Refuse
<1>2. s \in Session /\ ClaimOf(s) \in admitted
  BY <1>0, <1>1, HelloFacts DEF At, IInv, GateInv, Hellos
<1>3. conn' \in [Peer -> Connections] /\ conn'[p].session = s /\ conn'[p].pc = "refused" /\ conn'[p].ws # "open"
      /\ \A q \in Peer : q # p => conn'[q] = conn[q]
  <2>1. conn \in [Peer -> Connections]
    BY DEF IInv, TypeOK
  <2>2. conn'[p] = Refused(conn[p], s) /\ \A q \in Peer : q # p => conn'[q] = conn[q]
    BY <1>1, <2>1
  <2>3. conn'[p] \in Connections /\ conn'[p].pc = "refused" /\ conn'[p].session = s /\ conn'[p].ws # "open"
    BY <1>2, <2>1, <2>2, RefusedSocket DEF Close
  <2> QED
    BY <1>1, <2>1, <2>2, <2>3
<1>4. \/ entry'[s] = entry[s] /\ (entry[s] # NoEntry /\ ~entry[s].removing => entry[s].peer # p)
      \/ entry[s] # NoEntry /\ ~entry[s].removing /\ entry[s].peer = p /\ Removed(entry[s], entry'[s])
         /\ entry'[s].peer = NoPeer
  <2>1. entry'[s] = Unbind(entry[s], p, TRUE)
    BY <1>1, <1>2 DEF IInv, TypeOK
  <2>2. CASE entry[s] # NoEntry /\ ~entry[s].removing /\ entry[s].peer = p
    <3>1. PICK f : f = [entry[s] EXCEPT !.peer = NoPeer]
      OBVIOUS
    <3>2. entry'[s] = StartRemoval(f)
      BY <2>1, <2>2, <3>1 DEF Unbind
    <3>3. entry[s] \in Entries /\ Timed(entry[s])
      BY <1>2, <2>2, EntryFacts DEF TimedMap, EntryMap
    <3>4. f \in Entries /\ f.peer = NoPeer
      BY <3>1, <3>3 DEF Entries
    <3>5. Removed(entry[s], entry'[s])
      BY <3>1, <3>2, <3>3, RemovalOfUnbound
    <3>6. entry'[s].peer = NoPeer
      BY <3>2, <3>4, StartRemovalOf, NullAssumption
    <3> QED
      BY <2>2, <3>5, <3>6
  <2>3. CASE ~(entry[s] # NoEntry /\ ~entry[s].removing /\ entry[s].peer = p)
    BY <2>1, <2>3 DEF Unbind
  <2> QED
    BY <2>2, <2>3
<1>5. entry' \in EntryMap /\ \A t \in Session : t # s => entry'[t] = entry[t]
  BY <1>1, <1>2, <1>4 DEF IInv, TypeOK, EntryMap, Removed
<1>6. TypeOK'
  BY <1>1, <1>3, <1>5 DEF IInv, TypeOK, EntryMap, batchVars, recVars
<1>7. entry'[s] # entry[s] => Quits(s)
  <2> SUFFICES ASSUME entry[s] # NoEntry, ~entry[s].removing, entry[s].peer = p, Removed(entry[s], entry'[s]),
                      entry'[s].peer = NoPeer
               PROVE  Quits(s)
    BY <1>4
  <2>1. ASSUME NEW q \in Peer, conn[q].session = s, q # p
        PROVE  /\ conn'[q].pc \notin {"inspecting", "preparing", "staged"}
               /\ conn'[q].ws = "open" => /\ conn'[q].pc # "joining"
                                          /\ \A m \in Player : room'[m] # NoEntry => room'[m].peer # q
    <3>1. conn[q].pc \notin {"inspecting", "preparing"}
      BY <2>1 DEF IInv, GateInv, Hellos
    <3>2. conn[q].pc # "staged"
      <4>1. SUFFICES ASSUME At(q, "staged") PROVE FALSE
        BY DEF At
      <4>2. PICK b \in Session : Unresolved(b) /\ s \in Roster(b)
        BY <2>1, <4>1, StagedFacts
      <4> QED
        BY <1>2, <4>2, BatchFacts
    <3>3. ASSUME Open(q), NEW m \in Player, room[m] # NoEntry, room[m].peer = q
          PROVE  FALSE
      <4>1. q # NoPeer
        BY GateAssumption
      <4>2. entry[s].peer = q
        BY <2>1, <3>3, <4>1 DEF IInv, GateInv, SeatedSocketIsBound
      <4> QED
        BY <2>1, <4>2
    <3>4. Open(q) => conn[q].pc # "joining"
      BY <2>1 DEF IInv, GateInv, Hellos, At
    <3> QED
      BY <1>1, <1>3, <2>1, <3>1, <3>2, <3>3, <3>4 DEF Open
  <2> QED
    BY <1>3, <2>1 DEF Quits, Removed
<1>8. Withdraws(p)
  BY <1>0, <1>1, <1>3, <1>4 DEF Withdraws, At, Removed
<1>9. \A q \in Peer : q # p => Withdraws(q)
  BY <1>3 DEF Withdraws
<1> QED
  BY <1>1, <1>5, <1>6, <1>7, <1>8, <1>9 DEF GivesUp, GameLiftMoves, batchVars

(* A hello whose session is refused, or cannot be used. *)
LEMMA InspectionRefused ==
  ASSUME IInv, NEW p \in Peer, NEW s, s = conn[p].session, At(p, "inspecting"), Refuse(p, s),
         UNCHANGED <<gl, failed, batchVars, room, recVars, admitted>>,
         \/ UNCHANGED entry
         \/ entry' = [entry EXCEPT ![s] =
              StartRemoval(IF @ = NoEntry THEN [Bound(NoPeer) EXCEPT !.known = FALSE] ELSE @)]
  PROVE  TypeOK' /\ GivesUp
<1>1. s \in Session /\ entry[s] = NoEntry
  BY HelloFacts DEF At, IInv, GateInv, Hellos
<1>2. conn' \in [Peer -> Connections] /\ conn'[p].session = s /\ conn'[p].pc = "refused"
      /\ \A q \in Peer : q # p => conn'[q] = conn[q]
  <2>1. conn \in [Peer -> Connections]
    BY DEF IInv, TypeOK
  <2>2. conn'[p] = Refused(conn[p], s) /\ conn' = [conn EXCEPT ![p] = conn'[p]]
        /\ \A q \in Peer : q # p => conn'[q] = conn[q]
    BY <2>1 DEF Refuse
  <2>3. conn'[p] \in Connections /\ conn'[p].pc = "refused" /\ conn'[p].session = s
    BY <1>1, <2>1, <2>2, RefusedSocket
  <2> QED
    BY <2>1, <2>2, <2>3
<1>3. \A q \in Peer : Withdraws(q)
  BY <1>2 DEF Withdraws, At
<1>4. CASE UNCHANGED entry
  <2>1. TypeOK'
    BY <1>2, <1>4 DEF IInv, TypeOK, batchVars, recVars
  <2> QED
    BY <1>3, <1>4, <2>1 DEF GivesUp, GameLiftMoves, batchVars
<1>5. CASE entry' = [entry EXCEPT ![s] =
             StartRemoval(IF @ = NoEntry THEN [Bound(NoPeer) EXCEPT !.known = FALSE] ELSE @)]
  <2>1. PICK f : f = [Bound(NoPeer) EXCEPT !.known = FALSE]
    OBVIOUS
  <2>2. f \in Entries /\ f.peer = NoPeer /\ ~f.removing
    <3>1. Bound(NoPeer) \in Entries /\ Bound(NoPeer).peer = NoPeer /\ ~Bound(NoPeer).removing
      BY BoundType
    <3> QED
      BY <2>1, <3>1 DEF Entries
  <2>3. entry'[s] = StartRemoval(f) /\ \A t \in Session : t # s => entry'[t] = entry[t]
    BY <1>1, <1>5, <2>1 DEF IInv, TypeOK
  <2>4. Removed(f, entry'[s]) /\ entry'[s].peer = NoPeer
    BY <2>2, <2>3, RemovalIsTimed, StartRemovalOf, NullAssumption
  <2>5. TypeOK'
    <3>1. entry' \in [Session -> Entries \union {NoEntry}]
      BY <1>1, <1>5, <2>3, <2>4 DEF Removed, IInv, TypeOK
    <3> QED
      BY <1>2, <3>1 DEF IInv, TypeOK, batchVars, recVars
  <2>6. ASSUME NEW q \in Peer, conn[q].session = s
        PROVE  /\ conn'[q].pc \notin {"inspecting", "preparing", "staged"}
               /\ conn'[q].ws = "open" => /\ conn'[q].pc # "joining"
                                          /\ \A m \in Player : room'[m] # NoEntry => room'[m].peer # q
    <3>1. conn[q].pc \in Waiting => q = p
      BY <2>6 DEF IInv, GateInv, Hellos, Waiting, At
    <3>2. ASSUME q # p, Open(q), NEW m \in Player, room[m] # NoEntry, room[m].peer = q
          PROVE  FALSE
      <4>1. q # NoPeer
        BY GateAssumption
      <4> QED
        BY <1>1, <2>6, <3>2, <4>1 DEF IInv, GateInv, SeatedSocketIsBound
    <3>3. ASSUME q = p, NEW m \in Player, room[m] # NoEntry, room[m].peer = q
          PROVE  FALSE
      <4>1. q # NoPeer
        BY GateAssumption
      <4> QED
        BY <3>3, <4>1, SeatedFacts DEF At
    <3>4. Open(q) => conn[q].pc # "joining"
      BY <1>1, <2>6 DEF IInv, GateInv, Hellos, At
    <3> QED
      BY <1>2, <3>1, <3>2, <3>3, <3>4 DEF Waiting, Open
  <2>7. Quits(s)
    BY <2>4, <2>6 DEF Quits, Removed
  <2> QED
    BY <1>3, <2>3, <2>5, <2>7 DEF GivesUp, GameLiftMoves, batchVars
<1> QED
  BY <1>4, <1>5

(* The answer of the adapter comes after the batch was released. *)
LEMMA LateAnswerGivesUp ==
  ASSUME IInv, NEW b \in Session, CommitAccepted(b), batch[b].settled
  PROVE  TypeOK' /\ GivesUp
<1>1. /\ Settled(b) /\ batch[b].call = "accepted" /\ batch' = [batch EXCEPT ![b].stage = "over"]
      /\ UNCHANGED <<gl, entry, failed, pending, conn, room, recVars, admitted>>
  BY DEF CommitAccepted, Settled, Staged
<1>2. batch[b] \in Batches
  BY <1>1 DEF IInv, TypeOK, Settled, Staged
<1>3. /\ batch'[b] \in Batches /\ batch'[b].settled /\ batch'[b].members = batch[b].members
      /\ batch'[b].call = "accepted" /\ \A d \in Session : d # b => batch'[d] = batch[d]
  <2>1. batch'[b] = [batch[b] EXCEPT !.stage = "over"] /\ \A d \in Session : d # b => batch'[d] = batch[d]
    BY <1>1 DEF IInv, TypeOK
  <2> QED
    BY <1>1, <1>2, <2>1 DEF Batches, Settled
<1>4. Settled(b)' /\ Roster(b)' = Roster(b)
  BY <1>3, NullAssumption DEF Settled, Staged, Roster
<1>5. b \in Roster(b) /\ pending[ClaimOf(b)] # b
  <2>1. b \in Roster(b)
    BY <1>1 DEF IInv, GateInv, BatchesOf, Settled
  <2>2. b # NoBatch /\ ClaimOf(b) \in Claim
    BY NullAssumption, SessionParts
  <2> QED
    BY <1>1, <2>1, <2>2 DEF IInv, GateInv, PendingOf, Unresolved, Settled
<1>6. TypeOK'
  BY <1>1, <1>3 DEF IInv, TypeOK, recVars
<1>7. SettlesBatches({})
  BY <1>1, <1>3, <1>4, <1>5 DEF SettlesBatches
<1>8. EvictsSessions({}) /\ RefusesSockets({}) /\ RetiresSessions({})
  BY <1>1 DEF EvictsSessions, RefusesSockets, RetiresSessions
<1>9. Retirement({})
  BY <1>1, <1>7, <1>8 DEF Retirement, GameLiftMoves
<1> QED
  BY <1>6, <1>9, Retiring

-----------------------------------------------------------------------------
(* A hello before its session has a binding or a party. *)
EarlyHello(p) ==
  /\ conn[p].pc \in {"idle", "inspecting"} /\ conn'[p].pc \in {"inspecting", "preparing", "refused"}
  /\ At(p, "inspecting") => conn'[p].session = conn[p].session
  /\ \A q \in Peer : q # p => conn'[q] = conn[q]
  /\ UNCHANGED <<gl, entry, failed, batchVars, room, recVars, admitted>>

(* A hello that is answered, up to the preparation of its player.          *)
LEMMA EarlyHelloKeeps ==
  ASSUME IInv, TypeOK', NEW p \in Peer, EarlyHello(p),
         conn'[p].session \in Session,
         conn'[p].pc # "refused" => /\ entry[conn'[p].session] = NoEntry
                                    /\ \A q \in Peer : q # p /\ conn[q].pc \in Waiting =>
                                         conn[q].session # conn'[p].session,
         conn'[p].pc = "preparing" => \A d \in Session : Settled(d) => conn'[p].session \notin Roster(d)
  PROVE  GateInv'
<1> USE GateAssumption
<1>0. TypeOK /\ GateInv /\ Hellos(p)
  BY DEF IInv, GateInv
<1>1. UNCHANGED <<gl, entry, failed, batch, pending, room, rec, admitted, reported>>
  BY DEF EarlyHello, batchVars, recVars
<1>2. \A b \in Session : Roster(b)' = Roster(b) /\ (Settled(b)' <=> Settled(b))
        /\ (Unresolved(b)' <=> Unresolved(b)) /\ (Staged(b)' <=> Staged(b))
  BY <1>1 DEF Roster, Settled, Unresolved, Staged
<1>3. conn[p].pc \notin {"staged", "joining", "game"} /\ conn'[p].pc \notin {"idle", "staged", "joining", "game"}
      /\ \A q \in Peer : q # p => conn'[q] = conn[q]
  BY DEF EarlyHello
<1>4. ASSUME NEW s \in Session PROVE Bindings(s)'
  <2>1. Bindings(s)
    BY <1>0 DEF GateInv
  <2>2. SUFFICES ASSUME entry[s] # NoEntry PROVE Bindings(s)'
    BY <1>1 DEF Bindings
  <2>3. entry[s].peer \in Peer \union {NoPeer} /\ NoPeer \notin Peer
    BY <1>0, <2>2, EntryType DEF TypeOK
  <2>4. entry[s].peer # NoPeer => conn'[entry[s].peer].session = s
    <3>1. CASE At(p, "idle") /\ entry[s].peer = p
      <4>1. conn[p].session = NoEntry
        BY <1>0, <3>1 DEF Hellos
      <4>2. conn[p].session = s
        BY <2>1, <2>2, <2>3, <3>1 DEF Bindings
      <4> QED
        BY <4>1, <4>2, NullAssumption
    <3>2. CASE ~(At(p, "idle") /\ entry[s].peer = p)
      BY <2>1, <2>2, <2>3, <3>2 DEF Bindings, EarlyHello, At
    <3> QED
      BY <3>1, <3>2
  <2>5. ~entry[s].removing /\ entry[s].peer # NoPeer =>
             conn'[entry[s].peer].pc \in {"staged", "joining", "game"} /\ conn'[entry[s].peer].ws # "closed"
    BY <1>3, <2>1, <2>2, <2>3 DEF Bindings
  <2>6. entry[s].peer # NoPeer /\ At(entry[s].peer, "staged") => conn'[entry[s].peer].pc = "staged"
    BY <1>3, <2>3 DEF At
  <2>7. entry'[s] = entry[s] /\ admitted' = admitted /\ pending' = pending /\ batch' = batch
    BY <1>1
  <2>8. Timed(entry'[s])
    BY <2>1, <2>2, <2>7 DEF Bindings
  <2>9. ~entry'[s].removing => \/ ClaimOf(s) \in admitted'
                             \/ /\ pending'[ClaimOf(s)] # NoBatch /\ batch'[pending'[ClaimOf(s)]].stage = "joining"
                                /\ entry'[s].peer # NoPeer /\ conn'[entry[s].peer].pc = "staged"
    BY <2>1, <2>2, <2>6, <2>7 DEF Bindings
  <2> QED
    BY <2>4, <2>5, <2>7, <2>8, <2>9 DEF Bindings, At
<1>5. ASSUME NEW b \in Session PROVE BatchesOf(b)'
  <2>1. BatchesOf(b)
    BY <1>0 DEF GateInv
  <2>2. Waits(b) => Waits(b)'
    <3>1. \A q \in Peer : At(q, "staged")' <=> At(q, "staged")
      BY <1>3 DEF At
    <3>2. \A q \in Peer : At(q, "staged") => conn'[q] = conn[q]
      BY <1>3 DEF At
    <3>3. StagedPeers(b)' = StagedPeers(b)
      BY <1>2, <3>1, <3>2 DEF StagedPeers
    <3>4. \A q \in StagedPeers(b) : conn'[q] = conn[q]
      BY <3>2 DEF StagedPeers
    <3>5. {q \in StagedPeers(b) : Open(q)}' = {q \in StagedPeers(b) : Open(q)}
      BY <3>3, <3>4 DEF Open
    <3>6. \A s \in Roster(b) : (\E q \in Peer : At(q, "staged") /\ conn[q].session = s)
                => \E q \in Peer : At(q, "staged")' /\ conn'[q].session = s
      BY <3>1, <3>2
    <3>7. \A q \in {r \in StagedPeers(b) : Open(r)} : conn'[q].session = conn[q].session
      BY <3>4
    <3> QED
      BY <1>1, <1>2, <3>5, <3>6, <3>7 DEF Waits
  <2> QED
    BY <1>1, <1>2, <2>1, <2>2 DEF BatchesOf
<1>6. ASSUME NEW q \in Peer PROVE Hellos(q)'
  <2>1. CASE q = p
    <3>1. PICK s \in Session : s = conn'[p].session
      OBVIOUS
    <3>2. \A r \in Peer : conn'[p].pc \in Waiting /\ conn'[r].pc \in Waiting /\ conn'[r].session = s => r = p
      BY <1>3, <3>1 DEF Waiting
    <3>3. conn'[p].pc \in {"inspecting", "preparing"} => entry'[s] = NoEntry
      BY <1>1, <3>1
    <3>4. \A d \in Session : conn'[p].pc \in {"preparing", "staged"} /\ Settled(d)' => (s \notin Roster(d))'
      BY <1>2, <1>3, <3>1
    <3>5. s = conn'[p].session /\ s \in Session
      BY <3>1
    <3>6. Hellos(p)'
      BY <1>3, <3>5, <3>2, <3>3, <3>4 DEF Hellos, At
    <3> QED
      BY <2>1, <3>6
  <2>2. CASE q # p
    <3>1. conn'[q] = conn[q] /\ Hellos(q)
      BY <1>0, <1>3, <2>2 DEF GateInv
    <3>2. \A r \in Peer : conn[q].pc \in Waiting /\ conn'[r].pc \in Waiting /\ conn'[r].session = conn[q].session => r = q
      BY <1>3, <2>2, <3>1 DEF Hellos, Waiting
    <3>3. Roster(pending[ClaimOf(conn[q].session)])' = Roster(pending[ClaimOf(conn[q].session)])
      BY <1>1, <3>1 DEF Roster
    <3>4. \A d \in Session : conn[q].pc \in {"preparing", "staged"} /\ Settled(d)' => (conn[q].session \notin Roster(d))'
      BY <1>2, <3>1 DEF Hellos
    <3> QED
      BY <1>1, <3>1, <3>2, <3>3, <3>4 DEF Hellos, At, Open
  <2> QED
    BY <2>1, <2>2
<1>7. \A c \in Claim : PendingOf(c)'
  BY <1>0, <1>1 DEF GateInv, PendingOf, Unresolved, Staged
<1>8. ASSUME NEW m \in Player, room[m] # NoEntry, room[m].peer # NoPeer
      PROVE  conn'[room[m].peer] = conn[room[m].peer]
  BY <1>3, <1>8, SeatedFacts DEF At
<1>9. \A m \in Player : Seated(m)'
  BY <1>0, <1>1, <1>8 DEF GateInv, Seated, At
<1>10. SeatedSocketIsBound'
  BY <1>0, <1>1, <1>8 DEF GateInv, SeatedSocketIsBound, Open
<1>11. \A c \in admitted' : AdmittedOnce(c)'
  BY <1>0, <1>1 DEF GateInv, AdmittedOnce, Settled, Staged
<1> QED
  BY <1>4, <1>5, <1>6, <1>7, <1>9, <1>10, <1>11 DEF GateInv

(* A hello whose binding waits for its player to come back. *)
Rebinds(p, s) ==
  /\ At(p, "idle") /\ Open(p) /\ entry[s] # NoEntry /\ ~entry[s].removing /\ entry[s].peer = NoPeer
  /\ entry' = [entry EXCEPT ![s] = [@ EXCEPT !.peer = p, !.timer = "none"]]
  /\ conn' = [conn EXCEPT ![p] = [@ EXCEPT !.session = s, !.pc = "joining"]]
  /\ UNCHANGED <<gl, failed, batchVars, room, recVars, admitted>>

(* A player comes back: its binding gets the new socket.                   *)
LEMMA RebindKeeps ==
  ASSUME IInv, NEW p \in Peer, NEW s \in Session, Rebinds(p, s)
  PROVE  TypeOK' /\ GateInv'
<1> USE GateAssumption
<1>0. TypeOK /\ GateInv /\ Hellos(p) /\ Bindings(s) /\ p # NoPeer
  BY DEF IInv, GateInv
<1>1. /\ conn[p].pc = "idle" /\ conn[p].ws = "open"
      /\ entry[s] # NoEntry /\ ~entry[s].removing /\ entry[s].peer = NoPeer /\ entry[s] \in Entries
      /\ UNCHANGED <<gl, failed, batch, pending, room, rec, admitted, reported>>
  BY <1>0 DEF Rebinds, batchVars, recVars, TypeOK, At, Open
<1>2. /\ entry' \in EntryMap /\ \A t \in Session : t # s => entry'[t] = entry[t]
      /\ entry'[s] \in Entries /\ entry'[s] # NoEntry /\ ~entry'[s].removing /\ entry'[s].peer = p
      /\ entry'[s].timer = "none" /\ entry'[s].known = entry[s].known /\ entry'[s].attempt = entry[s].attempt
  <2>1. PICK e : e = [entry[s] EXCEPT !.peer = p, !.timer = "none"]
    OBVIOUS
  <2>2. e \in Entries /\ ~e.removing /\ e.peer = p /\ e.timer = "none" /\ e.known = entry[s].known
        /\ e.attempt = entry[s].attempt
    BY <1>1, <2>1 DEF Entries
  <2>3. entry' = [entry EXCEPT ![s] = e] /\ entry \in [Session -> Entries \union {NoEntry}]
    BY <1>0, <2>1 DEF Rebinds, TypeOK
  <2>4. e # NoEntry
    BY <2>2, NullAssumption
  <2> QED
    BY <2>2, <2>3, <2>4 DEF EntryMap
<1>3. /\ conn' \in [Peer -> Connections] /\ \A q \in Peer : q # p => conn'[q] = conn[q]
      /\ conn'[p].session = s /\ conn'[p].pc = "joining" /\ conn'[p].ws = "open"
  <2>1. conn \in [Peer -> Connections]
    BY <1>0 DEF TypeOK
  <2>2. PICK k : k = [conn[p] EXCEPT !.session = s, !.pc = "joining"]
    OBVIOUS
  <2>3. k \in Connections /\ k.session = s /\ k.pc = "joining" /\ k.ws = "open"
    BY <1>1, <2>1, <2>2 DEF Connections
  <2>4. conn' = [conn EXCEPT ![p] = k]
    BY <2>2 DEF Rebinds
  <2> QED
    BY <2>1, <2>3, <2>4
<1>4. TypeOK'
  BY <1>0, <1>1, <1>2, <1>3 DEF TypeOK, EntryMap
<1>5. ClaimOf(s) \in admitted
  BY <1>0, <1>1 DEF Bindings
<1>6. \A b \in Session : Roster(b)' = Roster(b) /\ (Settled(b)' <=> Settled(b))
        /\ (Unresolved(b)' <=> Unresolved(b)) /\ (Staged(b)' <=> Staged(b))
  BY <1>1 DEF Roster, Settled, Unresolved, Staged
<1>7. ASSUME NEW t \in Session PROVE Bindings(t)'
  <2>1. CASE t = s
    <3>1. Timed(entry'[s])
      BY <1>0, <1>1, <1>2 DEF Bindings, Timed
    <3> QED
      BY <1>0, <1>1, <1>2, <1>3, <1>5, <2>1, <3>1 DEF Bindings
  <2>2. CASE t # s
    <3>1. Bindings(t) /\ entry'[t] = entry[t]
      BY <1>0, <1>2, <2>2 DEF GateInv
    <3>2. CASE entry[t] = NoEntry
      BY <3>1, <3>2 DEF Bindings
    <3>3. CASE entry[t] # NoEntry
      <4>1. entry[t].peer \in Peer \union {NoPeer}
        BY <1>0, <3>3, EntryType DEF TypeOK
      <4>2. entry[t].peer # p
        <5>1. SUFFICES ASSUME entry[t].peer = p PROVE FALSE
          OBVIOUS
        <5>2. conn[p].session = t /\ conn[p].session = NoEntry
          BY <1>0, <1>1, <3>1, <3>3, <5>1 DEF Bindings, Hellos, At
        <5> QED
          BY <5>2, NullAssumption
      <4>3. entry[t].peer # NoPeer => conn'[entry[t].peer] = conn[entry[t].peer]
        BY <1>3, <4>1, <4>2
      <4> QED
        BY <1>1, <3>1, <3>3, <4>3 DEF Bindings, At
    <3> QED
      BY <3>2, <3>3
  <2> QED
    BY <2>1, <2>2
<1>8. ASSUME NEW b \in Session PROVE BatchesOf(b)'
  <2>1. BatchesOf(b)
    BY <1>0 DEF GateInv
  <2>2. Settled(b) => \A t \in Roster(b) : entry'[t] # NoEntry \/ gl'[t] = "gone"
    <3>1. SUFFICES ASSUME Settled(b), NEW t \in Roster(b) PROVE entry'[t] # NoEntry \/ gl'[t] = "gone"
      OBVIOUS
    <3>2. t \in Session /\ (entry[t] # NoEntry \/ gl[t] = "gone")
      BY <1>0, <2>1, <3>1, RosterOfBatch DEF BatchesOf, Settled, Staged
    <3> QED
      BY <1>1, <1>2, <3>2
  <2>3. Unresolved(b) => Waits(b)'
    <3>0. SUFFICES ASSUME Unresolved(b) PROVE Waits(b)'
      OBVIOUS
    <3>1. \A q \in Peer : (At(q, "staged")' <=> At(q, "staged")) /\ (At(q, "staged") => conn'[q] = conn[q])
      BY <1>1, <1>3 DEF At
    <3>3. StagedPeers(b)' = StagedPeers(b) /\ \A q \in StagedPeers(b) : conn'[q] = conn[q] /\ At(q, "staged")
      BY <1>6, <3>1 DEF StagedPeers
    <3>4. \A t \in Roster(b) : t \in Session /\ t # s /\ entry'[t] = entry[t]
      BY <1>2, <1>5, <3>0, BatchFacts
    <3>5. Waits(b)
      BY <3>0, BatchFacts
    <3>6. \A t \in Roster(b) : \E q \in Peer : At(q, "staged")' /\ conn'[q].session = t
      BY <3>1, <3>5 DEF Waits
    <3>7. ASSUME NEW q \in Peer, q \in StagedPeers(b)', conn'[q].ws = "open", batch[b].stage = "joining"
          PROVE  LET e == entry'[conn'[q].session] IN e # NoEntry /\ ~e.removing /\ e.peer = q
      <4>1. q \in StagedPeers(b) /\ Open(q) /\ conn[q].session \in Roster(b)
        BY <3>3, <3>7 DEF Open, StagedPeers
      <4>2. entry'[conn[q].session] = entry[conn[q].session] /\ conn'[q].session = conn[q].session
        BY <3>3, <3>4, <4>1
      <4> QED
        BY <3>5, <3>7, <4>1, <4>2 DEF Waits
    <3>8. \A q \in {r \in StagedPeers(b) : Open(r)}' : batch[b].stage = "joining" =>
             LET e == entry'[conn'[q].session] IN e # NoEntry /\ ~e.removing /\ e.peer = q
      BY <3>7 DEF StagedPeers, Open
    <3> QED
      BY <1>1, <1>6, <3>4, <3>5, <3>6, <3>8 DEF Waits
  <2> QED
    BY <1>1, <1>6, <2>1, <2>2, <2>3 DEF BatchesOf, Settled, Unresolved, Staged
<1>9. ASSUME NEW q \in Peer PROVE Hellos(q)'
  <2>1. CASE q = p
    <3>1. Hellos(p)'
      BY <1>1, <1>2, <1>3, <1>5 DEF Hellos, At, Waiting
    <3> QED
      BY <2>1, <3>1
  <2>2. CASE q # p
    <3>1. conn'[q] = conn[q] /\ Hellos(q)
      BY <1>0, <1>3, <2>2 DEF GateInv
    <3>2. \A r \in Peer : conn[q].pc \in Waiting /\ conn'[r].pc \in Waiting /\ conn'[r].session = conn[q].session => r = q
      BY <1>3, <2>2, <3>1 DEF Hellos, Waiting
    <3>3. Roster(pending[ClaimOf(conn[q].session)])' = Roster(pending[ClaimOf(conn[q].session)])
      BY <1>1, <3>1 DEF Roster
    <3>4. \A d \in Session : conn[q].pc \in {"preparing", "staged"} /\ Settled(d)' => (conn[q].session \notin Roster(d))'
      BY <1>6, <3>1 DEF Hellos
    <3>5. conn[q].pc \in {"inspecting", "preparing"} => entry'[conn[q].session] = NoEntry
      BY <1>1, <1>2, <3>1 DEF Hellos, At
    <3>6. At(q, "joining") /\ Open(q) => /\ entry'[conn[q].session] # NoEntry
                                         /\ ~entry'[conn[q].session].removing /\ entry'[conn[q].session].peer = q
      <4>1. SUFFICES ASSUME At(q, "joining"), Open(q)
                     PROVE  entry'[conn[q].session] = entry[conn[q].session]
        BY <3>1 DEF Hellos
      <4>2. conn[q].session \in Session /\ entry[conn[q].session].peer = q
        BY <3>1, <4>1 DEF Hellos, At
      <4> QED
        BY <1>1, <1>2, <4>2
    <3> QED
      BY <1>1, <3>1, <3>2, <3>3, <3>4, <3>5, <3>6 DEF Hellos, At, Open
  <2> QED
    BY <2>1, <2>2
<1>10. \A c \in Claim : PendingOf(c)'
  BY <1>0, <1>1 DEF GateInv, PendingOf, Unresolved, Staged
<1>11. ASSUME NEW m \in Player, room[m] # NoEntry, room[m].peer # NoPeer
       PROVE  conn'[room[m].peer] = conn[room[m].peer]
  BY <1>1, <1>3, <1>11, SeatedFacts DEF At
<1>12. \A m \in Player : Seated(m)'
  BY <1>0, <1>1, <1>11 DEF GateInv, Seated, At
<1>13. SeatedSocketIsBound'
  <2>1. SUFFICES ASSUME NEW m \in Player, room[m] # NoEntry, room[m].peer # NoPeer, conn'[room[m].peer].ws = "open"
                 PROVE  LET t == conn'[room[m].peer].session
                        IN  /\ t # NoEntry /\ PlayerOf(t) = m
                            /\ entry'[t] # NoEntry /\ ~entry'[t].removing /\ entry'[t].peer = room[m].peer
    BY <1>1 DEF SeatedSocketIsBound, Open
  <2>2. PICK t \in Session : t = conn[room[m].peer].session
    BY <2>1, SeatedFacts
  <2>3. t # NoEntry /\ PlayerOf(t) = m /\ entry[t] # NoEntry /\ ~entry[t].removing /\ entry[t].peer = room[m].peer
        /\ conn'[room[m].peer].session = t
    BY <1>0, <1>11, <2>1, <2>2 DEF GateInv, SeatedSocketIsBound, Open
  <2>4. t # s
    BY <1>1, <2>1, <2>3
  <2> QED
    BY <1>2, <2>3, <2>4
<1>14. \A c \in admitted' : AdmittedOnce(c)'
  BY <1>0, <1>1 DEF GateInv, AdmittedOnce, Settled, Staged
<1> QED
  BY <1>4, <1>7, <1>8, <1>9, <1>10, <1>12, <1>13, <1>14 DEF GateInv

(* The three outcomes of a hello.                                          *)
LEMMA HelloKeeps ==
  ASSUME IInv, NEW p \in Peer, NEW s \in Session, Hello(p, s)
  PROVE  TypeOK' /\ GateInv'
<1>0. TypeOK /\ conn \in [Peer -> Connections]
  BY DEF IInv, TypeOK
<1>1. conn[p].pc = "idle" /\ conn[p].ws = "open" /\ UNCHANGED <<gl, failed, batchVars, room, recVars, admitted>>
  BY DEF Hello, At, Open
<1>2. CASE /\ Refuse(p, s) /\ UNCHANGED entry
  <2>1. conn'[p] = Refused(conn[p], s) /\ \A q \in Peer : q # p => conn'[q] = conn[q]
    BY <1>0, <1>2 DEF Refuse
  <2>2. conn'[p] \in Connections /\ conn'[p].pc = "refused" /\ conn'[p].session = s
    BY <1>0, <2>1, RefusedSocket
  <2>3. conn' \in [Peer -> Connections]
    BY <1>0, <1>2, <2>1, <2>2 DEF Refuse
  <2>4. TypeOK'
    BY <1>0, <1>1, <1>2, <2>3 DEF TypeOK, batchVars, recVars
  <2>5. EarlyHello(p)
    BY <1>1, <1>2, <2>1, <2>2 DEF EarlyHello, At
  <2> QED
    BY <2>2, <2>4, <2>5, EarlyHelloKeeps
<1>3. CASE /\ ~HelloRefused(s) /\ entry[s] = NoEntry /\ UNCHANGED entry
           /\ conn' = [conn EXCEPT ![p] = [@ EXCEPT !.session = s, !.pc = "inspecting"]]
  <2>0. PICK k : k = [conn[p] EXCEPT !.session = s, !.pc = "inspecting"]
    OBVIOUS
  <2>1. k \in Connections /\ k.session = s /\ k.pc = "inspecting"
    BY <1>0, <2>0 DEF Connections
  <2>2. conn' = [conn EXCEPT ![p] = k]
    BY <1>3, <2>0
  <2>3. conn' \in [Peer -> Connections] /\ conn'[p].pc = "inspecting" /\ conn'[p].session = s
        /\ \A q \in Peer : q # p => conn'[q] = conn[q]
    BY <1>0, <2>1, <2>2
  <2>4. TypeOK'
    BY <1>0, <1>1, <1>3, <2>3 DEF TypeOK, batchVars, recVars
  <2>5. EarlyHello(p)
    BY <1>1, <1>3, <2>3 DEF EarlyHello, At
  <2>6. \A q \in Peer : conn[q].pc \in Waiting => conn[q].session # s
    BY <1>3 DEF HelloRefused, PendingSessions, Waiting
  <2> QED
    BY <1>3, <2>3, <2>4, <2>5, <2>6, EarlyHelloKeeps
<1>4. CASE /\ ~HelloRefused(s) /\ entry[s] # NoEntry
           /\ entry' = [entry EXCEPT ![s] = [@ EXCEPT !.peer = p, !.timer = "none"]]
           /\ conn' = [conn EXCEPT ![p] = [@ EXCEPT !.session = s, !.pc = "joining"]]
  <2>1. Rebinds(p, s)
    BY <1>1, <1>4 DEF Rebinds, HelloRefused, At, Open
  <2> QED
    BY <2>1, RebindKeeps
<1> QED
  BY <1>2, <1>3, <1>4 DEF Hello

LEMMA InspectReturnsKeeps ==
  ASSUME IInv, NEW p \in Peer, InspectReturns(p)
  PROVE  TypeOK' /\ GateInv'
<1>0. PICK s : s = conn[p].session
  OBVIOUS
<1>1. At(p, "inspecting") /\ UNCHANGED <<gl, failed, batchVars, room, recVars, admitted>>
  BY DEF InspectReturns
<1>2. s \in Session /\ TypeOK /\ conn \in [Peer -> Connections] /\ Hellos(p)
  BY <1>0, <1>1, HelloFacts DEF IInv, GateInv, TypeOK, At
<1>3. CASE gl[s] = "RESERVED" /\ UNCHANGED entry /\ conn' = [conn EXCEPT ![p].pc = "preparing"]
  <2>1. PICK k : k = [conn[p] EXCEPT !.pc = "preparing"]
    OBVIOUS
  <2>2. k \in Connections /\ k.session = s /\ k.pc = "preparing"
    BY <1>0, <1>2, <2>1 DEF Connections
  <2>3. conn' = [conn EXCEPT ![p] = k]
    BY <1>3, <2>1
  <2>4. conn' \in [Peer -> Connections] /\ conn'[p].pc = "preparing" /\ conn'[p].session = s
        /\ \A q \in Peer : q # p => conn'[q] = conn[q]
    BY <1>2, <2>2, <2>3
  <2>5. TypeOK'
    BY <1>1, <1>2, <1>3, <2>4 DEF TypeOK, batchVars, recVars
  <2>6. EarlyHello(p)
    BY <1>0, <1>1, <1>3, <2>4 DEF EarlyHello, At
  <2>7. entry[s] = NoEntry /\ \A q \in Peer : q # p /\ conn[q].pc \in Waiting => conn[q].session # s
    BY <1>0, <1>1, <1>2 DEF Hellos, At, Waiting
  <2>8. \A d \in Session : Settled(d) => s \notin Roster(d)
    <3> SUFFICES ASSUME NEW d \in Session, Settled(d), s \in Roster(d) PROVE FALSE
      OBVIOUS
    <3>1. entry[s] # NoEntry \/ gl[s] = "gone"
      BY <1>2 DEF IInv, GateInv, BatchesOf, Settled
    <3> QED
      BY <1>3, <2>7, <3>1
  <2> QED
    BY <1>2, <2>4, <2>5, <2>6, <2>7, <2>8, EarlyHelloKeeps
<1>4. CASE Refuse(p, s) /\ \/ UNCHANGED entry
                           \/ entry' = [entry EXCEPT ![s] =
                                StartRemoval(IF @ = NoEntry THEN [Bound(NoPeer) EXCEPT !.known = FALSE] ELSE @)]
  BY <1>0, <1>1, <1>4, InspectionRefused, GivesUpKeeps
<1> QED
  BY <1>0, <1>1, <1>3, <1>4 DEF InspectReturns

(* The member p enters the party of its claim, or founds it. *)
EntersParty(p, s, b, w) ==
  /\ At(p, "preparing") /\ Open(p) /\ s = conn[p].session
  /\ b = IF pending[ClaimOf(s)] = NoBatch THEN s ELSE pending[ClaimOf(s)]
  /\ w \in Batches /\ w.members = StagedWith(p) /\ ~w.settled
  /\ w.stage \in {"staging", "accepting"}
  /\ w.stage # "staging" => w.members = Player
  /\ w.call = "sent" => w.stage = "accepting"
  /\ batch' = [batch EXCEPT ![b] = w]
  /\ pending' = [pending EXCEPT ![ClaimOf(s)] = b]
  /\ conn' = [conn EXCEPT ![p].pc = "staged"]
  /\ UNCHANGED <<gl, entry, failed, room, recVars, admitted>>

(* The party waits with one member more.                                   *)
LEMMA EntersPartyKeeps ==
  ASSUME IInv, NEW p \in Peer, NEW s, NEW b, NEW w, EntersParty(p, s, b, w)
  PROVE  TypeOK' /\ GateInv'
<1> USE GateAssumption
<1>0. TypeOK /\ GateInv /\ Hellos(p) /\ s = conn[p].session
  BY DEF IInv, GateInv, EntersParty
<1>1. /\ conn[p].pc = "preparing" /\ conn[p].ws = "open" /\ entry[s] = NoEntry
      /\ UNCHANGED <<gl, entry, failed, room, rec, admitted, reported>>
  BY <1>0 DEF EntersParty, At, Open, Hellos, recVars
<1>2. s \in Session /\ ClaimOf(s) \in Claim /\ PlayerOf(s) \in Player /\ StagedWith(p) \in SUBSET Player
      /\ PlayerOf(s) \in StagedWith(p)
  BY <1>0, <1>1, PartyOf DEF At
<1>c. PICK c \in Claim : c = ClaimOf(s)
  BY <1>2
<1>3. /\ b \in Session /\ ClaimOf(b) = c /\ b # NoBatch
      /\ \/ Unresolved(b) /\ pending[c] = b
         \/ ~Staged(b) /\ pending[c] = NoBatch
  <2>1. CASE pending[c] = NoBatch
    <3>1. b = s
      BY <1>c, <2>1 DEF EntersParty
    <3>2. ~Unresolved(s)
      <4>1. Unresolved(s) => pending[c] = s
        BY <1>2, <1>c, BatchFacts
      <4> QED
        BY <1>2, <2>1, <4>1, NullAssumption
    <3>3. ~Settled(s)
      BY <1>0, <1>1, <1>2 DEF GateInv, BatchesOf, Settled, Hellos
    <3> QED
      BY <1>2, <1>c, <2>1, <3>1, <3>2, <3>3, NullAssumption DEF Settled, Unresolved
  <2>2. CASE pending[c] # NoBatch
    BY <1>0, <1>c, <2>2, NullAssumption DEF EntersParty, TypeOK, GateInv, PendingOf
  <2> QED
    BY <2>1, <2>2
<1>4. /\ batch' \in [Session -> Batches \union {NoBatch}] /\ batch'[b] = w /\ w # NoBatch
      /\ \A d \in Session : d # b => batch'[d] = batch[d]
      /\ pending' \in [Claim -> Session \union {NoBatch}] /\ pending'[c] = b
      /\ \A d \in Claim : d # c => pending'[d] = pending[d]
  BY <1>0, <1>c, <1>3, NullAssumption DEF EntersParty, TypeOK
<1>5. /\ conn' \in [Peer -> Connections] /\ conn'[p].session = s /\ conn'[p].pc = "staged" /\ conn'[p].ws = "open"
      /\ \A q \in Peer : q # p => conn'[q] = conn[q]
  <2>1. PICK k : k = [conn[p] EXCEPT !.pc = "staged"]
    OBVIOUS
  <2>2. k \in Connections /\ k.session = s /\ k.pc = "staged" /\ k.ws = "open"
    BY <1>0, <1>1, <2>1 DEF TypeOK, Connections
  <2>3. conn' = [conn EXCEPT ![p] = k] /\ conn \in [Peer -> Connections]
    BY <1>0, <2>1 DEF EntersParty, TypeOK
  <2> QED
    BY <2>2, <2>3
<1>6. TypeOK'
  BY <1>0, <1>1, <1>4, <1>5 DEF TypeOK
<1>7. w.members = StagedWith(p) /\ ~w.settled /\ w.stage \in {"staging", "accepting"}
      /\ (w.stage # "staging" => w.members = Player) /\ (w.call = "sent" => w.stage = "accepting")
  BY DEF EntersParty
<1>8. \A t : t \in Roster(b)' <=> t \in Session /\ ClaimOf(t) = c /\ PlayerOf(t) \in StagedWith(p)
  BY <1>3, <1>4, <1>6, <1>7, RosterOfNextBatch
<1>9. Unresolved(b) =>
        /\ s \notin Roster(b)
        /\ \A t \in Session : ClaimOf(t) = c /\ PlayerOf(t) \in StagedWith(p) => t = s \/ t \in Roster(b)
        /\ \A t \in Roster(b) : t \in Roster(b)'
        /\ batch[b].stage # "joining"
  <2>1. SUFFICES ASSUME Unresolved(b)
                 PROVE  /\ s \notin Roster(b)
                        /\ \A t \in Session : ClaimOf(t) = c /\ PlayerOf(t) \in StagedWith(p) => t = s \/ t \in Roster(b)
                        /\ \A t \in Roster(b) : t \in Roster(b)'
                        /\ batch[b].stage # "joining"
    OBVIOUS
  <2>2. /\ s \notin Roster(b) /\ StagedWith(p) = {PlayerOf(s)} \union batch[b].members
        /\ \A t \in Session : ClaimOf(t) = c /\ PlayerOf(t) \in StagedWith(p) => t = s \/ t \in Roster(b)
    BY <1>0, <1>1, <1>3, <1>c, <2>1, PartyOf DEF At, Unresolved
  <2>3. \A t : t \in Roster(b) <=> t \in Session /\ ClaimOf(t) = ClaimOf(b) /\ PlayerOf(t) \in batch[b].members
    BY <1>0, <1>3, <2>1, RosterOfBatch DEF Unresolved, Staged
  <2>4. batch[b].stage = "joining" => batch[b].members = Player
    BY <1>3, <2>1, BatchFacts DEF Waits
  <2> QED
    BY <1>2, <1>3, <1>8, <1>c, <2>2, <2>3, <2>4
<1>10. ~Unresolved(b) => \A t \in Roster(b)' : t = s
  <2>1. ~Unresolved(b) => StagedWith(p) = {PlayerOf(s)}
    BY <1>0, <1>1, <1>3, <1>c, PartyOf DEF At
  <2> QED
    BY <1>2, <1>8, <1>c, <2>1, SessionParts
<1>11. \A d \in Session : d # b => /\ Roster(d)' = Roster(d) /\ (Settled(d)' <=> Settled(d))
                                   /\ (Unresolved(d)' <=> Unresolved(d)) /\ (Staged(d)' <=> Staged(d))
  BY <1>4 DEF Roster, Settled, Unresolved, Staged
<1>12. ~Settled(b) /\ ~Settled(b)' /\ Unresolved(b)'
  BY <1>3, <1>4, <1>7 DEF Settled, Unresolved, Staged
<1>13. ASSUME NEW t \in Session PROVE Bindings(t)'
  <2>1. Bindings(t)
    BY <1>0 DEF GateInv
  <2>2. CASE entry[t] = NoEntry
    BY <1>1, <2>2 DEF Bindings
  <2>3. CASE entry[t] # NoEntry
    <3>1. entry[t].peer \in Peer \union {NoPeer} /\ t # s
      BY <1>0, <1>1, <2>3, EntryType DEF TypeOK
    <3>2. entry[t].peer # p
      BY <1>0, <2>1, <2>3, <3>1 DEF Bindings
    <3>3. entry[t].peer # NoPeer => conn'[entry[t].peer] = conn[entry[t].peer]
      BY <1>5, <3>1, <3>2
    <3>4. ASSUME ~entry[t].removing, ClaimOf(t) \notin admitted
          PROVE  pending'[ClaimOf(t)] = pending[ClaimOf(t)] /\ batch'[pending[ClaimOf(t)]] = batch[pending[ClaimOf(t)]]
      <4>1. pending[ClaimOf(t)] # NoBatch /\ batch[pending[ClaimOf(t)]].stage = "joining" /\ ClaimOf(t) \in Claim
        BY <2>1, <2>3, <3>4, SessionParts DEF Bindings
      <4>2. PICK d \in Session : d = pending[ClaimOf(t)]
        BY <1>0, <4>1 DEF TypeOK
      <4>3. ClaimOf(d) = ClaimOf(t) /\ batch[d].stage = "joining" /\ Unresolved(d)
        BY <1>0, <4>1, <4>2 DEF GateInv, PendingOf
      <4>4. d # b
        BY <1>9, <4>3
      <4>5. ClaimOf(t) # c
        BY <1>3, <4>1, <4>2, <4>4
      <4> QED
        BY <1>4, <4>1, <4>2, <4>4, <4>5
    <3> QED
      BY <1>1, <2>1, <2>3, <3>3, <3>4 DEF Bindings, At
  <2> QED
    BY <2>2, <2>3
<1>14. BatchesOf(b)'
  <2>1. s \in Roster(b)' /\ b \in Roster(b)'
    <3>1. s \in Roster(b)'
      BY <1>2, <1>8, <1>c
    <3>2. b \in Roster(b)'
      <4>1. CASE Unresolved(b)
        BY <1>3, <1>9, <4>1, BatchFacts
      <4>2. CASE ~Unresolved(b)
        BY <1>3, <1>c, <3>1, <4>2 DEF EntersParty
      <4> QED
        BY <4>1, <4>2
    <3> QED
      BY <3>1, <3>2
  <2>2. \A t \in Roster(b)' : t = s \/ (Unresolved(b) /\ t \in Roster(b))
    BY <1>8, <1>9, <1>10
  <2>3. \A t \in Roster(b)' : \E q \in Peer : At(q, "staged")' /\ conn'[q].session = t
    <3> SUFFICES ASSUME NEW t \in Roster(b)' PROVE \E q \in Peer : At(q, "staged")' /\ conn'[q].session = t
      OBVIOUS
    <3>1. CASE t = s
      BY <1>5, <3>1 DEF At
    <3>2. CASE Unresolved(b) /\ t \in Roster(b)
      <4>1. PICK q \in Peer : At(q, "staged") /\ conn[q].session = t
        BY <1>3, <3>2, BatchFacts DEF Waits
      <4> QED
        BY <1>1, <1>5, <4>1 DEF At
    <3> QED
      BY <2>2, <3>1, <3>2
  <2>4. \A t \in Roster(b)' : entry'[t] = NoEntry
    <3> SUFFICES ASSUME NEW t \in Roster(b)' PROVE entry[t] = NoEntry
      BY <1>1
    <3>1. CASE t = s
      BY <1>1, <3>1
    <3>2. CASE Unresolved(b) /\ t \in Roster(b)
      BY <1>3, <1>9, <3>2, BatchFacts DEF Waits
    <3> QED
      BY <2>2, <3>1, <3>2
  <2>5. pending'[ClaimOf(b)] = b
    BY <1>3, <1>4
  <2>6. Waits(b)'
    BY <1>4, <1>7, <2>3, <2>4, <2>5 DEF Waits
  <2> QED
    BY <1>4, <1>7, <1>12, <2>1, <2>6 DEF BatchesOf
<1>15. ASSUME NEW d \in Session, d # b PROVE BatchesOf(d)'
  <2>1. BatchesOf(d) /\ batch'[d] = batch[d]
    BY <1>0, <1>4, <1>15 DEF GateInv
  <2>2. Unresolved(d) => Waits(d)'
    <3>0. SUFFICES ASSUME Unresolved(d) PROVE Waits(d)'
      OBVIOUS
    <3>1. Waits(d) /\ pending[ClaimOf(d)] = d /\ ClaimOf(d) \in Claim
      BY <3>0, BatchFacts, SessionParts
    <3>2. ClaimOf(d) # c
      BY <1>3, <1>15, <3>0, <3>1, NullAssumption DEF Unresolved
    <3>3. \A t \in Roster(d) : t # s
      BY <1>c, <3>0, <3>2, BatchFacts
    <3>4. \A q \in Peer : q # p => (At(q, "staged")' <=> At(q, "staged")) /\ conn'[q] = conn[q]
      BY <1>5 DEF At
    <3>5. StagedPeers(d)' = StagedPeers(d) /\ p \notin StagedPeers(d)
      BY <1>0, <1>5, <1>11, <1>15, <3>3, <3>4 DEF StagedPeers
    <3>6. {q \in StagedPeers(d) : Open(q)}' = {q \in StagedPeers(d) : Open(q)}
      BY <3>4, <3>5 DEF StagedPeers, Open
    <3>7. \A t \in Roster(d) : \E q \in Peer : At(q, "staged")' /\ conn'[q].session = t
      BY <1>1, <3>1, <3>4 DEF Waits, At
    <3>8. \A q \in {r \in StagedPeers(d) : Open(r)} : conn'[q].session = conn[q].session
      BY <3>4, <3>5 DEF StagedPeers
    <3>9. pending'[ClaimOf(d)] = d
      BY <1>4, <3>1, <3>2
    <3> QED
      BY <1>1, <1>11, <1>15, <2>1, <3>1, <3>6, <3>7, <3>8, <3>9 DEF Waits
  <2> QED
    BY <1>1, <1>11, <1>15, <2>1, <2>2 DEF BatchesOf, Settled, Unresolved, Staged
<1>16. ASSUME NEW q \in Peer PROVE Hellos(q)'
  <2>0. conn'[q].session = conn[q].session
    BY <1>0, <1>5
  <2>1. Hellos(q) /\ \A r \in Peer : conn'[r].pc \in Waiting <=> conn[r].pc \in Waiting
    BY <1>0, <1>1, <1>5 DEF GateInv, Waiting
  <2>2. \A r \in Peer : conn'[r].session = conn[r].session
    BY <1>0, <1>5
  <2>3. \A r \in Peer : conn'[q].pc \in Waiting /\ conn'[r].pc \in Waiting /\ conn'[r].session = conn'[q].session => r = q
    BY <2>1, <2>2 DEF Hellos
  <2>4. \A d \in Session : conn'[q].pc \in {"preparing", "staged"} /\ Settled(d)' => (conn[q].session \notin Roster(d))'
    <3> SUFFICES ASSUME NEW d \in Session, conn'[q].pc \in {"preparing", "staged"}, Settled(d)'
                 PROVE  conn'[q].session \notin Roster(d)'
      OBVIOUS
    <3>1. d # b /\ Settled(d) /\ Roster(d)' = Roster(d)
      BY <1>11, <1>12
    <3>2. conn[q].pc \in {"preparing", "staged"}
      BY <1>1, <1>5
    <3> QED
      BY <2>0, <2>1, <3>1, <3>2 DEF Hellos
  <2>5. conn'[q].pc = "staged" => /\ conn'[q].ws # "closed" /\ pending'[ClaimOf(conn'[q].session)] # NoBatch
                                  /\ conn'[q].session \in Roster(pending[ClaimOf(conn[q].session)])'
    <3>1. CASE q = p
      <4>1. pending'[ClaimOf(conn'[q].session)] = b
        BY <1>4, <1>5, <1>c, <3>1
      <4>2. Roster(pending[ClaimOf(conn[q].session)])' = Roster(b)'
        BY <4>1 DEF Roster
      <4>3. s \in Roster(b)'
        BY <1>2, <1>8, <1>c
      <4> QED
        BY <1>3, <1>5, <3>1, <4>1, <4>2, <4>3
    <3>2. CASE q # p /\ conn[q].pc = "staged"
      <4>1. PICK t \in Session : t = conn[q].session
        BY <3>2, HelloFacts
      <4>2. PICK d \in Session : Unresolved(d) /\ d = pending[ClaimOf(t)] /\ t \in Roster(d)
        BY <3>2, <4>1, StagedFacts DEF At
      <4>3. pending'[ClaimOf(t)] = d /\ t \in Roster(d)'
        <5>1. CASE d = b
          <6>1. ClaimOf(t) = c
            BY <1>3, <4>2, <5>1, BatchFacts
          <6> QED
            BY <1>4, <1>9, <4>2, <5>1, <6>1
        <5>2. CASE d # b
          <6>1. ClaimOf(t) # c
            BY <1>3, <4>2, <5>2, NullAssumption
          <6> QED
            BY <1>4, <1>11, <4>1, <4>2, <5>2, <6>1, SessionParts
        <5> QED
          BY <5>1, <5>2
      <4>4. Roster(pending[ClaimOf(conn[q].session)])' = Roster(d)'
        BY <2>0, <4>1, <4>3 DEF Roster
      <4> QED
        BY <1>5, <2>0, <2>1, <3>2, <4>1, <4>2, <4>3, <4>4, NullAssumption DEF Hellos, At
    <3> QED
      BY <1>5, <3>1, <3>2
  <2>6. conn'[q].pc \in {"inspecting", "preparing"} => entry'[conn'[q].session] = NoEntry
    BY <1>1, <1>5, <2>0, <2>1 DEF Hellos
  <2>7. conn'[q].pc \in {"joining", "game"} => ClaimOf(conn'[q].session) \in admitted'
    BY <1>1, <1>5, <2>0, <2>1 DEF Hellos
  <2>8. conn'[q].pc = "joining" /\ conn'[q].ws = "open" => /\ entry'[conn'[q].session] # NoEntry
          /\ ~entry'[conn'[q].session].removing /\ entry'[conn'[q].session].peer = q
    BY <1>1, <1>5, <2>0, <2>1 DEF Hellos, At, Open
  <2>9. IF conn'[q].pc = "idle" THEN conn'[q].session = NoEntry ELSE conn'[q].session \in Session
    BY <1>1, <1>5, <2>0, <2>1 DEF Hellos, At
  <2> QED
    BY <2>3, <2>4, <2>5, <2>6, <2>7, <2>8, <2>9 DEF Hellos, At, Open
<1>17. ASSUME NEW d \in Claim PROVE PendingOf(d)'
  <2>1. CASE d = c
    <3>1. pending'[d] = b /\ Unresolved(pending[d])' = Unresolved(b)'
      BY <1>4, <2>1 DEF Unresolved, Staged
    <3> QED
      BY <1>3, <1>12, <2>1, <3>1 DEF PendingOf
  <2>2. CASE d # c /\ pending[d] # NoBatch
    <3>1. PICK x \in Session : x = pending[d]
      BY <1>0, <2>2 DEF TypeOK
    <3>2. ClaimOf(x) = d /\ Unresolved(x)
      BY <1>0, <2>2, <3>1 DEF GateInv, PendingOf
    <3>3. x # b /\ pending'[d] = x
      BY <1>3, <1>4, <2>2, <3>1, <3>2
    <3>4. Unresolved(pending[d])' = Unresolved(x)'
      BY <3>3 DEF Unresolved, Staged
    <3> QED
      BY <1>11, <3>2, <3>3, <3>4 DEF PendingOf
  <2>3. CASE d # c /\ pending[d] = NoBatch
    BY <1>4, <2>3 DEF PendingOf
  <2> QED
    BY <2>1, <2>2, <2>3
<1>18. ASSUME NEW m \in Player, room[m] # NoEntry, room[m].peer # NoPeer
       PROVE  conn'[room[m].peer] = conn[room[m].peer]
  BY <1>1, <1>5, <1>18, SeatedFacts DEF At
<1>19. \A m \in Player : Seated(m)'
  BY <1>0, <1>1, <1>18 DEF GateInv, Seated, At
<1>20. SeatedSocketIsBound'
  BY <1>0, <1>1, <1>18 DEF GateInv, SeatedSocketIsBound, Open
<1>21. ASSUME NEW d \in admitted' PROVE AdmittedOnce(d)'
  <2>1. PICK x \in Session : Settled(x) /\ ClaimOf(x) = d /\ batch[x].members = Player
    BY <1>0, <1>1 DEF GateInv, AdmittedOnce
  <2>2. x # b
    BY <1>12, <2>1
  <2> QED
    BY <1>4, <1>11, <2>1, <2>2 DEF AdmittedOnce
<1>22. \A d \in Session : BatchesOf(d)'
  BY <1>14, <1>15
<1> QED
  BY <1>6, <1>13, <1>16, <1>17, <1>19, <1>20, <1>21, <1>22 DEF GateInv

LEMMA StagesKeeps ==
  ASSUME IInv, NEW p \in Peer, Stages(p) \/ StagesLast(p)
  PROVE  TypeOK' /\ GateInv'
<1>0. PICK s : s = conn[p].session
  OBVIOUS
<1>1. At(p, "preparing")
  BY DEF Stages, StagesLast
<1>2. StagedWith(p) \in SUBSET Player
  BY <1>0, <1>1, PartyOf
<1>3. PICK b : b = IF pending[ClaimOf(s)] = NoBatch THEN s ELSE pending[ClaimOf(s)]
  OBVIOUS
<1>4. CASE Stages(p)
  <2>1. PICK w : w = [members |-> StagedWith(p), settled |-> FALSE, stage |-> "staging", call |-> "none"]
    OBVIOUS
  <2>2. w \in Batches
    BY <1>2, <2>1 DEF Batches
  <2>3. EntersParty(p, s, b, w)
    BY <1>0, <1>3, <1>4, <2>1, <2>2 DEF Stages, EntersParty, gateVars
  <2> QED
    BY <2>3, EntersPartyKeeps
<1>5. CASE StagesLast(p) /\ pending[ClaimOf(s)] # NoBatch /\ StagesLate(p)
  BY <1>0, <1>5, StagesLateGivesUp, GivesUpKeeps
<1>6. CASE StagesLast(p) /\ ~(pending[ClaimOf(s)] # NoBatch /\ StagesLate(p))
  <2>1. PICK w : w = [members |-> StagedWith(p), settled |-> FALSE, stage |-> "accepting", call |-> "sent"]
    OBVIOUS
  <2>2. w \in Batches
    BY <1>2, <2>1 DEF Batches
  <2>3. StagedWith(p) = Player /\ Open(p)
    BY <1>6 DEF StagesLast, Complete
  <2>4. \A q \in (IF pending[ClaimOf(s)] = NoBatch THEN {} ELSE StagedPeers(b)) : Open(q)
    BY <1>0, <1>3, <1>6 DEF StagesLate
  <2>5. /\ batch' = [batch EXCEPT ![b] = w] /\ pending' = [pending EXCEPT ![ClaimOf(s)] = b]
        /\ conn' = [conn EXCEPT ![p].pc = "staged"] /\ UNCHANGED <<entry, room, gl, failed, recVars, admitted>>
    BY <1>0, <1>3, <1>6, <2>1, <2>4 DEF StagesLast
  <2>6. EntersParty(p, s, b, w)
    BY <1>0, <1>1, <1>3, <2>1, <2>2, <2>3, <2>5 DEF EntersParty
  <2> QED
    BY <2>6, EntersPartyKeeps
<1> QED
  BY <1>4, <1>5, <1>6

(* The adapter answers a call: only the batch's own call ends. *)
CallEnds(b, r) ==
  /\ batch[b] # NoBatch /\ batch[b].call = "sent" /\ r \in {"accepted", "refused"}
  /\ batch' = [batch EXCEPT ![b].call = r]
  /\ gl' \in [Session -> {"none", "RESERVED", "ACTIVE", "gone"}]
  /\ \A s \in Session : gl[s] = "gone" => gl'[s] = "gone"
  /\ UNCHANGED <<gateVars, pending, conn, room, recVars, admitted>>

(* The answer leaves batch and bindings as they are.                       *)
LEMMA CallEndsKeeps ==
  ASSUME IInv, NEW b \in Session, NEW r, CallEnds(b, r)
  PROVE  TypeOK' /\ GateInv'
<1>0. TypeOK /\ GateInv
  BY DEF IInv
<1>1. /\ UNCHANGED <<entry, failed, pending, conn, room, rec, admitted, reported>>
      /\ \A s \in Session : gl[s] = "gone" => gl'[s] = "gone"
  BY DEF CallEnds, gateVars, recVars
<1>2. /\ batch' \in [Session -> Batches \union {NoBatch}] /\ batch'[b] # NoBatch /\ batch'[b].call = r
      /\ batch'[b].members = batch[b].members /\ batch'[b].settled = batch[b].settled /\ batch'[b].stage = batch[b].stage
      /\ \A d \in Session : d # b => batch'[d] = batch[d]
  <2>1. PICK w : w = [batch[b] EXCEPT !.call = r]
    OBVIOUS
  <2>2. batch[b] \in Batches
    BY <1>0 DEF CallEnds, TypeOK
  <2>3. w \in Batches /\ w.call = r /\ w.members = batch[b].members /\ w.settled = batch[b].settled /\ w.stage = batch[b].stage
    BY <2>1, <2>2 DEF CallEnds, Batches
  <2>4. batch' = [batch EXCEPT ![b] = w]
    BY <2>1 DEF CallEnds
  <2> QED
    BY <1>0, <2>3, <2>4, NullAssumption DEF TypeOK
<1>3. TypeOK'
  BY <1>0, <1>1, <1>2 DEF CallEnds, TypeOK
<1>4. \A d \in Session :
        /\ Roster(d)' = Roster(d) /\ (Settled(d)' <=> Settled(d))
        /\ (Unresolved(d)' <=> Unresolved(d)) /\ (Staged(d)' <=> Staged(d))
        /\ Staged(d) => batch'[d].stage = batch[d].stage /\ batch'[d].members = batch[d].members
                        /\ batch'[d].settled = batch[d].settled
                        /\ (batch'[d].call = "sent" => batch[d].call = "sent")
  BY <1>2 DEF Roster, Settled, Unresolved, Staged, CallEnds
<1>5. ASSUME NEW c \in Claim, pending[c] # NoBatch
      PROVE  pending[c] \in Session /\ Staged(pending[c]) /\ ClaimOf(pending[c]) = c
             /\ batch'[pending[c]].stage = batch[pending[c]].stage
  <2>1. PICK x \in Session : x = pending[c]
    BY <1>0, <1>5 DEF TypeOK
  <2>2. Staged(x) /\ ClaimOf(x) = c
    BY <1>0, <1>5, <2>1 DEF GateInv, PendingOf, Unresolved
  <2>3. batch'[x].stage = batch[x].stage
    BY <1>4, <2>2
  <2> QED
    BY <2>1, <2>2, <2>3
<1>6. ASSUME NEW s \in Session PROVE Bindings(s)'
  BY <1>0, <1>1, <1>5, SessionParts DEF GateInv, Bindings, At
<1>7. ASSUME NEW d \in Session PROVE BatchesOf(d)'
  <2>1. BatchesOf(d)
    BY <1>0 DEF GateInv
  <2>2. StagedPeers(d)' = StagedPeers(d) /\ {q \in StagedPeers(d) : Open(q)}' = {q \in StagedPeers(d) : Open(q)}
    BY <1>1, <1>4 DEF StagedPeers, At, Open
  <2>3. Staged(d) /\ Waits(d) => Waits(d)'
    BY <1>1, <1>4, <2>2 DEF Waits, At
  <2>4. Settled(d) => \A s \in Roster(d) : entry'[s] # NoEntry \/ gl'[s] = "gone"
    BY <1>0, <1>1, <2>1, RosterOfBatch DEF BatchesOf, Settled, Staged
  <2> QED
    BY <1>4, <2>1, <2>3, <2>4 DEF BatchesOf, Settled, Staged
<1>8. ASSUME NEW p \in Peer PROVE Hellos(p)'
  <2>1. Hellos(p)
    BY <1>0 DEF GateInv
  <2>2. conn[p].pc = "staged" => (conn[p].session \in Roster(pending[ClaimOf(conn[p].session)]))'
    <3>1. SUFFICES ASSUME At(p, "staged")
                   PROVE  conn'[p].session \in Roster(pending[ClaimOf(conn[p].session)])'
      BY DEF At
    <3>2. PICK d \in Session : d = pending[ClaimOf(conn[p].session)] /\ conn[p].session \in Roster(d)
      BY <3>1, StagedFacts
    <3>3. Roster(pending[ClaimOf(conn[p].session)])' = Roster(d)'
      BY <1>1, <3>2 DEF Roster
    <3> QED
      BY <1>1, <1>4, <3>2, <3>3
  <2> QED
    BY <1>1, <1>4, <2>1, <2>2 DEF Hellos, At, Open
<1>9. ASSUME NEW c \in Claim PROVE PendingOf(c)'
  <2>1. CASE pending[c] # NoBatch
    <3>1. PICK x \in Session : x = pending[c]
      BY <1>5, <2>1
    <3>2. Unresolved(x) /\ ClaimOf(x) = c
      BY <1>0, <2>1, <3>1 DEF GateInv, PendingOf
    <3>3. Unresolved(pending[c])' = Unresolved(x)'
      BY <1>1, <3>1 DEF Unresolved, Staged
    <3> QED
      BY <1>1, <1>4, <3>1, <3>2, <3>3 DEF PendingOf
  <2>2. CASE pending[c] = NoBatch
    BY <1>1, <2>2 DEF PendingOf
  <2> QED
    BY <2>1, <2>2
<1>10. \A m \in Player : Seated(m)'
  BY <1>0, <1>1 DEF GateInv, Seated, At
<1>11. SeatedSocketIsBound'
  BY <1>0, <1>1 DEF GateInv, SeatedSocketIsBound, Open
<1>12. ASSUME NEW c \in admitted' PROVE AdmittedOnce(c)'
  <2>1. PICK d \in Session : Settled(d) /\ ClaimOf(d) = c /\ batch[d].members = Player
    BY <1>0, <1>1 DEF GateInv, AdmittedOnce
  <2> QED
    BY <1>4, <2>1 DEF AdmittedOnce, Settled
<1> QED
  BY <1>3, <1>6, <1>7, <1>8, <1>9, <1>10, <1>11, <1>12 DEF GateInv

LEMMA AdapterKeeps ==
  ASSUME IInv, NEW b \in Session, AdapterAccepts(b) \/ AdapterRefuses(b)
  PROVE  TypeOK' /\ GateInv'
<1>0. gl \in [Session -> {"none", "RESERVED", "ACTIVE", "gone"}]
  BY DEF IInv, TypeOK
<1>1. CASE AdapterAccepts(b)
  <2>1. gl' = [s \in Session |-> IF s \in Roster(b) THEN "ACTIVE" ELSE gl[s]]
        /\ \A s \in Roster(b) : gl[s] = "RESERVED"
    BY <1>1 DEF AdapterAccepts
  <2>2. gl' \in [Session -> {"none", "RESERVED", "ACTIVE", "gone"}]
        /\ \A s \in Session : gl[s] = "gone" => gl'[s] = "gone"
    BY <1>0, <2>1
  <2>3. CallEnds(b, "accepted")
    BY <1>1, <2>2 DEF AdapterAccepts, CallEnds
  <2> QED
    BY <2>3, CallEndsKeeps
<1>2. CASE AdapterRefuses(b)
  <2>1. PICK gone, active \in SUBSET Roster(b) :
          /\ active # {} => \A s \in Roster(b) : gl[s] = "RESERVED"
          /\ gl' = [s \in Session |-> IF s \in gone THEN "gone" ELSE IF s \in active THEN "ACTIVE" ELSE gl[s]]
    BY <1>2 DEF AdapterRefuses
  <2>2. gl' \in [Session -> {"none", "RESERVED", "ACTIVE", "gone"}]
        /\ \A s \in Session : gl[s] = "gone" => gl'[s] = "gone"
    BY <1>0, <2>1
  <2>3. CallEnds(b, "refused")
    BY <1>2, <2>2 DEF AdapterRefuses, CallEnds
  <2> QED
    BY <2>3, CallEndsKeeps
<1> QED
  BY <1>1, <1>2

(* The bindings of an accepted party. *)
LEMMA CommitAcceptedKeeps ==
  ASSUME IInv, NEW b \in Session, CommitAccepted(b)
  PROVE  TypeOK' /\ GateInv'
<1> USE GateAssumption
<1>a. CASE batch[b].settled
  BY <1>a, LateAnswerGivesUp, GivesUpKeeps
<1>b. CASE ~batch[b].settled
<2>0. TypeOK /\ GateInv
  BY DEF IInv
<2>1. /\ batch[b] # NoBatch /\ batch[b].stage = "accepting" /\ batch[b].call = "accepted" /\ Unresolved(b)
      /\ AllPeersActive(b)
      /\ entry' = [s \in Session |-> IF s \in Roster(b) THEN Bound(PeerOf(s)) ELSE entry[s]]
      /\ batch' = [batch EXCEPT ![b].stage = "joining"]
      /\ UNCHANGED <<gl, failed, pending, conn, room, rec, admitted, reported>>
  BY <1>b DEF CommitAccepted, Unresolved, Staged, recVars
<2>2. /\ batch[b] \in Batches /\ b \in Roster(b) /\ pending[ClaimOf(b)] = b /\ Waits(b)
      /\ \A s \in Roster(b) : s \in Session /\ ClaimOf(s) = ClaimOf(b) /\ ClaimOf(s) \notin admitted
      /\ \A s \in Roster(b) : entry[s] = NoEntry
      /\ \A p \in Peer : At(p, "staged") /\ ClaimOf(conn[p].session) = ClaimOf(b) => conn[p].session \in Roster(b)
  BY <2>1, BatchFacts DEF Waits
<2>3. /\ batch' \in [Session -> Batches \union {NoBatch}] /\ batch'[b] # NoBatch /\ batch'[b].call = "accepted"
      /\ batch'[b].members = batch[b].members /\ ~batch'[b].settled /\ batch'[b].stage = "joining"
      /\ \A d \in Session : d # b => batch'[d] = batch[d]
  <3>1. PICK w : w = [batch[b] EXCEPT !.stage = "joining"]
    OBVIOUS
  <3>2. w \in Batches /\ w.call = "accepted" /\ w.members = batch[b].members /\ ~w.settled /\ w.stage = "joining"
    BY <2>1, <2>2, <3>1 DEF Batches, Unresolved
  <3>3. batch' = [batch EXCEPT ![b] = w]
    BY <2>1, <3>1
  <3> QED
    BY <2>0, <3>2, <3>3, NullAssumption DEF TypeOK
<2>4. ASSUME NEW s \in Roster(b)
      PROVE  /\ entry'[s] \in Entries /\ entry'[s] # NoEntry /\ ~entry'[s].removing /\ Timed(entry'[s])
             /\ entry'[s].peer \in Peer /\ At(entry'[s].peer, "staged") /\ conn[entry'[s].peer].session = s
             /\ conn[entry'[s].peer].ws # "closed"
             /\ \A p \in Peer : At(p, "staged") /\ conn[p].session = s => p = entry'[s].peer
  <3>1. PICK p \in Peer : p = PeerOf(s)
    BY <2>1, PeerOfMember
  <3>2. At(p, "staged") /\ conn[p].session = s /\ \A q \in Peer : At(q, "staged") /\ conn[q].session = s => q = p
    BY <2>1, <3>1, PeerOfMember
  <3>3. entry'[s] = Bound(p)
    BY <2>1, <2>2, <3>1
  <3>4. entry'[s] \in Entries /\ entry'[s] # NoEntry /\ ~entry'[s].removing /\ entry'[s].peer = p
        /\ entry'[s].known /\ entry'[s].timer = "none" /\ entry'[s].attempt = 0
    BY <3>3, BoundType
  <3>5. Timed(entry'[s])
    BY <3>4 DEF Timed
  <3>6. conn[p].ws # "closed"
    BY <2>0, <3>2 DEF GateInv, Hellos
  <3> QED
    BY <3>2, <3>4, <3>5, <3>6
<2>5. \A s \in Session : s \notin Roster(b) => entry'[s] = entry[s]
  BY <2>1
<2>6. TypeOK'
  <3>0. \A s \in Session : entry'[s] \in Entries \union {NoEntry}
    BY <2>0, <2>4, <2>5 DEF TypeOK
  <3>1. entry' \in [Session -> Entries \union {NoEntry}]
    BY <2>1, <3>0
  <3> QED
    BY <2>0, <2>1, <2>3, <3>1 DEF TypeOK
<2>7. \A d \in Session :
        /\ Roster(d)' = Roster(d) /\ (Settled(d)' <=> Settled(d))
        /\ (Unresolved(d)' <=> Unresolved(d)) /\ (Staged(d)' <=> Staged(d))
  BY <2>1, <2>3 DEF Roster, Settled, Unresolved, Staged
<2>8. \A d \in Session : StagedPeers(d)' = StagedPeers(d)
  BY <2>1, <2>7 DEF StagedPeers, At
<2>9. ASSUME NEW s \in Session PROVE Bindings(s)'
  <3>1. CASE s \in Roster(b)
    <4>1. pending'[ClaimOf(s)] = b
      BY <2>1, <2>2, <3>1
    <4>2. b # NoBatch
      BY NullAssumption
    <4> QED
      BY <2>1, <2>3, <2>4, <3>1, <4>1, <4>2 DEF Bindings, At
  <3>2. CASE s \notin Roster(b)
    <4>1. entry'[s] = entry[s] /\ Bindings(s)
      BY <2>0, <2>5, <3>2 DEF GateInv
    <4>2. pending[ClaimOf(s)] # NoBatch /\ batch[pending[ClaimOf(s)]].stage = "joining"
          => batch'[pending[ClaimOf(s)]].stage = "joining"
      <5>1. SUFFICES ASSUME pending[ClaimOf(s)] # NoBatch, batch[pending[ClaimOf(s)]].stage = "joining"
                     PROVE  batch'[pending[ClaimOf(s)]].stage = "joining"
        OBVIOUS
      <5>2. PICK d \in Session : d = pending[ClaimOf(s)]
        BY <2>0, <5>1, SessionParts DEF TypeOK
      <5> QED
        BY <2>1, <2>3, <5>1, <5>2
    <4> QED
      BY <2>1, <4>1, <4>2 DEF Bindings, At
  <3> QED
    BY <3>1, <3>2
<2>10. ASSUME NEW d \in Session PROVE BatchesOf(d)'
  <3>1. BatchesOf(d)
    BY <2>0 DEF GateInv
  <3>2. CASE d = b
    <4>1. \A s \in Roster(b) : \E p \in Peer : At(p, "staged")' /\ conn'[p].session = s
      BY <2>1, <2>2 DEF Waits, At
    <4>2. ASSUME NEW p \in StagedPeers(b)
          PROVE  LET e == entry'[conn[p].session] IN e # NoEntry /\ ~e.removing /\ e.peer = p
      BY <2>4, <4>2 DEF StagedPeers
    <4>3. batch'[b].members = Player
      BY <2>1, <2>2, <2>3 DEF Waits
    <4>4. \A p \in {q \in StagedPeers(b) : Open(q)}' :
            LET e == entry'[conn'[p].session] IN e # NoEntry /\ ~e.removing /\ e.peer = p
      BY <2>1, <2>8, <4>2 DEF Open
    <4>5. Waits(b)'
      BY <2>1, <2>2, <2>3, <2>7, <4>1, <4>3, <4>4 DEF Waits
    <4> QED
      BY <2>2, <2>3, <2>7, <3>2, <4>5 DEF BatchesOf
  <3>3. CASE d # b
    <4>1. batch'[d] = batch[d]
      BY <2>3, <3>3
    <4>2. Settled(d) => \A s \in Roster(d) : entry'[s] # NoEntry \/ gl'[s] = "gone"
      BY <2>0, <2>1, <2>4, <2>5, <3>1, RosterOfBatch DEF BatchesOf, Settled, Staged
    <4>3. Unresolved(d) => Waits(d)'
      <5>1. SUFFICES ASSUME Unresolved(d) PROVE Waits(d)'
        OBVIOUS
      <5>2. Waits(d) /\ pending[ClaimOf(d)] = d /\ \A s \in Roster(d) : s \in Session /\ ClaimOf(s) = ClaimOf(d)
        BY <5>1, BatchFacts
      <5>3. \A s \in Roster(d) : s \notin Roster(b)
        BY <2>2, <3>3, <5>2
      <5>4. \A s \in Roster(d) : entry'[s] = entry[s]
        BY <2>5, <5>2, <5>3
      <5>5. \A p \in {q \in StagedPeers(d) : Open(q)} : entry'[conn[p].session] = entry[conn[p].session]
        BY <5>4 DEF StagedPeers
      <5>6. {q \in StagedPeers(d) : Open(q)}' = {q \in StagedPeers(d) : Open(q)}
        BY <2>1, <2>8 DEF Open
      <5>7. \A s \in Roster(d) : \E p \in Peer : At(p, "staged")' /\ conn'[p].session = s
        BY <2>1, <5>2 DEF Waits, At
      <5>8. batch[d].stage = "joining" =>
              \A p \in {q \in StagedPeers(d) : Open(q)}' :
                LET e == entry'[conn'[p].session] IN e # NoEntry /\ ~e.removing /\ e.peer = p
        BY <2>1, <5>2, <5>5, <5>6 DEF Waits
      <5>9. batch[d].stage # "joining" => \A s \in Roster(d) : entry'[s] = NoEntry
        BY <5>2, <5>4 DEF Waits
      <5>10. pending'[ClaimOf(d)] = d /\ batch[d].stage # "over" /\ (batch[d].stage # "staging" => batch[d].members = Player)
        BY <2>1, <5>2 DEF Waits
      <5>11. Roster(d)' = Roster(d)
        BY <2>7
      <5> QED
        BY <4>1, <5>7, <5>8, <5>9, <5>10, <5>11 DEF Waits
    <4> QED
      BY <2>7, <3>1, <4>1, <4>2, <4>3 DEF BatchesOf, Settled, Unresolved, Staged
  <3> QED
    BY <3>2, <3>3
<2>11. ASSUME NEW p \in Peer PROVE Hellos(p)'
  <3>1. Hellos(p)
    BY <2>0 DEF GateInv
  <3>2. conn[p].pc = "staged" => (conn[p].session \in Roster(pending[ClaimOf(conn[p].session)]))'
    <4>1. SUFFICES ASSUME At(p, "staged")
                   PROVE  conn'[p].session \in Roster(pending[ClaimOf(conn[p].session)])'
      BY DEF At
    <4>2. PICK d \in Session : d = pending[ClaimOf(conn[p].session)] /\ conn[p].session \in Roster(d)
      BY <4>1, StagedFacts
    <4>3. Roster(pending[ClaimOf(conn[p].session)])' = Roster(d)'
      BY <2>1, <4>2 DEF Roster
    <4> QED
      BY <2>1, <2>7, <4>2, <4>3
  <3>3. conn[p].pc \in {"inspecting", "preparing"} => entry'[conn[p].session] = NoEntry
    <4>1. SUFFICES ASSUME conn[p].pc \in {"inspecting", "preparing"} PROVE entry'[conn[p].session] = NoEntry
      OBVIOUS
    <4>2. conn[p].session \in Session /\ entry[conn[p].session] = NoEntry
      BY <3>1, <4>1, HelloFacts DEF Hellos
    <4>3. conn[p].session \notin Roster(b)
      <5>1. SUFFICES ASSUME conn[p].session \in Roster(b) PROVE FALSE
        OBVIOUS
      <5>2. PICK q \in Peer : At(q, "staged") /\ conn[q].session = conn[p].session
        BY <2>2, <5>1 DEF Waits
      <5> QED
        BY <3>1, <4>1, <5>2 DEF Hellos, At, Waiting
    <4> QED
      BY <2>5, <4>2, <4>3
  <3>4. At(p, "joining") /\ Open(p) => /\ entry'[conn[p].session] # NoEntry /\ ~entry'[conn[p].session].removing
                                       /\ entry'[conn[p].session].peer = p
    <4>1. SUFFICES ASSUME At(p, "joining"), Open(p) PROVE entry'[conn[p].session] = entry[conn[p].session]
      BY <3>1 DEF Hellos
    <4>2. conn[p].session \in Session /\ ClaimOf(conn[p].session) \in admitted
      BY <3>1, <4>1 DEF Hellos, At
    <4> QED
      BY <2>2, <2>5, <4>2
  <3> QED
    BY <2>1, <2>7, <3>1, <3>2, <3>3, <3>4 DEF Hellos, At, Open
<2>12. ASSUME NEW c \in Claim PROVE PendingOf(c)'
  <3>1. CASE pending[c] # NoBatch
    <4>1. PICK x \in Session : x = pending[c]
      BY <2>0, <3>1 DEF TypeOK
    <4>2. Unresolved(x) /\ ClaimOf(x) = c
      BY <2>0, <3>1, <4>1 DEF GateInv, PendingOf
    <4>3. Unresolved(pending[c])' = Unresolved(x)'
      BY <2>1, <4>1 DEF Unresolved, Staged
    <4> QED
      BY <2>1, <2>7, <4>1, <4>2, <4>3 DEF PendingOf
  <3>2. CASE pending[c] = NoBatch
    BY <2>1, <3>2 DEF PendingOf
  <3> QED
    BY <3>1, <3>2
<2>13. \A m \in Player : Seated(m)'
  BY <2>0, <2>1 DEF GateInv, Seated, At
<2>14. SeatedSocketIsBound'
  <3>1. SUFFICES ASSUME NEW m \in Player, room[m] # NoEntry, room[m].peer # NoPeer, Open(room[m].peer)
                 PROVE  entry'[conn[room[m].peer].session] = entry[conn[room[m].peer].session]
    BY <2>0, <2>1 DEF GateInv, SeatedSocketIsBound, Open
  <3>2. conn[room[m].peer].session \in Session /\ ClaimOf(conn[room[m].peer].session) \in admitted
    BY <3>1, SeatedFacts
  <3> QED
    BY <2>2, <2>5, <3>2
<2>15. ASSUME NEW c \in admitted' PROVE AdmittedOnce(c)'
  <3>1. PICK d \in Session : Settled(d) /\ ClaimOf(d) = c /\ batch[d].members = Player
    BY <2>0, <2>1 DEF GateInv, AdmittedOnce
  <3>2. batch'[d].members = batch[d].members
    BY <2>3
  <3> QED
    BY <2>7, <3>1, <3>2 DEF AdmittedOnce
<2> QED
  BY <2>6, <2>9, <2>10, <2>11, <2>12, <2>13, <2>14, <2>15 DEF GateInv
<1> QED
  BY <1>a, <1>b

(* A step of sockets and bindings of admitted claims leaves every party alone. *)
PartiesUntouched ==
  /\ UNCHANGED <<gl, batch, pending, admitted>>
  /\ \A q \in Peer : conn[q].pc = "staged" \/ conn'[q].pc = "staged" => conn'[q] = conn[q]
  /\ \A t \in Session : entry'[t] # entry[t] => ClaimOf(t) \in admitted /\ entry'[t] # NoEntry

(* What happens to admitted players leaves the waiting parties alone.      *)
LEMMA PartiesKept ==
  ASSUME IInv, PartiesUntouched
  PROVE  /\ \A b \in Session : BatchesOf(b)'
         /\ \A c \in Claim : PendingOf(c)'
         /\ \A c \in admitted' : AdmittedOnce(c)'
         /\ \A b \in Session : Roster(b)' = Roster(b) /\ (Settled(b)' <=> Settled(b))
<1>0. TypeOK /\ GateInv
  BY DEF IInv
<1>1. UNCHANGED <<gl, batch, pending, admitted>>
  BY DEF PartiesUntouched
<1>2. \A d \in Session :
        /\ Roster(d)' = Roster(d) /\ (Settled(d)' <=> Settled(d))
        /\ (Unresolved(d)' <=> Unresolved(d)) /\ (Staged(d)' <=> Staged(d))
  BY <1>1 DEF Roster, Settled, Unresolved, Staged
<1>3. \A q \in Peer : (At(q, "staged")' <=> At(q, "staged")) /\ (At(q, "staged") => conn'[q] = conn[q])
  BY DEF PartiesUntouched, At
<1>4. ASSUME NEW b \in Session PROVE BatchesOf(b)'
  <2>1. BatchesOf(b)
    BY <1>0 DEF GateInv
  <2>2. Settled(b) => \A t \in Roster(b) : entry'[t] # NoEntry \/ gl'[t] = "gone"
    BY <1>0, <1>1, <2>1, RosterOfBatch DEF BatchesOf, Settled, Staged, PartiesUntouched
  <2>3. Unresolved(b) => Waits(b)'
    <3>1. SUFFICES ASSUME Unresolved(b) PROVE Waits(b)'
      OBVIOUS
    <3>2. Waits(b) /\ pending[ClaimOf(b)] = b
          /\ \A s \in Roster(b) : s \in Session /\ entry'[s] = entry[s]
      BY <3>1, BatchFacts DEF PartiesUntouched
    <3>3. StagedPeers(b)' = StagedPeers(b) /\ \A q \in StagedPeers(b) : conn'[q] = conn[q] /\ conn[q].session \in Roster(b)
      BY <1>2, <1>3 DEF StagedPeers
    <3>4. {q \in StagedPeers(b) : Open(q)}' = {q \in StagedPeers(b) : Open(q)}
      BY <3>3 DEF Open
    <3>5. \A s \in Roster(b) : \E p \in Peer : At(p, "staged")' /\ conn'[p].session = s
      BY <1>3, <3>2 DEF Waits
    <3>6. batch[b].stage = "joining" =>
            \A p \in {q \in StagedPeers(b) : Open(q)}' :
              LET e == entry'[conn'[p].session] IN e # NoEntry /\ ~e.removing /\ e.peer = p
      BY <3>2, <3>3, <3>4 DEF Waits
    <3>7. batch[b].stage # "joining" => \A s \in Roster(b) : entry'[s] = NoEntry
      BY <3>2 DEF Waits
    <3>8. pending'[ClaimOf(b)] = b /\ batch[b].stage # "over" /\ (batch[b].stage # "staging" => batch[b].members = Player)
      BY <1>1, <3>2 DEF Waits
    <3>9. Roster(b)' = Roster(b) /\ batch'[b] = batch[b]
      BY <1>1, <1>2
    <3> QED
      BY <3>5, <3>6, <3>7, <3>8, <3>9 DEF Waits
  <2> QED
    BY <1>1, <1>2, <2>1, <2>2, <2>3 DEF BatchesOf, Settled, Unresolved, Staged
<1>5. \A c \in Claim : PendingOf(c)'
  BY <1>0, <1>1 DEF GateInv, PendingOf, Unresolved, Staged
<1>6. \A c \in admitted' : AdmittedOnce(c)'
  BY <1>0, <1>1 DEF GateInv, AdmittedOnce, Settled, Staged
<1> QED
  BY <1>2, <1>4, <1>5, <1>6

(* A reconnected player is back in the arena. *)
LEMMA RejoinsKeeps ==
  ASSUME IInv, NEW p \in Peer, Rejoins(p)
  PROVE  TypeOK' /\ GateInv'
<1> USE GateAssumption
<1>0. TypeOK /\ GateInv /\ Hellos(p) /\ p # NoPeer
  BY DEF IInv, GateInv
<1>a. PICK s : s = conn[p].session
  OBVIOUS
<1>b. PICK m : m = PlayerOf(s)
  OBVIOUS
<1>1. /\ conn[p].pc = "joining" /\ conn[p].ws = "open"
      /\ UNCHANGED <<gl, entry, failed, batch, pending, rec, admitted, reported>>
  BY DEF Rejoins, At, Open, gateVars, batchVars, recVars
<1>2. /\ s \in Session /\ m \in Player /\ ClaimOf(s) \in Claim /\ ClaimOf(s) \in admitted
      /\ entry[s] # NoEntry /\ ~entry[s].removing /\ entry[s].peer = p
  BY <1>0, <1>1, <1>a, <1>b, SessionParts DEF Hellos, At, Open
<1>3. /\ conn' \in [Peer -> Connections] /\ conn'[p].session = s /\ conn'[p].pc = "game" /\ conn'[p].ws = "open"
      /\ \A q \in Peer : q # p => conn'[q] = conn[q]
  <2>1. PICK k : k = [conn[p] EXCEPT !.pc = "game"]
    OBVIOUS
  <2>2. k \in Connections /\ k.session = s /\ k.pc = "game" /\ k.ws = "open"
    BY <1>0, <1>1, <1>a, <2>1 DEF TypeOK, Connections
  <2>3. conn' = [conn EXCEPT ![p] = k] /\ conn \in [Peer -> Connections]
    BY <1>0, <2>1 DEF Rejoins, TypeOK
  <2> QED
    BY <2>2, <2>3
<1>4. /\ room' \in [Player -> Members \union {NoEntry}] /\ \A x \in Player : x # m => room'[x] = room[x]
      /\ room'[m] # NoEntry /\ room'[m].peer = p /\ room'[m].claim \in admitted
  <2>1. PICK c : c = IF room[m] = NoEntry THEN ClaimOf(s) ELSE room[m].claim
    OBVIOUS
  <2>2. c \in admitted /\ c \in Claim
    BY <1>0, <1>2, <2>1 DEF GateInv, Seated, TypeOK, Members
  <2>3. room' = [room EXCEPT ![m] = [claim |-> c, peer |-> p]]
    BY <1>a, <1>b, <2>1 DEF Rejoins
  <2>4. [claim |-> c, peer |-> p] \in Members
    BY <2>2 DEF Members
  <2> QED
    BY <1>0, <1>2, <2>2, <2>3, <2>4, NullAssumption DEF TypeOK
<1>5. TypeOK'
  BY <1>0, <1>1, <1>3, <1>4 DEF TypeOK
<1>6. PartiesUntouched
  BY <1>1, <1>3 DEF PartiesUntouched
<1>7. \A b \in Session : Roster(b)' = Roster(b) /\ (Settled(b)' <=> Settled(b))
  BY <1>6, PartiesKept
<1>8. ASSUME NEW t \in Session PROVE Bindings(t)'
  <2>1. Bindings(t)
    BY <1>0 DEF GateInv
  <2>2. CASE entry[t] = NoEntry
    BY <1>1, <2>2 DEF Bindings
  <2>3. CASE entry[t] # NoEntry
    <3>1. entry[t].peer \in Peer \union {NoPeer}
      BY <1>0, <2>3, EntryType DEF TypeOK
    <3>2. entry[t].peer # NoPeer => /\ conn'[entry[t].peer].session = conn[entry[t].peer].session
                                    /\ conn'[entry[t].peer].ws = conn[entry[t].peer].ws
                                    /\ conn[entry[t].peer].pc = "staged" => conn'[entry[t].peer].pc = "staged"
                                    /\ conn[entry[t].peer].pc \in {"staged", "joining", "game"} =>
                                         conn'[entry[t].peer].pc \in {"staged", "joining", "game"}
      BY <1>1, <1>3, <1>a, <3>1
    <3> QED
      BY <1>1, <2>1, <2>3, <3>2 DEF Bindings, At
  <2> QED
    BY <2>2, <2>3
<1>9. ASSUME NEW q \in Peer PROVE Hellos(q)'
  <2>1. Hellos(q)
    BY <1>0 DEF GateInv
  <2>2. CASE q = p
    <3>1. Hellos(p)'
      BY <1>1, <1>2, <1>3 DEF Hellos, At, Waiting
    <3> QED
      BY <2>2, <3>1
  <2>3. CASE q # p
    <3>1. conn'[q] = conn[q]
      BY <1>3, <2>3
    <3>2. \A r \in Peer : conn[q].pc \in Waiting /\ conn'[r].pc \in Waiting /\ conn'[r].session = conn[q].session => r = q
      BY <1>3, <2>1 DEF Hellos, Waiting
    <3>3. Roster(pending[ClaimOf(conn[q].session)])' = Roster(pending[ClaimOf(conn[q].session)])
      BY <1>1, <3>1 DEF Roster
    <3>4. \A d \in Session : conn[q].pc \in {"preparing", "staged"} /\ Settled(d)' => (conn[q].session \notin Roster(d))'
      BY <1>7, <2>1, <3>1 DEF Hellos
    <3> QED
      BY <1>1, <2>1, <3>1, <3>2, <3>3, <3>4 DEF Hellos, At, Open
  <2> QED
    BY <2>2, <2>3
<1>10. ASSUME NEW x \in Player, x # m, room[x] # NoEntry, room[x].peer # NoPeer
       PROVE  conn'[room[x].peer] = conn[room[x].peer]
  BY <1>1, <1>3, <1>10, SeatedFacts DEF At
<1>11. ASSUME NEW x \in Player PROVE Seated(x)'
  <2>1. CASE x = m
    <3>1. Seated(m)'
      BY <1>1, <1>3, <1>4, <1>b DEF Seated, At
    <3> QED
      BY <2>1, <3>1
  <2>2. CASE x # m
    BY <1>0, <1>1, <1>4, <1>10, <2>2 DEF GateInv, Seated, At
  <2> QED
    BY <2>1, <2>2
<1>12. SeatedSocketIsBound'
  <2>1. SUFFICES ASSUME NEW x \in Player, room'[x] # NoEntry, room'[x].peer # NoPeer, conn'[room'[x].peer].ws = "open"
                 PROVE  LET t == conn'[room'[x].peer].session
                        IN  /\ t # NoEntry /\ PlayerOf(t) = x
                            /\ entry[t] # NoEntry /\ ~entry[t].removing /\ entry[t].peer = room'[x].peer
    BY <1>1 DEF SeatedSocketIsBound, Open
  <2>2. CASE x = m
    <3>1. room'[x].peer = p /\ conn'[p].session = s /\ s # NoEntry
      BY <1>2, <1>3, <1>4, <2>2, NullAssumption, EntryType DEF Entries
    <3> QED
      BY <1>2, <1>b, <2>2, <3>1
  <2>3. CASE x # m
    BY <1>0, <1>4, <1>10, <2>1, <2>3 DEF GateInv, SeatedSocketIsBound, Open
  <2> QED
    BY <2>2, <2>3
<1> QED
  BY <1>5, <1>6, <1>8, <1>9, <1>11, <1>12, PartiesKept DEF GateInv

(* The close of a socket that is not staged. *)
LEMMA SocketClosesKeeps ==
  ASSUME IInv, NEW p \in Peer, SocketCloses(p), ~At(p, "staged")
  PROVE  TypeOK' /\ GateInv'
<1> USE GateAssumption
<1>0. TypeOK /\ GateInv /\ Hellos(p) /\ p # NoPeer /\ NoPeer \notin Peer
  BY DEF IInv, GateInv
<1>a. PICK s : s = conn[p].session
  OBVIOUS
<1>b. PICK E : E = IF conn[p].pc \in {"joining", "game"} THEN [entry EXCEPT ![s] = Unbind(@, p, FALSE)] ELSE entry
  OBVIOUS
<1>c. PICK C : C = [conn EXCEPT ![p].ws = "closed"]
  OBVIOUS
<1>1. /\ conn[p].ws = "closing" /\ conn[p].pc # "staged"
      /\ room' = [m \in Player |-> IF room[m] # NoEntry /\ room[m].peer = p
                                   THEN [room[m] EXCEPT !.peer = NoPeer] ELSE room[m]]
      /\ ReleaseBatches({}, {}, E, C)
      /\ UNCHANGED <<gl, failed, rec, admitted, reported>>
  BY <1>a, <1>b, <1>c DEF SocketCloses, At, recVars
<1>2. /\ C \in [Peer -> Connections] /\ C[p].session = s /\ C[p].ws = "closed" /\ C[p].pc = conn[p].pc
      /\ \A q \in Peer : q # p => C[q] = conn[q]
  <2>1. PICK k : k = [conn[p] EXCEPT !.ws = "closed"]
    OBVIOUS
  <2>2. k \in Connections /\ k.session = s /\ k.pc = conn[p].pc /\ k.ws = "closed"
    BY <1>0, <1>a, <2>1 DEF TypeOK, Connections
  <2>3. C = [conn EXCEPT ![p] = k] /\ conn \in [Peer -> Connections]
    BY <1>0, <1>c, <2>1 DEF TypeOK
  <2> QED
    BY <2>2, <2>3
<1>3. /\ E \in EntryMap /\ \A t \in Session : t # s => E[t] = entry[t]
      /\ conn[p].pc \in {"joining", "game"} => s \in Session /\ ClaimOf(s) \in admitted
      /\ \/ E = entry
         \/ /\ conn[p].pc \in {"joining", "game"}
            /\ entry[s] # NoEntry /\ ~entry[s].removing /\ entry[s].peer = p
            /\ E[s] \in Entries /\ E[s] # NoEntry /\ ~E[s].removing /\ E[s].peer = NoPeer
            /\ E[s].timer = "reconnect" /\ E[s].known = entry[s].known /\ E[s].attempt = entry[s].attempt
      /\ conn[p].pc \in {"joining", "game"} => ~(E[s] # NoEntry /\ ~E[s].removing /\ E[s].peer = p)
  <2>0. entry \in EntryMap
    BY <1>0 DEF TypeOK, EntryMap
  <2>1. CASE conn[p].pc \notin {"joining", "game"}
    BY <1>b, <2>0, <2>1
  <2>2. CASE conn[p].pc \in {"joining", "game"}
    <3>1. s \in Session /\ ClaimOf(s) \in admitted
      BY <1>0, <1>a, <2>2 DEF Hellos, At
    <3>2. E = [entry EXCEPT ![s] = Unbind(entry[s], p, FALSE)]
      BY <1>b, <2>2
    <3>3. CASE entry[s] # NoEntry /\ ~entry[s].removing /\ entry[s].peer = p
      <4>1. PICK e : e = [entry[s] EXCEPT !.peer = NoPeer, !.timer = "reconnect"]
        OBVIOUS
      <4>2. entry[s] \in Entries
        BY <2>0, <3>1, <3>3 DEF EntryMap
      <4>3. e \in Entries /\ ~e.removing /\ e.peer = NoPeer /\ e.timer = "reconnect" /\ e.known = entry[s].known
            /\ e.attempt = entry[s].attempt
        BY <3>3, <4>1, <4>2 DEF Entries
      <4>4. Unbind(entry[s], p, FALSE) = e
        BY <3>3, <4>1 DEF Unbind
      <4>5. E = [entry EXCEPT ![s] = e] /\ e # NoEntry
        BY <3>2, <4>3, <4>4, NullAssumption
      <4> QED
        BY <1>0, <2>0, <2>2, <3>1, <3>3, <4>3, <4>5 DEF EntryMap
    <3>4. CASE ~(entry[s] # NoEntry /\ ~entry[s].removing /\ entry[s].peer = p)
      <4>1. Unbind(entry[s], p, FALSE) = entry[s]
        BY <3>4 DEF Unbind
      <4>2. E = entry
        BY <2>0, <3>1, <3>2, <4>1 DEF EntryMap
      <4> QED
        BY <2>0, <2>2, <3>1, <3>4, <4>2
    <3> QED
      BY <3>3, <3>4
  <2> QED
    BY <2>1, <2>2
<1>4. batch' = batch /\ pending' = pending /\ entry' = E /\ conn' = C
  <2>1. Unsettled({}) = {} /\ UNION {StagedPeers(b) : b \in {}} = {} /\ UNION {Roster(b) : b \in {}} = {}
    BY DEF Unsettled
  <2>2. batch' = [b \in Session |-> batch[b]]
    BY <1>1, <2>1 DEF ReleaseBatches
  <2>3. pending' = [c \in Claim |-> pending[c]]
    BY <1>1, <2>1 DEF ReleaseBatches, Release, Forget
  <2>4. entry' = RetainAndRemove(E, {}) /\ conn' = RefuseAll(C, {})
    BY <1>1, <2>1 DEF ReleaseBatches, Release
  <2>5. entry' = [t \in Session |-> E[t]] /\ conn' = [q \in Peer |-> C[q]]
    BY <2>4 DEF RetainAndRemove, RefuseAll
  <2> QED
    BY <1>0, <1>2, <1>3, <2>2, <2>3, <2>5 DEF TypeOK, EntryMap
<1>5. /\ conn' \in [Peer -> Connections] /\ conn'[p].session = s /\ conn'[p].ws = "closed" /\ conn'[p].pc = conn[p].pc
      /\ \A q \in Peer : q # p => conn'[q] = conn[q]
  BY <1>2, <1>4
<1>6. ASSUME NEW m \in Player
      PROVE  /\ room'[m] \in Members \union {NoEntry}
             /\ room'[m] # NoEntry => /\ room[m] # NoEntry /\ room'[m].claim = room[m].claim
                                      /\ room'[m].peer # p
                                      /\ room'[m].peer # NoPeer => room'[m] = room[m]
  <2>1. CASE room[m] # NoEntry /\ room[m].peer = p
    <3>1. PICK r : r = [room[m] EXCEPT !.peer = NoPeer]
      OBVIOUS
    <3>2. room[m] \in Members
      BY <1>0, <2>1 DEF TypeOK
    <3>3. r \in Members /\ r.claim = room[m].claim /\ r.peer = NoPeer /\ room'[m] = r
      BY <1>1, <2>1, <3>1, <3>2 DEF Members
    <3> QED
      BY <1>0, <2>1, <3>3
  <2>2. CASE ~(room[m] # NoEntry /\ room[m].peer = p)
    BY <1>0, <1>1, <2>2 DEF TypeOK
  <2> QED
    BY <2>1, <2>2
<1>7. TypeOK'
  <2>1. room' \in [Player -> Members \union {NoEntry}]
    BY <1>1, <1>6
  <2> QED
    BY <1>0, <1>1, <1>3, <1>4, <1>5, <2>1 DEF TypeOK, EntryMap
<1>8. \A t \in Session : entry'[t] # entry[t] =>
        /\ t = s /\ ClaimOf(t) \in admitted /\ entry'[t] # NoEntry /\ entry[t] # NoEntry /\ entry[t].peer = p
  BY <1>3, <1>4
<1>9. PartiesUntouched
  BY <1>1, <1>4, <1>5, <1>8 DEF PartiesUntouched
<1>10. \A b \in Session : Roster(b)' = Roster(b) /\ (Settled(b)' <=> Settled(b))
  BY <1>9, PartiesKept
<1>11. ASSUME NEW t \in Session PROVE Bindings(t)'
  <2>1. Bindings(t)
    BY <1>0 DEF GateInv
  <2>2. CASE entry'[t] # entry[t]
    <3>1. /\ t = s /\ ClaimOf(t) \in admitted
          /\ entry'[t] # NoEntry /\ ~entry'[t].removing /\ entry'[t].peer = NoPeer
          /\ entry'[t].timer = "reconnect" /\ entry'[t].known = entry[t].known /\ entry'[t].attempt = entry[t].attempt
          /\ entry[t] # NoEntry /\ ~entry[t].removing
      BY <1>3, <1>4, <2>2
    <3>2. Timed(entry'[t])
      BY <2>1, <3>1 DEF Bindings, Timed
    <3> QED
      BY <1>1, <3>1, <3>2 DEF Bindings
  <2>3. CASE entry'[t] = entry[t] /\ entry[t] # NoEntry
    <3>1. entry[t].peer \in Peer \union {NoPeer}
      BY <1>0, <2>3, EntryType DEF TypeOK
    <3>2. entry[t].peer # NoPeer => /\ conn'[entry[t].peer].session = conn[entry[t].peer].session
                                    /\ conn'[entry[t].peer].pc = conn[entry[t].peer].pc
      BY <1>5, <1>a, <3>1
    <3>3. ~entry[t].removing => entry[t].peer # p
      <4>1. SUFFICES ASSUME ~entry[t].removing, entry[t].peer = p PROVE FALSE
        OBVIOUS
      <4>2. conn[p].session = t /\ conn[p].pc \in {"joining", "game"}
        BY <1>0, <1>1, <2>1, <2>3, <4>1 DEF Bindings
      <4> QED
        BY <1>3, <1>4, <1>a, <2>3, <4>1, <4>2
    <3>4. ~entry[t].removing /\ entry[t].peer # NoPeer => conn'[entry[t].peer] = conn[entry[t].peer]
      BY <1>5, <3>1, <3>3
    <3>5. Timed(entry'[t]) /\ admitted' = admitted /\ pending' = pending /\ batch' = batch
      BY <1>1, <1>4, <2>1, <2>3 DEF Bindings
    <3>6. entry[t].peer # NoPeer => conn'[entry[t].peer].session = t
      BY <2>1, <2>3, <3>2 DEF Bindings
    <3>7. ~entry[t].removing /\ entry[t].peer # NoPeer =>
            conn'[entry[t].peer].pc \in {"staged", "joining", "game"} /\ conn'[entry[t].peer].ws # "closed"
      BY <2>1, <2>3, <3>4 DEF Bindings
    <3>8. ~entry[t].removing => \/ ClaimOf(t) \in admitted
                                \/ /\ pending[ClaimOf(t)] # NoBatch /\ batch[pending[ClaimOf(t)]].stage = "joining"
                                   /\ entry[t].peer # NoPeer /\ conn'[entry[t].peer].pc = "staged"
      BY <2>1, <2>3, <3>2 DEF Bindings, At
    <3> QED
      BY <2>3, <3>5, <3>6, <3>7, <3>8 DEF Bindings, At
  <2>4. CASE entry'[t] = NoEntry
    BY <2>4 DEF Bindings
  <2> QED
    BY <2>2, <2>3, <2>4
<1>12. ASSUME NEW q \in Peer PROVE Hellos(q)'
  <2>1. Hellos(q) /\ conn'[q].session = conn[q].session /\ conn'[q].pc = conn[q].pc
    BY <1>0, <1>5, <1>a DEF GateInv
  <2>2. \A r \in Peer : conn'[r].session = conn[r].session /\ conn'[r].pc = conn[r].pc
    BY <1>5, <1>a
  <2>3. \A r \in Peer : conn'[q].pc \in Waiting /\ conn'[r].pc \in Waiting /\ conn'[r].session = conn'[q].session => r = q
    BY <2>1, <2>2 DEF Hellos
  <2>4. Roster(pending[ClaimOf(conn[q].session)])' = Roster(pending[ClaimOf(conn[q].session)])
    BY <1>4, <2>1 DEF Roster
  <2>5. \A d \in Session : conn[q].pc \in {"preparing", "staged"} /\ Settled(d)' => (conn[q].session \notin Roster(d))'
    BY <1>10, <2>1 DEF Hellos
  <2>6. conn'[q].pc = "staged" => conn'[q].ws # "closed"
    BY <1>1, <1>5, <2>1 DEF Hellos, At
  <2>7. conn[q].pc \in {"inspecting", "preparing"} => entry'[conn[q].session] = NoEntry
    BY <1>8, <2>1, HelloFacts DEF Hellos
  <2>8. conn'[q].pc = "joining" /\ conn'[q].ws = "open" => /\ entry'[conn[q].session] # NoEntry
          /\ ~entry'[conn[q].session].removing /\ entry'[conn[q].session].peer = q
    <3>1. SUFFICES ASSUME conn'[q].pc = "joining", conn'[q].ws = "open"
                   PROVE  entry[conn[q].session] # NoEntry /\ ~entry[conn[q].session].removing
                          /\ entry[conn[q].session].peer = q /\ entry'[conn[q].session] = entry[conn[q].session]
      OBVIOUS
    <3>2. q # p /\ conn'[q] = conn[q]
      BY <1>5, <3>1
    <3>3. conn[q].session \in Session /\ entry[conn[q].session] # NoEntry /\ ~entry[conn[q].session].removing
          /\ entry[conn[q].session].peer = q
      BY <2>1, <3>1, <3>2 DEF Hellos, At, Open
    <3> QED
      BY <1>8, <3>2, <3>3
  <2> QED
    BY <1>1, <1>4, <2>1, <2>3, <2>4, <2>5, <2>6, <2>7, <2>8 DEF Hellos, At, Open
<1>13. ASSUME NEW m \in Player, room'[m] # NoEntry, room'[m].peer # NoPeer
       PROVE  /\ room'[m] = room[m] /\ room[m].peer # p /\ conn'[room[m].peer] = conn[room[m].peer]
              /\ conn[room[m].peer].session \in Session
  <2>1. room'[m] = room[m] /\ room[m].peer # p
    BY <1>6, <1>13
  <2>2. room[m].peer \in Peer /\ conn[room[m].peer].session \in Session
    BY <1>13, <2>1, SeatedFacts
  <2> QED
    BY <1>5, <2>1, <2>2
<1>14. ASSUME NEW m \in Player PROVE Seated(m)'
  <2>1. SUFFICES ASSUME room'[m] # NoEntry
                 PROVE  /\ room'[m].claim \in admitted
                        /\ room'[m].peer # NoPeer => conn'[room'[m].peer].pc = "game"
                                                     /\ PlayerOf(conn'[room'[m].peer].session) = m
    BY <1>1 DEF Seated, At
  <2>2. room[m] # NoEntry /\ room'[m].claim = room[m].claim /\ Seated(m)
    BY <1>0, <1>6, <2>1 DEF GateInv
  <2> QED
    BY <1>13, <2>1, <2>2 DEF Seated, At
<1>15. SeatedSocketIsBound'
  <2>1. SUFFICES ASSUME NEW m \in Player, room'[m] # NoEntry, room'[m].peer # NoPeer, conn'[room'[m].peer].ws = "open"
                 PROVE  LET t == conn'[room'[m].peer].session
                        IN  /\ t # NoEntry /\ PlayerOf(t) = m
                            /\ entry'[t] # NoEntry /\ ~entry'[t].removing /\ entry'[t].peer = room'[m].peer
    BY DEF SeatedSocketIsBound, Open
  <2>2. room'[m] = room[m] /\ room[m].peer # p /\ conn'[room[m].peer] = conn[room[m].peer]
    BY <1>13, <2>1
  <2>3. PICK t \in Session : t = conn[room[m].peer].session
    BY <1>13, <2>1
  <2>4. t # NoEntry /\ PlayerOf(t) = m /\ entry[t] # NoEntry /\ ~entry[t].removing /\ entry[t].peer = room[m].peer
    BY <1>0, <2>1, <2>2, <2>3 DEF GateInv, SeatedSocketIsBound, Open
  <2>5. entry'[t] = entry[t]
    BY <1>8, <2>2, <2>4
  <2> QED
    BY <2>2, <2>3, <2>4, <2>5
<1> QED
  BY <1>7, <1>9, <1>11, <1>12, <1>14, <1>15, PartiesKept DEF GateInv

(* The whole party enters the arena.  A member the arena still has from an *)
(* earlier claim is released first, which hits every binding of its player. *)
LEMMA PartyJoinsKeeps ==
  ASSUME IInv, NEW b \in Session, PartyJoins(b)
  PROVE  TypeOK' /\ GateInv'
<1> USE GateAssumption
<1>0. TypeOK /\ GateInv /\ NoPeer \notin Peer
  BY DEF IInv
<1>t. TypeOK
  BY <1>0
<1>a. PICK c \in Claim : c = ClaimOf(b)
  BY SessionParts
<1>b. PICK R : R = {m \in batch[b].members : room[m] # NoEntry}
  OBVIOUS
<1>c. PICK C : C = [p \in Peer |-> IF p \in StagedPeers(b) THEN [conn[p] EXCEPT !.pc = "game"] ELSE conn[p]]
  OBVIOUS
<1>d. PICK Q : Q = ClosedByRelease(entry, R)
  OBVIOUS
<1>1. /\ Unresolved(b) /\ batch[b].stage = "joining" /\ AllPeersActive(b)
      /\ room' = [m \in Player |-> IF m \in batch[b].members
                                   THEN [claim |-> c, peer |-> PeerOf(<<m, c>>)] ELSE room[m]]
      /\ entry' = AfterRelease(entry, R) /\ conn' = CloseSockets(C, Q)
      /\ batch' = [batch EXCEPT ![b].settled = TRUE, ![b].stage = "over"]
      /\ pending' = [pending EXCEPT ![c] = NoBatch] /\ admitted' = admitted \union {c}
      /\ UNCHANGED <<gl, failed, rec, reported>>
  BY <1>a, <1>b, <1>c, <1>d DEF PartyJoins, MayJoin, Unresolved, Staged, recVars
<1>2. /\ batch[b] \in Batches /\ b \in Roster(b) /\ pending[c] = b /\ Waits(b) /\ batch[b].members = Player
      /\ c \notin admitted
      /\ \A s : s \in Roster(b) <=> s \in Session /\ ClaimOf(s) = c
      /\ \A p \in Peer : At(p, "staged") /\ ClaimOf(conn[p].session) = c => conn[p].session \in Roster(b)
  <2>1. batch[b] \in Batches /\ b \in Roster(b) /\ pending[ClaimOf(b)] = b /\ Waits(b)
    BY <1>1, BatchFacts
  <2>2. batch[b].members = Player
    BY <1>1, <2>1 DEF Waits
  <2>3. ClaimOf(b) \notin admitted
        /\ \A p \in Peer : At(p, "staged") /\ ClaimOf(conn[p].session) = ClaimOf(b) => conn[p].session \in Roster(b)
    BY <1>1, <2>1, BatchFacts
  <2>4. \A s : s \in Roster(b) <=> s \in Session /\ ClaimOf(s) = ClaimOf(b)
    BY <1>0, <1>1, <2>2, RosterOfBatch, SessionParts DEF Unresolved, Staged
  <2> QED
    BY <1>a, <2>1, <2>2, <2>3, <2>4
<1>3. /\ batch' \in [Session -> Batches \union {NoBatch}] /\ batch'[b] # NoBatch /\ batch'[b].settled
      /\ batch'[b].stage = "over" /\ batch'[b].members = Player
      /\ \A d \in Session : d # b => batch'[d] = batch[d]
  <2>1. PICK w : w = [batch[b] EXCEPT !.settled = TRUE, !.stage = "over"]
    OBVIOUS
  <2>2. w \in Batches /\ w.settled /\ w.stage = "over" /\ w.members = Player
    BY <1>2, <2>1 DEF Batches
  <2>3. batch' = [batch EXCEPT ![b] = w]
    BY <1>0, <1>1, <2>1 DEF TypeOK
  <2> QED
    BY <1>0, <2>2, <2>3, NullAssumption DEF TypeOK
<1>4. /\ pending' \in [Claim -> Session \union {NoBatch}] /\ pending'[c] = NoBatch
      /\ \A d \in Claim : d # c => pending'[d] = pending[d]
  BY <1>0, <1>1 DEF TypeOK
<1>5. C \in [Peer -> Connections] /\ \A p \in Peer :
        /\ C[p].session = conn[p].session /\ C[p].ws = conn[p].ws
        /\ C[p].pc = IF p \in StagedPeers(b) THEN "game" ELSE conn[p].pc
  BY <1>0, <1>c DEF TypeOK, Connections
<1>6. /\ conn' \in [Peer -> Connections]
      /\ \A p \in Peer :
           /\ conn'[p].session = conn[p].session
           /\ conn'[p].pc = IF p \in StagedPeers(b) THEN "game" ELSE conn[p].pc
           /\ conn'[p].ws = IF p \in Q THEN Close(conn[p].ws) ELSE conn[p].ws
  BY <1>1, <1>5, SocketsOf
<1>7. \A p \in Peer : /\ conn[p].ws # "closed" => conn'[p].ws # "closed"
                      /\ conn'[p].ws = "open" => conn[p].ws = "open" /\ p \notin Q
  BY <1>6 DEF Close
<1>8. /\ entry' \in EntryMap
      /\ \A s \in Session : /\ \/ entry'[s] = entry[s]
                               \/ /\ entry[s] # NoEntry /\ Removed(entry[s], entry'[s])
                                  /\ entry[s].peer # NoPeer => entry[s].peer \in Q
                            /\ entry'[s] = NoEntry <=> entry[s] = NoEntry
  <2>1. TimedMap(entry') /\ \A s \in Session : IF s \in Hit(entry, R) THEN Removed(entry[s], entry'[s])
                                              ELSE entry'[s] = entry[s]
    BY <1>1, EntryFacts, ReleaseOf
  <2>2. \A s \in Hit(entry, R) : entry[s] # NoEntry /\ (entry[s].peer # NoPeer => entry[s].peer \in Q)
    BY <1>d DEF Hit, Matches, ClosedByRelease
  <2> QED
    BY <2>1, <2>2 DEF TimedMap, Removed
<1>9. ASSUME NEW s \in Roster(b)
      PROVE  /\ PeerOf(s) \in StagedPeers(b) /\ PeerOf(s) \in Peer /\ conn[PeerOf(s)].session = s /\ s \in Session
             /\ conn[PeerOf(s)].ws = "open"
             /\ entry[s] # NoEntry /\ ~entry[s].removing /\ entry[s].peer = PeerOf(s)
  <2>1. PICK p \in Peer : p = PeerOf(s) /\ At(p, "staged") /\ conn[p].session = s
    BY <1>1, PeerOfMember
  <2>2. p \in StagedPeers(b) /\ Open(p)
    BY <1>1, <2>1 DEF StagedPeers, AllPeersActive
  <2>3. entry[s] # NoEntry /\ ~entry[s].removing /\ entry[s].peer = p
    BY <1>1, <1>2, <2>1, <2>2 DEF Waits
  <2> QED
    BY <1>2, <2>1, <2>2, <2>3 DEF Open
<1>10. ASSUME NEW m \in Player
       PROVE  /\ <<m, c>> \in Roster(b) /\ room'[m] # NoEntry /\ room'[m] \in Members
              /\ room'[m].claim = c /\ room'[m].peer = PeerOf(<<m, c>>)
  <2>1. <<m, c>> \in Roster(b)
    BY <1>2, SessionParts
  <2>2. PICK p \in Peer : p = PeerOf(<<m, c>>)
    BY <1>9, <2>1
  <2>3. room'[m] = [claim |-> c, peer |-> p]
    BY <1>1, <1>2, <2>2
  <2>4. room'[m] \in Members
    BY <2>3 DEF Members
  <2> QED
    BY <2>1, <2>2, <2>3, <2>4, NullAssumption
<1>11. TypeOK'
  <2>1. room' \in [Player -> Members \union {NoEntry}]
    BY <1>1, <1>10
  <2>2. admitted' \subseteq Claim /\ reported' \subseteq Session /\ failed' \subseteq Session /\ gl' = gl /\ rec' = rec
    BY <1>0, <1>1 DEF TypeOK
  <2>3. batch' \in [Session -> Batches \union {NoBatch}] /\ pending' \in [Claim -> Session \union {NoBatch}]
        /\ conn' \in [Peer -> Connections] /\ entry' \in [Session -> Entries \union {NoEntry}]
    BY <1>3, <1>4, <1>6, <1>8 DEF EntryMap
  <2> QED
    BY ONLY <1>t, <2>1, <2>2, <2>3 DEF TypeOK
<1>12. \A d \in Session :
        /\ Roster(d)' = Roster(d)
        /\ d # b => (Settled(d)' <=> Settled(d)) /\ (Unresolved(d)' <=> Unresolved(d)) /\ (Staged(d)' <=> Staged(d))
  <2>1. Roster(b)' = Roster(b)
    BY <1>2, <1>3 DEF Roster
  <2> QED
    BY <1>3, <2>1 DEF Roster, Settled, Unresolved, Staged
<1>13. Settled(b)' /\ ~Unresolved(b)' /\ ~Settled(b)
  BY <1>1, <1>3 DEF Settled, Unresolved, Staged
<1>14. ASSUME NEW d \in Session, Unresolved(d), d # b
       PROVE  ClaimOf(d) # c /\ pending'[ClaimOf(d)] = d
  BY <1>2, <1>4, <1>14, BatchFacts, SessionParts
<1>15. ASSUME NEW s \in Session PROVE Bindings(s)'
  <2>1. Bindings(s)
    BY <1>0 DEF GateInv
  <2>2. CASE entry'[s] # entry[s]
    <3>1. entry[s] # NoEntry /\ Removed(entry[s], entry'[s])
      BY <1>8, <2>2
    <3>2. entry'[s] # NoEntry /\ entry'[s].removing /\ Timed(entry'[s]) /\ (entry'[s].peer # NoPeer => entry'[s].peer = entry[s].peer)
      BY <3>1 DEF Removed
    <3>3. entry[s].peer \in Peer \union {NoPeer}
      BY <1>0, <3>1, EntryType DEF TypeOK
    <3>4. entry'[s].peer # NoPeer => conn'[entry'[s].peer].session = s
      BY <1>6, <2>1, <3>1, <3>2, <3>3 DEF Bindings
    <3> QED
      BY <3>2, <3>4 DEF Bindings
  <2>3. CASE entry'[s] = entry[s] /\ entry[s] # NoEntry
    <3>1. entry[s].peer \in Peer \union {NoPeer}
      BY <1>0, <2>3, EntryType DEF TypeOK
    <3>2. Timed(entry'[s]) /\ (entry[s].peer # NoPeer => conn'[entry[s].peer].session = s)
      BY <1>6, <2>1, <2>3, <3>1 DEF Bindings
    <3>3. ~entry[s].removing /\ entry[s].peer # NoPeer =>
            conn'[entry[s].peer].pc \in {"staged", "joining", "game"} /\ conn'[entry[s].peer].ws # "closed"
      BY <1>6, <1>7, <2>1, <2>3, <3>1 DEF Bindings
    <3>4. ASSUME ~entry[s].removing, ClaimOf(s) \notin admitted'
          PROVE  /\ pending'[ClaimOf(s)] # NoBatch /\ batch'[pending'[ClaimOf(s)]].stage = "joining"
                 /\ entry[s].peer # NoPeer /\ conn'[entry[s].peer].pc = "staged"
      <4>1. ClaimOf(s) # c /\ pending[ClaimOf(s)] # NoBatch /\ batch[pending[ClaimOf(s)]].stage = "joining"
            /\ entry[s].peer # NoPeer /\ conn[entry[s].peer].pc = "staged" /\ ClaimOf(s) \in Claim
            /\ conn[entry[s].peer].session = s
        BY <1>1, <2>1, <2>3, <3>4, SessionParts DEF Bindings, At
      <4>2. PICK d \in Session : d = pending[ClaimOf(s)]
        BY <1>0, <4>1 DEF TypeOK
      <4>3. d # b /\ pending'[ClaimOf(s)] = d
        BY <1>0, <1>4, <1>a, <4>1, <4>2 DEF GateInv, PendingOf
      <4>4. entry[s].peer \notin StagedPeers(b)
        BY <1>2, <4>1 DEF StagedPeers
      <4> QED
        BY <1>3, <1>6, <3>1, <4>1, <4>2, <4>3, <4>4
    <3> QED
      BY <2>3, <3>2, <3>3, <3>4 DEF Bindings, At
  <2>4. CASE entry'[s] = NoEntry
    BY <2>4 DEF Bindings
  <2> QED
    BY <2>2, <2>3, <2>4
<1>16. ASSUME NEW d \in Session PROVE BatchesOf(d)'
  <2>1. BatchesOf(d)
    BY <1>0 DEF GateInv
  <2>2. CASE d = b
    <3>1. \A s \in Roster(b) : entry'[s] # NoEntry
      BY <1>2, <1>8, <1>9
    <3> QED
      BY <1>2, <1>3, <1>12, <2>2, <3>1 DEF BatchesOf
  <2>3. CASE d # b
    <3>1. batch'[d] = batch[d] /\ Roster(d)' = Roster(d)
      BY <1>3, <1>12, <2>3
    <3>2. Settled(d) => \A s \in Roster(d) : entry'[s] # NoEntry \/ gl'[s] = "gone"
      BY <1>0, <1>1, <1>8, <2>1, RosterOfBatch DEF BatchesOf, Settled, Staged
    <3>3. Unresolved(d) => Waits(d)'
      <4>1. SUFFICES ASSUME Unresolved(d) PROVE Waits(d)'
        OBVIOUS
      <4>2. Waits(d) /\ ClaimOf(d) # c /\ pending'[ClaimOf(d)] = d
            /\ \A s \in Roster(d) : s \in Session /\ ClaimOf(s) = ClaimOf(d)
        BY <1>14, <2>3, <4>1, BatchFacts
      <4>3. \A p \in Peer : conn[p].session \in Roster(d) => conn'[p].pc = conn[p].pc
        BY <1>2, <1>6, <4>2 DEF StagedPeers
      <4>4. \A s \in Roster(d) : \E p \in Peer : At(p, "staged")' /\ conn'[p].session = s
        BY <1>6, <4>2, <4>3 DEF Waits, At
      <4>5. batch[d].stage # "joining" => \A s \in Roster(d) : entry'[s] = NoEntry
        BY <1>8, <4>2 DEF Waits
      <4>6. ASSUME batch[d].stage = "joining", NEW p \in Peer, p \in StagedPeers(d)', conn'[p].ws = "open"
            PROVE  LET e == entry'[conn'[p].session] IN e # NoEntry /\ ~e.removing /\ e.peer = p
        <5>1. At(p, "staged") /\ conn'[p].session = conn[p].session /\ conn[p].session \in Roster(d)
          BY <1>6, <3>1, <4>3, <4>6 DEF StagedPeers, At
        <5>2. p \in StagedPeers(d) /\ Open(p) /\ p \notin Q /\ p # NoPeer
          BY <1>0, <1>7, <4>6, <5>1 DEF StagedPeers, Open
        <5>3. LET e == entry[conn[p].session] IN e # NoEntry /\ ~e.removing /\ e.peer = p
          BY <4>2, <4>6, <5>2 DEF Waits
        <5>4. entry'[conn[p].session] = entry[conn[p].session]
          BY <1>8, <4>2, <5>1, <5>2, <5>3
        <5> QED
          BY <5>1, <5>3, <5>4
      <4>7. batch[d].stage = "joining" =>
              \A p \in {q \in StagedPeers(d) : Open(q)}' :
                LET e == entry'[conn'[p].session] IN e # NoEntry /\ ~e.removing /\ e.peer = p
        BY <4>6 DEF StagedPeers, Open
      <4>8. batch[d].stage # "over" /\ (batch[d].stage # "staging" => batch[d].members = Player)
        BY <4>2 DEF Waits
      <4>9. pending'[ClaimOf(d)] = d
        BY <4>2
      <4> QED
        BY <3>1, <4>4, <4>5, <4>7, <4>8, <4>9 DEF Waits
    <3> QED
      BY <1>12, <2>1, <2>3, <3>1, <3>2, <3>3 DEF BatchesOf, Settled, Unresolved, Staged
  <2> QED
    BY <2>2, <2>3
<1>17. ASSUME NEW q \in Peer PROVE Hellos(q)'
  <2>1. Hellos(q) /\ conn'[q].session = conn[q].session
    BY <1>0, <1>6 DEF GateInv
  <2>2. \A r \in Peer : conn'[r].session = conn[r].session /\ (conn'[r].pc \in Waiting => conn[r].pc \in Waiting)
    BY <1>6 DEF Waiting
  <2>3. \A r \in Peer : conn'[q].pc \in Waiting /\ conn'[r].pc \in Waiting /\ conn'[r].session = conn'[q].session => r = q
    BY <2>1, <2>2 DEF Hellos
  <2>4. conn'[q].pc \in {"inspecting", "preparing"} => entry'[conn'[q].session] = NoEntry
    <3>1. SUFFICES ASSUME conn[q].pc \in {"inspecting", "preparing"} PROVE entry'[conn[q].session] = NoEntry
      BY <1>6, <2>1
    <3>2. conn[q].session \in Session /\ entry[conn[q].session] = NoEntry
      BY <2>1, <3>1, HelloFacts DEF Hellos
    <3> QED
      BY <1>8, <3>2
  <2>5. ASSUME NEW d \in Session, conn'[q].pc \in {"preparing", "staged"}, Settled(d)'
        PROVE  conn'[q].session \notin Roster(d)'
    <3>1. conn[q].pc \in {"preparing", "staged"} /\ conn'[q].pc = conn[q].pc
      BY <1>6, <2>5
    <3>2. CASE d = b
      <4>1. conn[q].session \notin Roster(b)
        <5>1. CASE conn[q].pc = "preparing"
          BY <1>1, <5>1, PreparingFacts DEF At
        <5>2. CASE conn[q].pc = "staged"
          <6>1. q \notin StagedPeers(b)
            BY <1>6, <3>1, <5>2
          <6> QED
            BY <5>2, <6>1 DEF StagedPeers, At
        <5> QED
          BY <3>1, <5>1, <5>2
      <4> QED
        BY <1>12, <2>1, <3>2, <4>1
    <3>3. CASE d # b
      BY <1>12, <2>1, <2>5, <3>1, <3>3 DEF Hellos
    <3> QED
      BY <3>2, <3>3
  <2>6. conn'[q].pc = "staged" => /\ conn'[q].ws # "closed" /\ pending'[ClaimOf(conn'[q].session)] # NoBatch
                                  /\ conn'[q].session \in Roster(pending[ClaimOf(conn[q].session)])'
    <3>1. SUFFICES ASSUME conn'[q].pc = "staged"
                   PROVE  /\ conn'[q].ws # "closed" /\ pending'[ClaimOf(conn'[q].session)] # NoBatch
                          /\ conn'[q].session \in Roster(pending[ClaimOf(conn[q].session)])'
      OBVIOUS
    <3>2. At(q, "staged") /\ q \notin StagedPeers(b)
      BY <1>6, <3>1 DEF At
    <3>3. PICK t \in Session : t = conn[q].session
      BY <3>2, HelloFacts DEF At
    <3>4. PICK d \in Session : Unresolved(d) /\ d = pending[ClaimOf(t)] /\ t \in Roster(d)
      BY <3>2, <3>3, StagedFacts
    <3>5. d # b /\ ClaimOf(t) # c
      BY <1>2, <3>2, <3>3, <3>4 DEF StagedPeers
    <3>6. pending'[ClaimOf(t)] = d /\ t \in Roster(d)'
      BY <1>4, <1>12, <3>4, <3>5, SessionParts
    <3>7. Roster(pending[ClaimOf(conn[q].session)])' = Roster(d)'
      BY <2>1, <3>3, <3>6 DEF Roster
    <3>8. conn'[q].ws # "closed"
      BY <1>7, <2>1, <3>2 DEF Hellos
    <3> QED
      BY <2>1, <3>3, <3>6, <3>7, <3>8, NullAssumption
  <2>7. conn'[q].pc \in {"joining", "game"} => ClaimOf(conn'[q].session) \in admitted'
    <3>1. CASE q \in StagedPeers(b)
      BY <1>1, <1>2, <2>1, <3>1 DEF StagedPeers
    <3>2. CASE q \notin StagedPeers(b)
      BY <1>1, <1>6, <2>1, <3>2 DEF Hellos
    <3> QED
      BY <3>1, <3>2
  <2>8. ASSUME conn'[q].pc = "joining", conn'[q].ws = "open"
        PROVE  /\ entry'[conn'[q].session] # NoEntry
               /\ ~entry'[conn'[q].session].removing /\ entry'[conn'[q].session].peer = q
    <3>1. At(q, "joining") /\ Open(q) /\ q \notin Q /\ q # NoPeer
      BY <1>0, <1>6, <1>7, <2>8 DEF At, Open
    <3>2. entry[conn[q].session] # NoEntry /\ ~entry[conn[q].session].removing /\ entry[conn[q].session].peer = q
          /\ conn[q].session \in Session
      BY <2>1, <3>1 DEF Hellos, At
    <3>3. entry'[conn[q].session] = entry[conn[q].session]
      BY <1>8, <3>1, <3>2
    <3> QED
      BY <2>1, <3>2, <3>3
  <2>9. IF conn'[q].pc = "idle" THEN conn'[q].session = NoEntry ELSE conn'[q].session \in Session
    BY <1>2, <1>6, <2>1 DEF Hellos, At, StagedPeers
  <2>10. \A d \in Session : conn'[q].pc \in {"preparing", "staged"} /\ Settled(d)' => (conn[q].session \notin Roster(d))'
    BY <2>5
  <2> QED
    BY <2>3, <2>4, <2>10, <2>6, <2>7, <2>8, <2>9 DEF Hellos, At, Open
<1>18. ASSUME NEW d \in Claim PROVE PendingOf(d)'
  <2>1. CASE d = c
    BY <1>4, <2>1 DEF PendingOf
  <2>2. CASE d # c /\ pending[d] # NoBatch
    <3>1. PICK x \in Session : x = pending[d]
      BY <1>0, <2>2 DEF TypeOK
    <3>2. ClaimOf(x) = d /\ Unresolved(x) /\ x # b
      BY <1>0, <1>a, <2>2, <3>1 DEF GateInv, PendingOf
    <3>3. pending'[d] = x
      BY <1>4, <2>2, <3>1
    <3>4. Unresolved(pending[d])' = Unresolved(x)'
      BY <3>3 DEF Unresolved, Staged
    <3> QED
      BY <1>12, <3>2, <3>3, <3>4 DEF PendingOf
  <2>3. CASE d # c /\ pending[d] = NoBatch
    BY <1>4, <2>3 DEF PendingOf
  <2> QED
    BY <2>1, <2>2, <2>3
<1>19. ASSUME NEW m \in Player
       PROVE  \E p \in Peer : /\ room'[m].peer = p /\ conn'[p].pc = "game" /\ conn'[p].session = <<m, c>>
                              /\ <<m, c>> \in Session /\ entry[<<m, c>>] # NoEntry /\ ~entry[<<m, c>>].removing
                              /\ entry[<<m, c>>].peer = p
  <2>1. PICK s \in Roster(b) : s = <<m, c>>
    BY <1>10
  <2>2. PICK p \in Peer : p = PeerOf(s)
    BY <1>9, <2>1
  <2>3. /\ p \in StagedPeers(b) /\ conn[p].session = s /\ s \in Session
        /\ entry[s] # NoEntry /\ ~entry[s].removing /\ entry[s].peer = p
    BY <1>9, <2>1, <2>2
  <2>4. room'[m].peer = p
    BY <1>10, <2>1, <2>2
  <2> QED
    BY <1>6, <2>1, <2>3, <2>4
<1>20. ASSUME NEW m \in Player PROVE Seated(m)'
  <2>1. PICK p \in Peer : room'[m].peer = p /\ conn'[p].pc = "game" /\ conn'[p].session = <<m, c>>
    BY <1>19
  <2>2. PlayerOf(<<m, c>>) = m
    BY SessionParts
  <2>3. room'[m].claim \in admitted'
    BY <1>1, <1>10
  <2> QED
    BY <2>1, <2>2, <2>3 DEF Seated, At
<1>21. SeatedSocketIsBound'
  <2>1. SUFFICES ASSUME NEW m \in Player, room'[m] # NoEntry, room'[m].peer # NoPeer, conn'[room'[m].peer].ws = "open"
                 PROVE  LET t == conn'[room'[m].peer].session
                        IN  /\ t # NoEntry /\ PlayerOf(t) = m
                            /\ entry'[t] # NoEntry /\ ~entry'[t].removing /\ entry'[t].peer = room'[m].peer
    BY DEF SeatedSocketIsBound, Open
  <2>2. PICK p \in Peer : /\ room'[m].peer = p /\ conn'[p].pc = "game" /\ conn'[p].session = <<m, c>>
                          /\ <<m, c>> \in Session /\ entry[<<m, c>>] # NoEntry /\ ~entry[<<m, c>>].removing
                          /\ entry[<<m, c>>].peer = p
    BY <1>19
  <2>3. p \notin Q /\ p # NoPeer
    BY <1>0, <1>7, <2>1, <2>2
  <2>4. entry'[<<m, c>>] = entry[<<m, c>>]
    BY <1>8, <2>2, <2>3
  <2>5. PlayerOf(<<m, c>>) = m /\ <<m, c>> # NoEntry
    BY <2>2, SessionParts, NullAssumption
  <2> QED
    BY <2>2, <2>4, <2>5
<1>22. ASSUME NEW d \in admitted' PROVE AdmittedOnce(d)'
  <2>1. CASE d = c
    BY <1>3, <1>13, <1>a, <2>1 DEF AdmittedOnce
  <2>2. CASE d \in admitted
    <3>1. PICK x \in Session : Settled(x) /\ ClaimOf(x) = d /\ batch[x].members = Player
      BY <1>0, <2>2 DEF GateInv, AdmittedOnce
    <3>2. x # b
      BY <1>13, <3>1
    <3> QED
      BY <1>3, <1>12, <3>1, <3>2 DEF AdmittedOnce
  <2> QED
    BY <1>1, <2>1, <2>2
<1> QED
  BY <1>11, <1>15, <1>16, <1>17, <1>18, <1>20, <1>21, <1>22 DEF GateInv

-----------------------------------------------------------------------------
(* The invariant holds in every reachable state. *)

(* The steps that bring a player or a party further. *)
Advances ==
  \/ \E p \in Peer : \/ \E s \in Session : Hello(p, s)
                     \/ InspectReturns(p) \/ Stages(p) \/ StagesLast(p) \/ Rejoins(p)
                     \/ SocketCloses(p) /\ ~At(p, "staged")
  \/ \E b \in Session : AdapterAccepts(b) \/ AdapterRefuses(b) \/ CommitAccepted(b) \/ PartyJoins(b)

(* Every other step gives up. *)
LEMMA StepKinds ==
  ASSUME IInv, [Next]_vars
  PROVE  (TypeOK' /\ GivesUp) \/ Advances
<1>1. CASE UNCHANGED vars \/ \E c \in Claim : CreateSessions(c)
  BY <1>1, QuietSteps
<1>2. ASSUME NEW s \in Session, ReservationExpires(s) \/ Removal(s)
      PROVE  TypeOK' /\ GivesUp
  BY <1>2, QuietSteps, RemovalSteps DEF Removal
<1>3. ASSUME NEW p \in Peer, Handshake(p)
      PROVE  (TypeOK' /\ GivesUp) \/ Advances
  BY <1>3, PrepareFailsGivesUp, StagedCloseGivesUp, RejoinFailsGivesUp, QuietSteps DEF Handshake, Advances
<1>4. ASSUME NEW b \in Session, Commit(b)
      PROVE  (TypeOK' /\ GivesUp) \/ Advances
  BY <1>4, BatchTimeoutGivesUp, JoinRefusedGivesUp, CommitFailsGivesUp, CommitMissesMemberGivesUp,
     DeliveryFailsGivesUp DEF Commit, Advances
<1>5. CASE Arena
  BY <1>5, QuietSteps, RoomReleasesGivesUp DEF Arena
<1>6. CASE Reconcile
  BY <1>6, QuietSteps, VerifySucceedsGivesUp, DrainedGivesUp DEF Reconcile
<1> QED
  BY <1>1, <1>2, <1>3, <1>4, <1>5, <1>6 DEF Next

(* Every advancing step keeps the invariant.                               *)
LEMMA AdvancesKeeps ==
  ASSUME IInv, Advances
  PROVE  TypeOK' /\ GateInv'
<1>1. ASSUME NEW p \in Peer,
             \/ \E s \in Session : Hello(p, s)
             \/ InspectReturns(p) \/ Stages(p) \/ StagesLast(p) \/ Rejoins(p)
             \/ SocketCloses(p) /\ ~At(p, "staged")
      PROVE  TypeOK' /\ GateInv'
  BY <1>1, HelloKeeps, InspectReturnsKeeps, StagesKeeps, RejoinsKeeps, SocketClosesKeeps
<1>2. ASSUME NEW b \in Session, AdapterAccepts(b) \/ AdapterRefuses(b) \/ CommitAccepted(b) \/ PartyJoins(b)
      PROVE  TypeOK' /\ GateInv'
  BY <1>2, AdapterKeeps, CommitAcceptedKeeps, PartyJoinsKeeps
<1> QED
  BY <1>1, <1>2 DEF Advances

(* The invariant is inductive.                                             *)
LEMMA InitIInv == Init => IInv
<1> SUFFICES ASSUME Init PROVE IInv
  OBVIOUS
<1>1. 1 \in Claim
  BY GateAssumption DEF Claim
<1>2. TypeOK
  BY <1>1 DEF Init, TypeOK, Connections
<1>3. \A s \in Session : Bindings(s) /\ BatchesOf(s)
  BY DEF Init, Bindings, BatchesOf, Staged
<1>4. \A p \in Peer : Hellos(p)
  BY DEF Init, Hellos, At, Waiting
<1>5. \A c \in Claim : PendingOf(c)
  BY DEF Init, PendingOf
<1>6. (\A m \in Player : Seated(m)) /\ SeatedSocketIsBound
  BY DEF Init, Seated, SeatedSocketIsBound
<1>7. \A c \in admitted : AdmittedOnce(c)
  BY DEF Init
<1> QED
  BY <1>2, <1>3, <1>4, <1>5, <1>6, <1>7 DEF IInv, GateInv

LEMMA NextIInv == IInv /\ [Next]_vars => IInv'
<1> SUFFICES ASSUME IInv, [Next]_vars PROVE IInv'
  OBVIOUS
<1>1. CASE TypeOK' /\ GivesUp
  BY <1>1, GivesUpKeeps DEF IInv
<1>2. CASE Advances
  BY <1>2, AdvancesKeeps DEF IInv
<1> QED
  BY <1>1, <1>2, StepKinds

(* In every reachable state of every server the inductive invariant holds. *)
THEOREM Invariance == Spec => []IInv
BY InitIInv, NextIInv, PTL DEF Spec

(* Bindings, batches, sockets and members have the types of the code.      *)
THEOREM TypeCorrect == Spec => []TypeOK
BY Invariance, PTL DEF IInv

(* Whoever sits in the arena on an open socket said hello there with a     *)
(* session of its own, bound to that socket and not being removed.         *)
THEOREM SeatsAreBound == Spec => []SeatedSocketIsBound
BY Invariance, PTL DEF IInv, GateInv

(***************************************************************************)
(* What the door promises across steps, from the invariant above: no slot  *)
(* GameLift counts as playing is ever without an owner here, a party       *)
(* enters the arena whole or not at all (the door implements PartySeats),  *)
(* and a party that has been seated is bound.                              *)
(*                                                                         *)
(* Two facts about single steps carry the first two.  A session that has   *)
(* been given up before its claim's admission stays given up               *)
(* (StaysUndone), so a dissolved claim is never admitted; and a session    *)
(* that is playing keeps its binding, or the answer it waits for           *)
(* (StaysOwned).                                                           *)
(***************************************************************************)

(* No step takes back what a claim's dissolution or a session's owner rests *)
(* on.  Undone: the session is what dissolves its claim.  Owned: a session  *)
(* that is playing has a binding or an answer on its way.                   *)
Undone(s) ==
  \/ entry[s] # NoEntry /\ entry[s].removing
  \/ gl[s] = "gone" /\ entry[s] = NoEntry /\ ~Held(s)

Accepting(b, s) == Staged(b) /\ s \in Roster(b) /\ batch[b].stage = "accepting"

Owned(s) == gl[s] = "ACTIVE" => entry[s] # NoEntry \/ \E b \in Session : Accepting(b, s)

StaysUndone == \A s \in Session : ClaimOf(s) \notin admitted /\ Undone(s) => Undone(s)'
StaysOwned == (\A s \in Session : Owned(s)) => \A s \in Session : Owned(s)'

(* Giving up takes nothing back.                                           *)
LEMMA GivesUpConsistent ==
  ASSUME IInv, TypeOK', GivesUp
  PROVE  StaysUndone /\ StaysOwned
<1>0. TypeOK /\ GateInv
  BY DEF IInv
<1>1. \A p \in Peer : /\ conn'[p].session = conn[p].session
                      /\ conn'[p].pc \in {"preparing", "staged"} => conn'[p].pc = conn[p].pc
  <2>1. \A p \in Peer : Withdraws(p)
    BY DEF GivesUp
  <2> QED
    BY <2>1 DEF Withdraws
<1>2. ASSUME NEW s \in Session, NEW p \in Peer, conn'[p].session = s, conn'[p].pc = "staged"
      PROVE  \A b \in Session : b = pending'[ClaimOf(s)] =>
               /\ b = pending[ClaimOf(s)] /\ conn[p].pc = "staged" /\ conn[p].session = s
               /\ s \in Roster(b) /\ Unresolved(b) /\ batch'[b] = batch[b]
  <2>1. SUFFICES ASSUME NEW b \in Session, b = pending'[ClaimOf(s)]
                 PROVE  /\ b = pending[ClaimOf(s)] /\ conn[p].pc = "staged" /\ conn[p].session = s
                        /\ s \in Roster(b) /\ Unresolved(b) /\ batch'[b] = batch[b]
    OBVIOUS
  <2>2. b # NoBatch /\ ClaimOf(s) \in Claim /\ conn[p].pc = "staged" /\ conn[p].session = s
    BY <1>1, <1>2, SessionParts, NullAssumption
  <2>3. pending'[ClaimOf(s)] = pending[ClaimOf(s)]
    BY <2>1, <2>2 DEF GivesUp
  <2>4. Unresolved(b) /\ s \in Roster(b) /\ ClaimOf(b) = ClaimOf(s)
    BY <1>0, <2>1, <2>2, <2>3 DEF GateInv, PendingOf, Hellos, At
  <2>5. ~Retires(b)
    BY <2>1, <2>4 DEF Retires
  <2> QED
    BY <2>1, <2>2, <2>3, <2>4, <2>5 DEF GivesUp
<1>3. ASSUME NEW s \in Session, Held(s)'
      PROVE  Held(s)
  <2>1. PICK p \in Peer :
          /\ conn'[p].session = s
          /\ \/ conn'[p].pc = "preparing"
             \/ /\ conn'[p].pc = "staged" /\ pending'[ClaimOf(s)] # NoBatch
                /\ batch'[pending'[ClaimOf(s)]].stage # "joining"
    BY <1>3 DEF Held, At
  <2>2. CASE conn'[p].pc = "preparing"
    BY <1>1, <2>1, <2>2 DEF Held, At
  <2>3. CASE conn'[p].pc = "staged"
    <3>1. pending'[ClaimOf(s)] \in Session
      BY <2>1, <2>3, SessionParts DEF TypeOK
    <3>2. PICK b \in Session : b = pending'[ClaimOf(s)]
      BY <3>1
    <3>3. /\ b = pending[ClaimOf(s)] /\ conn[p].pc = "staged" /\ conn[p].session = s /\ batch'[b] = batch[b]
      BY <1>2, <2>1, <2>3, <3>2
    <3>4. batch[b].stage # "joining" /\ b # NoBatch
      BY <2>1, <2>3, <3>2, <3>3, NullAssumption
    <3> QED
      BY <3>3, <3>4 DEF Held, At
  <2> QED
    BY <2>1, <2>2, <2>3
<1>4. ASSUME NEW s \in Session, Undone(s)
      PROVE  Undone(s)'
  <2>1. CASE entry[s] # NoEntry /\ entry[s].removing
    <3>1. CASE entry'[s] = entry[s] \/ Quits(s)
      BY <2>1, <3>1 DEF Undone, Quits
    <3>2. CASE Ends(s)
      <4>1. ~Held(s)'
        <5>1. SUFFICES ASSUME Held(s)' PROVE FALSE
          OBVIOUS
        <5>2. Held(s)
          BY <1>3, <5>1
        <5>3. PICK p \in Peer :
                /\ conn[p].session = s
                /\ \/ conn[p].pc = "preparing"
                   \/ /\ conn[p].pc = "staged" /\ pending[ClaimOf(s)] # NoBatch
                      /\ batch[pending[ClaimOf(s)]].stage # "joining"
          BY <5>2 DEF Held, At
        <5>4. conn[p].pc # "preparing"
          BY <1>0, <2>1, <5>3 DEF GateInv, Hellos
        <5>5. PICK b \in Session : Unresolved(b) /\ b = pending[ClaimOf(s)] /\ s \in Roster(b)
          BY <5>3, <5>4, StagedFacts DEF At
        <5>6. entry[s] = NoEntry
          BY <5>3, <5>4, <5>5, BatchFacts DEF Waits
        <5> QED
          BY <2>1, <5>6
      <4> QED
        BY <3>2, <4>1 DEF Ends, Undone
    <3> QED
      BY <3>1, <3>2 DEF GivesUp
  <2>2. CASE gl[s] = "gone" /\ entry[s] = NoEntry /\ ~Held(s)
    <3>1. gl'[s] = "gone" /\ ~Held(s)'
      BY <1>3, <2>2 DEF GivesUp, GameLiftMoves
    <3>2. entry'[s] = NoEntry \/ (entry'[s] # NoEntry /\ entry'[s].removing)
      BY <2>2 DEF GivesUp, Quits, Ends
    <3> QED
      BY <3>1, <3>2 DEF Undone
  <2> QED
    BY <1>4, <2>1, <2>2 DEF Undone
<1>5. ASSUME NEW s \in Session, Owned(s)
      PROVE  Owned(s)'
  <2>1. SUFFICES ASSUME gl'[s] = "ACTIVE"
                 PROVE  entry'[s] # NoEntry \/ \E b \in Session : Accepting(b, s)'
    BY DEF Owned
  <2>2. gl[s] = "ACTIVE"
    BY <2>1 DEF GivesUp, GameLiftMoves
  <2>3. CASE entry[s] # NoEntry
    BY <2>1, <2>3 DEF GivesUp, Quits, Ends
  <2>4. CASE \E b \in Session : Accepting(b, s)
    <3>1. PICK b \in Session : Staged(b) /\ s \in Roster(b) /\ batch[b].stage = "accepting"
      BY <2>4 DEF Accepting
    <3>2. CASE batch'[b] = batch[b]
      BY <3>1, <3>2 DEF Accepting, Staged, Roster
    <3>3. CASE Retires(b)
      <4>1. (s \in Roster(b))'
        BY <3>1, <3>3 DEF Retires, Roster
      <4> QED
        BY <2>1, <3>3, <4>1 DEF Retires
    <3> QED
      BY <3>2, <3>3 DEF GivesUp
  <2> QED
    BY <1>5, <2>2, <2>3, <2>4 DEF Owned
<1> QED
  BY <1>4, <1>5 DEF StaysUndone, StaysOwned

(* Steps of sockets and parties that remove no binding and give no session *)
(* up.  A session comes to be held only while GameLift has it reserved.    *)
Careful ==
  /\ \A s \in Session : entry[s] # NoEntry /\ ClaimOf(s) \notin admitted =>
       entry'[s] # NoEntry /\ (entry[s].removing => entry'[s].removing)
  /\ \A s \in Session : gl[s] = "gone" /\ entry[s] = NoEntry /\ ~Held(s) /\ ClaimOf(s) \notin admitted =>
       gl'[s] = "gone" /\ entry'[s] = NoEntry /\ ~Held(s)'

LEMMA CarefulSteps == Careful => StaysUndone
BY DEF Careful, StaysUndone, Undone

-----------------------------------------------------------------------------
(* The steps that bring a player or a party further.                       *)

(* Steps that change no batch and no session of GameLift.                  *)
LEMMA Unaffected ==
  ASSUME IInv, UNCHANGED <<gl, batch, pending>>,
         \A p \in Peer : conn'[p].pc \in {"preparing", "staged"} =>
           \/ conn'[p].pc = conn[p].pc /\ conn'[p].session = conn[p].session
           \/ conn'[p].pc = "preparing" /\ gl[conn'[p].session] = "RESERVED",
         \A s \in Session : /\ entry'[s] = NoEntry <=> entry[s] = NoEntry
                            /\ entry[s] # NoEntry /\ entry[s].removing => entry'[s].removing
  PROVE  StaysUndone /\ StaysOwned
<1>1. ASSUME NEW s \in Session, Held(s)', gl[s] # "RESERVED"
      PROVE  Held(s)
  <2>1. PICK p \in Peer :
          /\ conn'[p].session = s
          /\ \/ conn'[p].pc = "preparing"
             \/ /\ conn'[p].pc = "staged" /\ pending'[ClaimOf(s)] # NoBatch
                /\ batch'[pending'[ClaimOf(s)]].stage # "joining"
    BY <1>1 DEF Held, At
  <2>2. conn'[p].pc = conn[p].pc /\ conn[p].session = s
    BY <1>1, <2>1
  <2> QED
    BY <2>1, <2>2 DEF Held, At
<1>2. Careful
  BY <1>1 DEF Careful
<1>3. \A s, b \in Session : Accepting(b, s) => Accepting(b, s)'
  BY DEF Accepting, Staged, Roster
<1>4. \A s \in Session : Owned(s) => Owned(s)'
  BY <1>3 DEF Owned
<1> QED
  BY <1>2, <1>4, CarefulSteps DEF StaysOwned

(* The adapter answers: what it accepts is bound or still awaited.         *)
LEMMA AnswersConsistent ==
  ASSUME IInv, NEW b \in Session, AdapterAccepts(b) \/ AdapterRefuses(b)
  PROVE  StaysUndone /\ StaysOwned
<1>0. TypeOK /\ GateInv
  BY DEF IInv
<1>1. UNCHANGED <<entry, pending, conn>> /\ batch[b] # NoBatch /\ batch[b].call = "sent"
  BY DEF AdapterAccepts, AdapterRefuses, gateVars
<1>2. /\ \A s \in Session : gl[s] = "gone" => gl'[s] = "gone"
      /\ \A s \in Session : gl'[s] = "ACTIVE" => gl[s] = "ACTIVE" \/ (s \in Roster(b) /\ gl[s] = "RESERVED")
  <2>0. gl \in [Session -> {"none", "RESERVED", "ACTIVE", "gone"}]
    BY <1>0 DEF TypeOK
  <2>1. CASE AdapterAccepts(b)
    <3>1. gl' = [s \in Session |-> IF s \in Roster(b) THEN "ACTIVE" ELSE gl[s]]
          /\ \A s \in Roster(b) : gl[s] = "RESERVED"
      BY <2>1 DEF AdapterAccepts
    <3> QED
      BY <2>0, <3>1
  <2>2. CASE AdapterRefuses(b)
    <3>1. PICK gone, active \in SUBSET Roster(b) :
            /\ active # {} => \A s \in Roster(b) : gl[s] = "RESERVED"
            /\ gl' = [s \in Session |-> IF s \in gone THEN "gone" ELSE IF s \in active THEN "ACTIVE" ELSE gl[s]]
      BY <2>2 DEF AdapterRefuses
    <3> QED
      BY <2>0, <3>1
  <2> QED
    BY <2>1, <2>2
<1>3. \A d \in Session : /\ Staged(d)' <=> Staged(d)
                         /\ Staged(d) => batch'[d].members = batch[d].members /\ batch'[d].stage = batch[d].stage
  <2>1. PICK r \in {"accepted", "refused"} : batch' = [batch EXCEPT ![b].call = r]
    BY DEF AdapterAccepts, AdapterRefuses
  <2>2. PICK w : w = [batch[b] EXCEPT !.call = r]
    OBVIOUS
  <2>3. batch[b] \in Batches
    BY <1>0, <1>1 DEF TypeOK
  <2>4. w \in Batches /\ w.members = batch[b].members /\ w.stage = batch[b].stage
    BY <2>2, <2>3 DEF Batches
  <2>5. batch' = [batch EXCEPT ![b] = w]
    BY <2>1, <2>2
  <2> QED
    BY <1>0, <1>1, <2>4, <2>5, NullAssumption DEF TypeOK, Staged
<1>4. ASSUME NEW s \in Session, Held(s)'
      PROVE  Held(s)
  <2>1. PICK p \in Peer :
          /\ conn[p].session = s
          /\ \/ conn[p].pc = "preparing"
             \/ /\ conn[p].pc = "staged" /\ pending[ClaimOf(s)] # NoBatch
                /\ batch'[pending[ClaimOf(s)]].stage # "joining"
    BY <1>1, <1>4 DEF Held, At
  <2>2. CASE conn[p].pc = "staged"
    <3>1. PICK d \in Session : Unresolved(d) /\ d = pending[ClaimOf(s)]
      BY <2>1, <2>2, StagedFacts DEF At
    <3>2. batch[d].stage # "joining"
      BY <1>3, <2>1, <2>2, <3>1 DEF Unresolved
    <3> QED
      BY <2>1, <2>2, <3>1, <3>2 DEF Held, At
  <2> QED
    BY <2>1, <2>2 DEF Held, At
<1>5. Careful
  BY <1>1, <1>2, <1>4 DEF Careful
<1>6. \A s, d \in Session : Accepting(d, s) => Accepting(d, s)'
  BY <1>3 DEF Accepting, Roster
<1>7. ASSUME NEW s \in Session, s \in Roster(b), gl[s] = "RESERVED", gl'[s] = "ACTIVE"
      PROVE  entry'[s] # NoEntry \/ Accepting(b, s)'
  <2>1. batch[b].stage \in {"accepting", "over"} /\ BatchesOf(b) /\ Staged(b)
    BY <1>0, <1>1 DEF GateInv, BatchesOf, Staged
  <2>2. CASE batch[b].stage = "accepting"
    BY <1>6, <1>7, <2>1, <2>2 DEF Accepting
  <2>3. CASE batch[b].stage = "over"
    <3>1. batch[b].settled
      BY <2>1, <2>3 DEF BatchesOf, Waits
    <3>2. entry[s] # NoEntry
      BY <1>7, <2>1, <3>1 DEF BatchesOf
    <3> QED
      BY <1>1, <3>2
  <2> QED
    BY <2>1, <2>2, <2>3
<1>8. \A s \in Session : Owned(s) => Owned(s)'
  BY <1>1, <1>2, <1>6, <1>7 DEF Owned
<1> QED
  BY <1>5, <1>8, CarefulSteps DEF StaysOwned

(* The steps of a socket.                                                  *)
LEMMA HelloConsistent ==
  ASSUME IInv, NEW p \in Peer, NEW s \in Session, Hello(p, s)
  PROVE  StaysUndone /\ StaysOwned
<1>0. conn \in [Peer -> Connections] /\ entry \in [Session -> Entries \union {NoEntry}]
  BY DEF IInv, TypeOK
<1>1. UNCHANGED <<gl, batch, pending>>
  BY DEF Hello, batchVars
<1>2. \A q \in Peer : q # p => conn'[q] = conn[q]
  BY <1>0 DEF Hello, Refuse
<1>3. conn'[p].pc \notin {"preparing", "staged"}
  <2>1. CASE Refuse(p, s)
    <3>1. conn'[p] = Refused(conn[p], s)
      BY <1>0, <2>1 DEF Refuse
    <3> QED
      BY <1>0, <3>1, RefusedSocket
  <2>2. ASSUME NEW a \in {"inspecting", "joining"}, conn' = [conn EXCEPT ![p] = [@ EXCEPT !.session = s, !.pc = a]]
        PROVE  conn'[p].pc = a
    <3>1. PICK k : k = [conn[p] EXCEPT !.session = s, !.pc = a]
      OBVIOUS
    <3>2. k.pc = a
      BY <1>0, <3>1 DEF Connections
    <3>3. conn' = [conn EXCEPT ![p] = k]
      BY <2>2, <3>1
    <3> QED
      BY <1>0, <3>2, <3>3
  <2> QED
    BY <2>1, <2>2 DEF Hello
<1>4. \A t \in Session : /\ entry'[t] = NoEntry <=> entry[t] = NoEntry
                         /\ entry[t] # NoEntry /\ entry[t].removing => entry'[t].removing
  <2>1. CASE UNCHANGED entry
    BY <2>1
  <2>2. CASE entry[s] # NoEntry /\ entry' = [entry EXCEPT ![s] = [@ EXCEPT !.peer = p, !.timer = "none"]]
    <3>1. PICK e : e = [entry[s] EXCEPT !.peer = p, !.timer = "none"]
      OBVIOUS
    <3>2. entry[s] \in Entries
      BY <1>0, <2>2
    <3>3. e \in Entries /\ e.removing = entry[s].removing
      BY <3>1, <3>2 DEF Entries
    <3>4. entry' = [entry EXCEPT ![s] = e] /\ e # NoEntry
      BY <2>2, <3>1, <3>3, NullAssumption
    <3> QED
      BY <1>0, <2>2, <3>3, <3>4
  <2> QED
    BY <2>1, <2>2 DEF Hello
<1> QED
  BY <1>1, <1>2, <1>3, <1>4, Unaffected

LEMMA InspectionConsistent ==
  ASSUME IInv, NEW p \in Peer, InspectReturns(p)
  PROVE  StaysUndone /\ StaysOwned
<1>0. PICK s : s = conn[p].session
  OBVIOUS
<1>1. At(p, "inspecting") /\ UNCHANGED <<gl, failed, batchVars, room, recVars, admitted>>
  BY DEF InspectReturns
<1>2. conn \in [Peer -> Connections]
  BY DEF IInv, TypeOK
<1>3. CASE gl[s] = "RESERVED" /\ UNCHANGED entry /\ conn' = [conn EXCEPT ![p].pc = "preparing"]
  <2>1. PICK k : k = [conn[p] EXCEPT !.pc = "preparing"]
    OBVIOUS
  <2>2. k.session = s /\ k.pc = "preparing"
    BY <1>0, <1>2, <2>1 DEF Connections
  <2>3. conn' = [conn EXCEPT ![p] = k]
    BY <1>3, <2>1
  <2>4. conn'[p] = k /\ \A q \in Peer : q # p => conn'[q] = conn[q]
    BY <1>2, <2>3
  <2> QED
    BY <1>1, <1>3, <2>2, <2>4, Unaffected DEF batchVars
<1>4. CASE Refuse(p, s) /\ \/ UNCHANGED entry
                           \/ entry' = [entry EXCEPT ![s] =
                                StartRemoval(IF @ = NoEntry THEN [Bound(NoPeer) EXCEPT !.known = FALSE] ELSE @)]
  BY <1>0, <1>1, <1>4, InspectionRefused, GivesUpConsistent
<1> QED
  BY <1>0, <1>1, <1>3, <1>4 DEF InspectReturns

LEMMA RejoinConsistent ==
  ASSUME IInv, NEW p \in Peer, Rejoins(p)
  PROVE  StaysUndone /\ StaysOwned
<1>0. conn \in [Peer -> Connections]
  BY DEF IInv, TypeOK
<1>1. UNCHANGED <<gl, batch, pending, entry>> /\ conn' = [conn EXCEPT ![p].pc = "game"]
  BY DEF Rejoins, gateVars, batchVars
<1>2. \A q \in Peer : conn'[q].pc \in {"preparing", "staged"} => conn'[q] = conn[q]
  <2>1. PICK k : k = [conn[p] EXCEPT !.pc = "game"]
    OBVIOUS
  <2>2. k.pc = "game" /\ conn' = [conn EXCEPT ![p] = k]
    BY <1>0, <1>1, <2>1 DEF Connections
  <2> QED
    BY <1>0, <2>2
<1> QED
  BY <1>1, <1>2, Unaffected

(* The close of a socket whose party is not waiting. *)
LEMMA CloseOfUnstaged ==
  ASSUME IInv, NEW p \in Peer, SocketCloses(p), ~At(p, "staged")
  PROVE  /\ UNCHANGED <<gl, batch, pending, admitted>>
         /\ \A q \in Peer : conn'[q].pc = conn[q].pc /\ conn'[q].session = conn[q].session
         /\ \A s \in Session : /\ entry'[s] = NoEntry <=> entry[s] = NoEntry
                               /\ entry[s] # NoEntry /\ entry[s].removing => entry'[s].removing
         /\ \A m \in Player : room'[m] # NoEntry => room[m] # NoEntry /\ room'[m].claim = room[m].claim
<1>0. TypeOK
  BY DEF IInv
<1>a. PICK s : s = conn[p].session
  OBVIOUS
<1>b. PICK E : E = IF conn[p].pc \in {"joining", "game"} THEN [entry EXCEPT ![s] = Unbind(@, p, FALSE)] ELSE entry
  OBVIOUS
<1>c. PICK C : C = [conn EXCEPT ![p].ws = "closed"]
  OBVIOUS
<1>1. /\ room' = [m \in Player |-> IF room[m] # NoEntry /\ room[m].peer = p
                                   THEN [room[m] EXCEPT !.peer = NoPeer] ELSE room[m]]
      /\ ReleaseBatches({}, {}, E, C)
      /\ UNCHANGED <<gl, admitted>>
  BY <1>a, <1>b, <1>c DEF SocketCloses, At
<1>2. C \in [Peer -> Connections] /\ \A q \in Peer : C[q].pc = conn[q].pc /\ C[q].session = conn[q].session
  <2>1. PICK k : k = [conn[p] EXCEPT !.ws = "closed"]
    OBVIOUS
  <2>2. k \in Connections /\ k.session = conn[p].session /\ k.pc = conn[p].pc
    BY <1>0, <2>1 DEF TypeOK, Connections
  <2>3. C = [conn EXCEPT ![p] = k] /\ conn \in [Peer -> Connections]
    BY <1>0, <1>c, <2>1 DEF TypeOK
  <2> QED
    BY <2>2, <2>3
<1>3. /\ E \in [Session -> Entries \union {NoEntry}]
      /\ \A t \in Session : /\ E[t] = NoEntry <=> entry[t] = NoEntry
                            /\ entry[t] # NoEntry /\ entry[t].removing => E[t].removing
  <2>1. entry \in [Session -> Entries \union {NoEntry}]
    BY <1>0 DEF TypeOK
  <2>2. CASE s \notin Session
    <3>1. \A e : [entry EXCEPT ![s] = e] = entry
      BY <2>1, <2>2
    <3> QED
      BY <1>b, <2>1, <3>1
  <2>3. CASE s \in Session
    <3>1. PICK u : u = Unbind(entry[s], p, FALSE)
      OBVIOUS
    <3>2. /\ u \in Entries \union {NoEntry} /\ (u = NoEntry <=> entry[s] = NoEntry)
          /\ entry[s] # NoEntry /\ entry[s].removing => u.removing
      <4>1. CASE entry[s] = NoEntry \/ entry[s].peer # p \/ entry[s].removing
        BY <2>1, <2>3, <3>1, <4>1 DEF Unbind
      <4>2. CASE entry[s] # NoEntry /\ entry[s].peer = p /\ ~entry[s].removing
        <5>1. entry[s] \in Entries /\ u = [entry[s] EXCEPT !.peer = NoPeer, !.timer = "reconnect"]
          BY <2>1, <2>3, <3>1, <4>2 DEF Unbind
        <5>2. u \in Entries
          BY <5>1 DEF Entries
        <5> QED
          BY <4>2, <5>2, NullAssumption
      <4> QED
        BY <4>1, <4>2
    <3>3. E = entry \/ E = [entry EXCEPT ![s] = u]
      BY <1>b, <3>1
    <3> QED
      BY <2>1, <2>3, <3>2, <3>3
  <2> QED
    BY <2>2, <2>3
<1>4. batch' = batch /\ pending' = pending /\ entry' = E /\ conn' = C
  <2>1. Unsettled({}) = {} /\ UNION {StagedPeers(b) : b \in {}} = {} /\ UNION {Roster(b) : b \in {}} = {}
    BY DEF Unsettled
  <2>2. batch' = [b \in Session |-> batch[b]]
    BY <1>1, <2>1 DEF ReleaseBatches
  <2>3. pending' = [c \in Claim |-> pending[c]]
    BY <1>1, <2>1 DEF ReleaseBatches, Release, Forget
  <2>4. entry' = RetainAndRemove(E, {}) /\ conn' = RefuseAll(C, {})
    BY <1>1, <2>1 DEF ReleaseBatches, Release
  <2>5. entry' = [t \in Session |-> E[t]] /\ conn' = [q \in Peer |-> C[q]]
    BY <2>4 DEF RetainAndRemove, RefuseAll
  <2> QED
    BY <1>0, <1>2, <1>3, <2>2, <2>3, <2>5 DEF TypeOK
<1>5. \A m \in Player : room'[m] # NoEntry => room[m] # NoEntry /\ room'[m].claim = room[m].claim
  <2>1. ASSUME NEW m \in Player, room[m] # NoEntry
        PROVE  [room[m] EXCEPT !.peer = NoPeer].claim = room[m].claim
    BY <1>0, <2>1 DEF TypeOK, Members
  <2> QED
    BY <1>1, <2>1
<1> QED
  BY <1>1, <1>2, <1>3, <1>4, <1>5

(* A member that is being prepared is in no full party. *)
LEMMA EnteredParty ==
  ASSUME IInv, NEW p \in Peer, NEW s, NEW b, NEW w, EntersParty(p, s, b, w)
  PROVE  /\ s \in Session /\ b \in Session /\ s = conn[p].session /\ ClaimOf(b) = ClaimOf(s)
         /\ \/ Unresolved(b) /\ pending[ClaimOf(s)] = b /\ batch[b].stage = "staging"
            \/ ~Staged(b) /\ pending[ClaimOf(s)] = NoBatch
<1>0. TypeOK /\ GateInv /\ Hellos(p) /\ s = conn[p].session /\ conn[p].pc = "preparing"
  BY DEF IInv, GateInv, EntersParty, At
<1>1. s \in Session /\ ClaimOf(s) \in Claim /\ PlayerOf(s) \in Player /\ entry[s] = NoEntry
  BY <1>0, HelloFacts DEF Hellos
<1>2. CASE pending[ClaimOf(s)] = NoBatch
  <2>1. b = s
    BY <1>2 DEF EntersParty
  <2>2. ~Unresolved(s)
    BY <1>1, <1>2, BatchFacts, NullAssumption
  <2>3. ~Settled(s)
    BY <1>0, <1>1 DEF GateInv, BatchesOf, Settled, Hellos
  <2> QED
    BY <1>0, <1>1, <1>2, <2>1, <2>2, <2>3 DEF Settled, Unresolved
<1>3. CASE pending[ClaimOf(s)] # NoBatch
  <2>1. PICK d \in Session : d = pending[ClaimOf(s)]
    BY <1>0, <1>1, <1>3 DEF TypeOK
  <2>2. b = d /\ Unresolved(d) /\ ClaimOf(d) = ClaimOf(s)
    BY <1>0, <1>1, <1>3, <2>1 DEF EntersParty, GateInv, PendingOf
  <2>3. batch[d] \in Batches /\ Waits(d) /\ batch[d].stage \in {"staging", "accepting", "joining", "over"}
    BY <2>2, BatchFacts DEF Batches
  <2>4. s \notin Roster(d)
    BY <1>0, <2>2, PreparingFacts DEF At
  <2>5. batch[d].members # Player
    BY <1>0, <1>1, <2>2, <2>4, RosterOfBatch DEF Unresolved, Staged
  <2> QED
    BY <1>0, <1>1, <2>1, <2>2, <2>3, <2>5 DEF Waits
<1> QED
  BY <1>2, <1>3

(* A member that enters a party holds its session on.                      *)
LEMMA EntersPartyConsistent ==
  ASSUME IInv, NEW p \in Peer, NEW s, NEW b, NEW w, EntersParty(p, s, b, w)
  PROVE  StaysUndone /\ StaysOwned
<1>0. TypeOK /\ GateInv
  BY DEF IInv
<1>1. /\ UNCHANGED <<gl, entry>> /\ conn[p].pc = "preparing" /\ conn[p].session = s
      /\ batch' = [batch EXCEPT ![b] = w] /\ pending' = [pending EXCEPT ![ClaimOf(s)] = b]
      /\ conn' = [conn EXCEPT ![p].pc = "staged"]
  BY DEF EntersParty, At
<1>2. /\ s \in Session /\ b \in Session /\ ClaimOf(b) = ClaimOf(s) /\ ClaimOf(s) \in Claim
      /\ \/ Unresolved(b) /\ pending[ClaimOf(s)] = b /\ batch[b].stage = "staging"
         \/ ~Staged(b) /\ pending[ClaimOf(s)] = NoBatch
  BY EnteredParty, SessionParts
<1>3. /\ \A d \in Session : d # b => batch'[d] = batch[d]
      /\ \A c \in Claim : c # ClaimOf(s) => pending'[c] = pending[c]
      /\ \A q \in Peer : q # p => conn'[q] = conn[q]
      /\ conn'[p].session = s
  <2>1. PICK k : k = [conn[p] EXCEPT !.pc = "staged"]
    OBVIOUS
  <2>2. k.session = s /\ conn' = [conn EXCEPT ![p] = k]
    BY <1>0, <1>1, <2>1 DEF TypeOK, Connections
  <2> QED
    BY <1>0, <1>1, <2>2 DEF TypeOK
<1>4. ASSUME NEW t \in Session, Held(t)'
      PROVE  Held(t)
  <2>1. PICK q \in Peer :
          /\ conn'[q].session = t
          /\ \/ conn'[q].pc = "preparing"
             \/ /\ conn'[q].pc = "staged" /\ pending'[ClaimOf(t)] # NoBatch
                /\ batch'[pending'[ClaimOf(t)]].stage # "joining"
    BY <1>4 DEF Held, At
  <2>2. CASE q = p
    BY <1>1, <1>3, <2>1, <2>2 DEF Held, At
  <2>3. CASE q # p /\ conn'[q].pc = "preparing"
    BY <1>3, <2>1, <2>3 DEF Held, At
  <2>4. CASE q # p /\ conn'[q].pc = "staged"
    <3>1. At(q, "staged") /\ conn[q].session = t
      BY <1>3, <2>1, <2>4 DEF At
    <3>2. PICK d \in Session : Unresolved(d) /\ d = pending[ClaimOf(t)] /\ ClaimOf(t) \in Claim /\ d # NoBatch
                               /\ ClaimOf(d) = ClaimOf(t)
      <4>1. PICK d \in Session : Unresolved(d) /\ d = pending[ClaimOf(t)]
        BY <3>1, StagedFacts
      <4> QED
        BY <1>0, <4>1, SessionParts, NullAssumption DEF GateInv, PendingOf
    <3>3. CASE d = b
      <4>1. batch[d].stage # "joining"
        BY <1>2, <3>2, <3>3 DEF Unresolved
      <4> QED
        BY <3>1, <3>2, <4>1 DEF Held
    <3>4. CASE d # b
      <4>1. ClaimOf(t) # ClaimOf(s)
        BY <1>2, <3>2, <3>4
      <4>2. batch[d].stage # "joining"
        BY <1>3, <2>1, <2>4, <3>2, <3>4, <4>1
      <4> QED
        BY <3>1, <3>2, <4>2 DEF Held
    <3> QED
      BY <3>3, <3>4
  <2> QED
    BY <2>1, <2>2, <2>3, <2>4
<1>5. Careful
  BY <1>1, <1>4 DEF Careful
<1>6. \A d, t \in Session : Accepting(d, t) => Accepting(d, t)'
  <2>2. \A d, t \in Session : Accepting(d, t) => d # b
    BY <1>2 DEF Accepting
  <2> QED
    BY <1>3, <2>2 DEF Accepting, Staged, Roster
<1>7. \A t \in Session : Owned(t) => Owned(t)'
  BY <1>1, <1>6 DEF Owned
<1> QED
  BY <1>5, <1>7, CarefulSteps DEF StaysOwned

LEMMA StagesConsistent ==
  ASSUME IInv, NEW p \in Peer, Stages(p) \/ StagesLast(p)
  PROVE  /\ StaysUndone /\ StaysOwned /\ UNCHANGED admitted
         /\ \A m \in Player : room'[m] = room[m] \/ room'[m] = NoEntry
<1>0. PICK s : s = conn[p].session
  OBVIOUS
<1>1. At(p, "preparing") /\ StagedWith(p) \in SUBSET Player
  <2>1. At(p, "preparing")
    BY DEF Stages, StagesLast
  <2> QED
    BY <1>0, <2>1, PartyOf
<1>2. PICK b : b = IF pending[ClaimOf(s)] = NoBatch THEN s ELSE pending[ClaimOf(s)]
  OBVIOUS
<1>3. CASE StagesLast(p) /\ pending[ClaimOf(s)] # NoBatch /\ StagesLate(p)
  <2>1. TypeOK' /\ GivesUp
    BY <1>0, <1>3, StagesLateGivesUp
  <2> QED
    BY <2>1, GivesUpConsistent DEF GivesUp
<1>4. ASSUME NEW w, EntersParty(p, s, b, w)
      PROVE  /\ StaysUndone /\ StaysOwned /\ UNCHANGED admitted
             /\ \A m \in Player : room'[m] = room[m] \/ room'[m] = NoEntry
  BY <1>4, EntersPartyConsistent DEF EntersParty
<1>5. CASE Stages(p)
  <2>1. PICK w : w = [members |-> StagedWith(p), settled |-> FALSE, stage |-> "staging", call |-> "none"]
    OBVIOUS
  <2>2. w \in Batches
    BY <1>1, <2>1 DEF Batches
  <2>3. EntersParty(p, s, b, w)
    BY <1>0, <1>2, <1>5, <2>1, <2>2 DEF Stages, EntersParty, gateVars
  <2> QED
    BY <1>4, <2>3
<1>6. CASE StagesLast(p) /\ ~(pending[ClaimOf(s)] # NoBatch /\ StagesLate(p))
  <2>1. PICK w : w = [members |-> StagedWith(p), settled |-> FALSE, stage |-> "accepting", call |-> "sent"]
    OBVIOUS
  <2>2. w \in Batches /\ StagedWith(p) = Player /\ Open(p)
    BY <1>1, <1>6, <2>1 DEF Batches, StagesLast, Complete
  <2>3. \A q \in (IF pending[ClaimOf(s)] = NoBatch THEN {} ELSE StagedPeers(b)) : Open(q)
    BY <1>0, <1>2, <1>6 DEF StagesLate
  <2>4. /\ batch' = [batch EXCEPT ![b] = w] /\ pending' = [pending EXCEPT ![ClaimOf(s)] = b]
        /\ conn' = [conn EXCEPT ![p].pc = "staged"] /\ UNCHANGED <<entry, room, gl, failed, recVars, admitted>>
    BY <1>0, <1>2, <1>6, <2>1, <2>3 DEF StagesLast
  <2>5. EntersParty(p, s, b, w)
    BY <1>0, <1>1, <1>2, <2>1, <2>2, <2>4 DEF EntersParty
  <2> QED
    BY <1>4, <2>5
<1> QED
  BY <1>3, <1>5, <1>6

(* The bindings of a party take over what its staged members held.         *)
LEMMA CommitConsistent ==
  ASSUME IInv, NEW b \in Session, CommitAccepted(b)
  PROVE  StaysUndone /\ StaysOwned
<1>a. CASE batch[b].settled
  BY <1>a, LateAnswerGivesUp, GivesUpConsistent
<1>b. CASE ~batch[b].settled
  <2>1. /\ Unresolved(b) /\ batch[b].stage = "accepting"
        /\ entry' = [s \in Session |-> IF s \in Roster(b) THEN Bound(PeerOf(s)) ELSE entry[s]]
        /\ batch' = [batch EXCEPT ![b].stage = "joining"]
        /\ UNCHANGED <<gl, pending, conn>>
    BY <1>b DEF CommitAccepted, Unresolved, Staged
  <2>2. /\ pending[ClaimOf(b)] = b /\ b # NoBatch
        /\ \A s \in Roster(b) : s \in Session /\ ClaimOf(s) = ClaimOf(b)
    BY <2>1, BatchFacts, NullAssumption
  <2>3. ASSUME NEW s \in Session, s \in Roster(b)
        PROVE  entry'[s] # NoEntry /\ Held(s) /\ entry[s] = NoEntry
    <3>1. PICK p \in Peer : p = PeerOf(s) /\ At(p, "staged") /\ conn[p].session = s
      BY <2>1, <2>3, PeerOfMember
    <3>2. entry'[s] # NoEntry
      BY <2>1, <2>3, <3>1, BoundType
    <3>3. entry[s] = NoEntry
      BY <2>1, <2>3, BatchFacts DEF Waits
    <3> QED
      BY <2>1, <2>2, <2>3, <3>1, <3>2, <3>3 DEF Held
  <2>4. \A s \in Session : s \notin Roster(b) => entry'[s] = entry[s]
    BY <2>1
  <2>5. /\ \A d \in Session : d # b => batch'[d] = batch[d]
        /\ batch'[b].stage = "joining"
    <3>1. PICK w : w = [batch[b] EXCEPT !.stage = "joining"]
      OBVIOUS
    <3>2. w.stage = "joining" /\ batch' = [batch EXCEPT ![b] = w]
      BY <2>1, <3>1, BatchFacts DEF Batches
    <3> QED
      BY <3>2 DEF IInv, TypeOK
  <2>6. ASSUME NEW s \in Session, Held(s)'
        PROVE  Held(s)
    <3>1. PICK p \in Peer :
            /\ conn[p].session = s
            /\ \/ conn[p].pc = "preparing"
               \/ /\ conn[p].pc = "staged" /\ pending[ClaimOf(s)] # NoBatch
                  /\ batch'[pending[ClaimOf(s)]].stage # "joining"
      BY <2>1, <2>6 DEF Held, At
    <3>2. CASE conn[p].pc = "staged"
      <4>1. PICK d \in Session : d = pending[ClaimOf(s)]
        BY <3>1, <3>2, StagedFacts DEF At
      <4>2. batch[d].stage # "joining"
        BY <2>5, <3>1, <3>2, <4>1
      <4> QED
        BY <3>1, <3>2, <4>1, <4>2 DEF Held, At
    <3> QED
      BY <3>1, <3>2 DEF Held, At
  <2>7. Careful
    <3>1. ASSUME NEW s \in Session, entry[s] # NoEntry
          PROVE  entry'[s] = entry[s]
      BY <2>3, <2>4, <3>1
    <3>2. ASSUME NEW s \in Session, gl[s] = "gone", entry[s] = NoEntry, ~Held(s)
          PROVE  gl'[s] = "gone" /\ entry'[s] = NoEntry /\ ~Held(s)'
      BY <2>1, <2>3, <2>4, <2>6, <3>2
    <3> QED
      BY <3>1, <3>2 DEF Careful
  <2>8. ASSUME NEW s \in Session, Owned(s)
        PROVE  Owned(s)'
    <3>1. CASE s \in Roster(b)
      BY <2>3, <3>1 DEF Owned
    <3>2. CASE s \notin Roster(b)
      <4>1. \A d \in Session : Accepting(d, s) => Accepting(d, s)'
        BY <2>5, <3>2 DEF Accepting, Staged, Roster
      <4> QED
        BY <2>1, <2>4, <2>8, <3>2, <4>1 DEF Owned
    <3> QED
      BY <3>1, <3>2
  <2> QED
    BY <2>7, <2>8, CarefulSteps DEF StaysOwned
<1> QED
  BY <1>a, <1>b

(* The step that seats a party: none of its sessions was given up, and the *)
(* other parties' sessions stay as they are.                               *)
LEMMA JoinConsistent ==
  ASSUME IInv, NEW b \in Session, PartyJoins(b)
  PROVE  /\ StaysUndone /\ StaysOwned
         /\ ClaimOf(b) \in Claim \ admitted /\ admitted' = admitted \union {ClaimOf(b)}
         /\ \A s \in Session : ClaimOf(s) = ClaimOf(b) => ~Undone(s)
         /\ \A m \in Player : room'[m] # NoEntry /\ room'[m].claim = ClaimOf(b)
<1>0. TypeOK /\ GateInv
  BY DEF IInv
<1>a. PICK c \in Claim : c = ClaimOf(b)
  BY SessionParts
<1>b. PICK R : R = {m \in batch[b].members : room[m] # NoEntry}
  OBVIOUS
<1>c. PICK C : C = [p \in Peer |-> IF p \in StagedPeers(b) THEN [conn[p] EXCEPT !.pc = "game"] ELSE conn[p]]
  OBVIOUS
<1>d. PICK Q : Q = ClosedByRelease(entry, R)
  OBVIOUS
<1>1. /\ Unresolved(b) /\ batch[b].stage = "joining" /\ AllPeersActive(b)
      /\ room' = [m \in Player |-> IF m \in batch[b].members
                                   THEN [claim |-> c, peer |-> PeerOf(<<m, c>>)] ELSE room[m]]
      /\ entry' = AfterRelease(entry, R) /\ conn' = CloseSockets(C, Q)
      /\ batch' = [batch EXCEPT ![b].settled = TRUE, ![b].stage = "over"]
      /\ pending' = [pending EXCEPT ![c] = NoBatch] /\ admitted' = admitted \union {c}
      /\ UNCHANGED gl
  BY <1>a, <1>b, <1>c, <1>d DEF PartyJoins, MayJoin, Unresolved, Staged
<1>2. /\ batch[b] \in Batches /\ pending[c] = b /\ Waits(b) /\ batch[b].members = Player /\ c \notin admitted
      /\ \A s : s \in Roster(b) <=> s \in Session /\ ClaimOf(s) = c
  <2>1. batch[b] \in Batches /\ b \in Roster(b) /\ pending[ClaimOf(b)] = b /\ Waits(b) /\ ClaimOf(b) \notin admitted
    BY <1>1, BatchFacts
  <2>2. batch[b].members = Player
    BY <1>1, <2>1 DEF Waits
  <2>3. \A s : s \in Roster(b) <=> s \in Session /\ ClaimOf(s) = ClaimOf(b)
    BY <1>0, <1>1, <2>2, RosterOfBatch, SessionParts DEF Unresolved, Staged
  <2> QED
    BY <1>a, <2>1, <2>2, <2>3
<1>3. /\ \A d \in Session : d # b => batch'[d] = batch[d]
      /\ \A d \in Claim : d # c => pending'[d] = pending[d]
      /\ pending'[c] = NoBatch
  BY <1>0, <1>1 DEF TypeOK
<1>4. \A p \in Peer : /\ conn'[p].session = conn[p].session
                      /\ conn'[p].pc = IF p \in StagedPeers(b) THEN "game" ELSE conn[p].pc
  <2>1. C \in [Peer -> Connections] /\ \A p \in Peer :
          /\ C[p].session = conn[p].session
          /\ C[p].pc = IF p \in StagedPeers(b) THEN "game" ELSE conn[p].pc
    BY <1>0, <1>c DEF TypeOK, Connections
  <2> QED
    BY <1>1, <2>1, SocketsOf
<1>5. \A s \in Session : /\ entry'[s] = NoEntry <=> entry[s] = NoEntry
                         /\ entry[s] # NoEntry /\ entry[s].removing => entry'[s].removing
  <2>1. \A s \in Session : IF s \in Hit(entry, R) THEN Removed(entry[s], entry'[s]) ELSE entry'[s] = entry[s]
    BY <1>1, EntryFacts, ReleaseOf
  <2>2. \A s \in Hit(entry, R) : entry[s] # NoEntry
    BY DEF Hit, Matches
  <2> QED
    BY <2>1, <2>2 DEF Removed
<1>6. ASSUME NEW s \in Session, ClaimOf(s) = c
      PROVE  entry[s] # NoEntry /\ ~entry[s].removing
  <2>1. PICK p \in Peer : p = PeerOf(s) /\ At(p, "staged") /\ conn[p].session = s
    BY <1>1, <1>2, <1>6, PeerOfMember
  <2>2. p \in StagedPeers(b) /\ Open(p)
    BY <1>1, <1>2, <1>6, <2>1 DEF StagedPeers, AllPeersActive
  <2> QED
    BY <1>1, <1>2, <2>1, <2>2 DEF Waits
<1>7. ASSUME NEW m \in Player
      PROVE  room'[m] # NoEntry /\ room'[m].claim = c
  <2>1. <<m, c>> \in Roster(b)
    BY <1>2, SessionParts
  <2>2. PICK p \in Peer : p = PeerOf(<<m, c>>)
    BY <1>1, <2>1, PeerOfMember
  <2>3. room'[m] = [claim |-> c, peer |-> p]
    BY <1>1, <1>2, <2>2
  <2>4. room'[m] \in Members
    BY <2>3 DEF Members
  <2> QED
    BY <2>3, <2>4, NullAssumption
<1>8. ASSUME NEW s \in Session, ClaimOf(s) # c, Held(s)'
      PROVE  Held(s)
  <2>1. PICK p \in Peer :
          /\ conn'[p].session = s
          /\ \/ conn'[p].pc = "preparing"
             \/ /\ conn'[p].pc = "staged" /\ pending'[ClaimOf(s)] # NoBatch
                /\ batch'[pending'[ClaimOf(s)]].stage # "joining"
    BY <1>8 DEF Held, At
  <2>2. conn[p].session = s /\ conn'[p].pc = conn[p].pc
    BY <1>4, <2>1
  <2>3. CASE conn[p].pc = "staged"
    <3>1. PICK d \in Session : Unresolved(d) /\ d = pending[ClaimOf(s)] /\ ClaimOf(d) = ClaimOf(s) /\ ClaimOf(s) \in Claim
      <4>1. PICK d \in Session : Unresolved(d) /\ d = pending[ClaimOf(s)]
        BY <2>2, <2>3, StagedFacts DEF At
      <4> QED
        BY <1>0, <4>1, SessionParts, NullAssumption DEF GateInv, PendingOf
    <3>2. d # b /\ pending'[ClaimOf(s)] = d /\ batch'[d] = batch[d]
      BY <1>3, <1>8, <1>a, <3>1
    <3> QED
      BY <2>1, <2>2, <2>3, <3>1, <3>2 DEF Held, At
  <2> QED
    BY <2>1, <2>2, <2>3 DEF Held, At
<1>9. StaysUndone
  <2> SUFFICES ASSUME NEW s \in Session, ClaimOf(s) \notin admitted, Undone(s) PROVE Undone(s)'
    BY DEF StaysUndone
  <2>1. CASE entry[s] # NoEntry /\ entry[s].removing
    BY <1>5, <2>1 DEF Undone
  <2>2. CASE gl[s] = "gone" /\ entry[s] = NoEntry /\ ~Held(s)
    <3>1. ClaimOf(s) # c
      BY <1>6, <2>2
    <3>2. gl'[s] = "gone" /\ entry'[s] = NoEntry /\ ~Held(s)'
      BY <1>1, <1>5, <1>8, <2>2, <3>1
    <3> QED
      BY <3>2 DEF Undone
  <2> QED
    BY <2>1, <2>2 DEF Undone
<1>10. ASSUME NEW s \in Session, Owned(s)
       PROVE  Owned(s)'
  <2>1. \A d \in Session : Accepting(d, s) => Accepting(d, s)'
    BY <1>1, <1>3 DEF Accepting, Staged, Roster
  <2> QED
    BY <1>1, <1>5, <1>10, <2>1 DEF Owned
<1>11. \A s \in Session : ClaimOf(s) = c => ~Undone(s)
  BY <1>6 DEF Undone
<1> QED
  BY <1>1, <1>2, <1>7, <1>9, <1>10, <1>11, <1>a DEF StaysOwned

(* No step takes anything back.                                            *)
LEMMA StepsAreConsistent ==
  ASSUME IInv, [Next]_vars
  PROVE  StaysUndone /\ StaysOwned
<1>1. CASE TypeOK' /\ GivesUp
  BY <1>1, GivesUpConsistent
<1>2. ASSUME NEW p \in Peer,
             \/ \E s \in Session : Hello(p, s)
             \/ InspectReturns(p) \/ Stages(p) \/ StagesLast(p) \/ Rejoins(p)
             \/ SocketCloses(p) /\ ~At(p, "staged")
      PROVE  StaysUndone /\ StaysOwned
  <2>1. CASE SocketCloses(p) /\ ~At(p, "staged")
    BY <2>1, CloseOfUnstaged, Unaffected
  <2> QED
    BY <1>2, <2>1, HelloConsistent, InspectionConsistent, StagesConsistent, RejoinConsistent
<1>3. ASSUME NEW b \in Session, AdapterAccepts(b) \/ AdapterRefuses(b) \/ CommitAccepted(b) \/ PartyJoins(b)
      PROVE  StaysUndone /\ StaysOwned
  BY <1>3, AnswersConsistent, CommitConsistent, JoinConsistent
<1> QED
  BY <1>1, <1>2, <1>3, StepKinds DEF Advances

-----------------------------------------------------------------------------
(* The slots of the arena.                                                 *)

Ownership == \A s \in Session : Owned(s)

(* A binding has a removal, a socket or a timer that ends it.              *)
LEMMA BindingsAreKept ==
  ASSUME IInv, NEW s \in Session, entry[s] # NoEntry
  PROVE  Kept(s)
<1>1. Bindings(s) /\ entry[s].peer \in Peer \union {NoPeer}
  BY EntryType DEF IInv, GateInv, TypeOK
<1> QED
  BY <1>1 DEF Bindings, Timed, Kept

LEMMA OwnershipGivesSeats == IInv /\ Ownership => NoUnownedSeat
<1> SUFFICES ASSUME IInv, Ownership, NEW s \in Session, gl[s] = "ACTIVE"
             PROVE  \/ Kept(s)
                    \/ \E b \in Session : batch[b] # NoBatch /\ s \in Roster(b) /\ batch[b].stage = "accepting"
  BY DEF NoUnownedSeat
<1>1. CASE entry[s] # NoEntry
  BY <1>1, BindingsAreKept
<1>2. CASE \E b \in Session : Accepting(b, s)
  BY <1>2 DEF Accepting, Staged
<1> QED
  BY <1>1, <1>2 DEF Ownership, Owned

(* A session GameLift counts as playing is bound to something that will    *)
(* end the binding, or its acceptance is still being answered.             *)
THEOREM SlotsAreOwned == Spec => []NoUnownedSeat
<1>1. Init => Ownership
  BY DEF Init, Ownership, Owned
<1>2. IInv /\ Ownership /\ [Next]_vars => Ownership'
  BY StepsAreConsistent DEF StaysOwned, Ownership
<1> QED
  BY <1>1, <1>2, Invariance, OwnershipGivesSeats, PTL DEF Spec

-----------------------------------------------------------------------------
(* The door implements PartySeats.                                         *)

DissolvedClaims == {c \in Claim : Dissolved(c)}

(* The state of PartySeats, in terms of sessions.                          *)
LEMMA DissolvedSessions ==
  /\ \A c \in Claim : c \in DissolvedClaims <=> \E s \in Session : ClaimOf(s) = c /\ Undone(s)
  /\ Phase = [c \in Claim |-> IF c \in admitted THEN "admitted"
                             ELSE IF c \in DissolvedClaims THEN "dissolved" ELSE "open"]
BY SessionsOfClaim DEF Dissolved, Undone, DissolvedClaims, Phase

LEMMA DissolvedNext ==
  /\ \A c \in Claim : c \in DissolvedClaims' <=> \E s \in Session : ClaimOf(s) = c /\ Undone(s)'
  /\ Phase' = [c \in Claim |-> IF c \in admitted' THEN "admitted"
                              ELSE IF c \in DissolvedClaims' THEN "dissolved" ELSE "open"]
BY SessionsOfClaim DEF Dissolved, Undone, DissolvedClaims, Phase

(* A claim that is dissolved before its admission stays so.                *)
LEMMA StaysDissolved ==
  ASSUME StaysUndone
  PROVE  DissolvedClaims \ admitted \subseteq DissolvedClaims'
<1> SUFFICES ASSUME NEW c \in DissolvedClaims \ admitted PROVE c \in DissolvedClaims'
  OBVIOUS
<1>1. c \in Claim
  BY DEF DissolvedClaims
<1>2. PICK s \in Session : ClaimOf(s) = c /\ Undone(s)
  BY <1>1, DissolvedSessions
<1>3. Undone(s)'
  BY <1>2 DEF StaysUndone
<1> QED
  BY <1>1, <1>2, <1>3, DissolvedNext

(* A step that seats nobody.                                               *)
LEMMA SeatsNobody ==
  ASSUME StaysUndone, UNCHANGED admitted,
         \A m \in Player : room'[m] # NoEntry => room[m] # NoEntry /\ room'[m].claim = room[m].claim
  PROVE  Seats!Next
<1>1. PICK D : D = DissolvedClaims' \ (DissolvedClaims \union admitted)
  OBVIOUS
<1>2. D \in SUBSET Claim
  BY <1>1 DEF DissolvedClaims
<1>3. Seats!LeaveOrDissolve(D)
  <2>1. \A c \in D : Phase[c] = "open"
    BY <1>1, <1>2, DissolvedSessions
  <2>2. Phase' = Seats!Dissolving(D)
    BY <1>1, <1>2, StaysDissolved, DissolvedSessions, DissolvedNext DEF Seats!Dissolving
  <2>3. Sitting' \in [Claim -> SUBSET Player] /\ \A c \in Claim : Sitting'[c] \subseteq Sitting[c]
    BY DEF Sitting
  <2> QED
    BY <2>1, <2>2, <2>3 DEF Seats!LeaveOrDissolve
<1> QED
  BY <1>2, <1>3 DEF Seats!Next

(* A party that joins is seated whole, and the seats of its players are    *)
(* nobody else's any more.                                                 *)
LEMMA JoinSeatsParty ==
  ASSUME IInv, NEW b \in Session, PartyJoins(b)
  PROVE  Seats!Next
<1>1. PICK c \in Claim : c = ClaimOf(b)
  BY SessionParts
<1>2. /\ StaysUndone /\ c \notin admitted /\ admitted' = admitted \union {c}
      /\ \A s \in Session : ClaimOf(s) = c => ~Undone(s)
      /\ \A m \in Player : room'[m] # NoEntry /\ room'[m].claim = c
  BY <1>1, JoinConsistent
<1>3. c \notin DissolvedClaims
  BY <1>2, DissolvedSessions
<1>4. PICK D : D = DissolvedClaims' \ (DissolvedClaims \union admitted')
  OBVIOUS
<1>5. D \in SUBSET Claim /\ c \notin D
  BY <1>2, <1>4 DEF DissolvedClaims
<1>6. Seats!Admit(c, D)
  <2>1. \A d \in D \union {c} : Phase[d] = "open"
    BY <1>2, <1>3, <1>4, <1>5, DissolvedSessions
  <2>2. Phase' = [Seats!Dissolving(D) EXCEPT ![c] = "admitted"]
    BY <1>2, <1>4, <1>5, StaysDissolved, DissolvedSessions, DissolvedNext DEF Seats!Dissolving
  <2>3. Sitting' = [d \in Claim |-> IF d = c THEN Player ELSE {}]
    BY <1>2 DEF Sitting
  <2> QED
    BY <1>5, <2>1, <2>2, <2>3 DEF Seats!Admit
<1> QED
  BY <1>5, <1>6 DEF Seats!Next

(* A reconnected player takes a seat of an admitted party.                 *)
LEMMA RejoinReturns ==
  ASSUME IInv, NEW p \in Peer, Rejoins(p)
  PROVE  Seats!Next
<1>0. TypeOK /\ GateInv
  BY DEF IInv
<1>1. PICK s : s = conn[p].session
  OBVIOUS
<1>2. PICK m : m = PlayerOf(s)
  OBVIOUS
<1>3. /\ s \in Session /\ m \in Player /\ ClaimOf(s) \in admitted /\ ClaimOf(s) \in Claim
      /\ UNCHANGED <<gl, batch, pending, entry, admitted>>
      /\ room' = [room EXCEPT ![m] = [claim |-> IF @ = NoEntry THEN ClaimOf(s) ELSE @.claim, peer |-> p]]
      /\ conn' = [conn EXCEPT ![p].pc = "game"]
  BY <1>0, <1>1, <1>2, HelloFacts DEF Rejoins, GateInv, Hellos, At, gateVars, batchVars
<1>4. PICK c : c = IF room[m] = NoEntry THEN ClaimOf(s) ELSE room[m].claim
  OBVIOUS
<1>5. /\ room'[m].claim = c /\ room'[m] # NoEntry /\ \A x \in Player : x # m => room'[x] = room[x]
      /\ c \in Claim
  <2>1. c \in Claim
    BY <1>0, <1>3, <1>4 DEF TypeOK, Members
  <2>2. room' = [room EXCEPT ![m] = [claim |-> c, peer |-> p]]
    BY <1>3, <1>4
  <2>3. [claim |-> c, peer |-> p] \in Members
    BY <2>1 DEF Members
  <2> QED
    BY <1>0, <1>3, <2>1, <2>2, <2>3, NullAssumption DEF TypeOK
<1>6. CASE room[m] # NoEntry
  <2>1. \A x \in Player : room'[x] # NoEntry => room[x] # NoEntry /\ room'[x].claim = room[x].claim
    BY <1>4, <1>5, <1>6
  <2> QED
    BY <1>3, <2>1, RejoinConsistent, SeatsNobody
<1>7. CASE room[m] = NoEntry
  <2>1. c = ClaimOf(s)
    BY <1>4, <1>7
  <2>2. \A q \in Peer : conn'[q].session = conn[q].session /\ (q # p => conn'[q] = conn[q])
    <3>1. PICK k : k = [conn[p] EXCEPT !.pc = "game"]
      OBVIOUS
    <3>2. k.session = conn[p].session /\ conn' = [conn EXCEPT ![p] = k]
      BY <1>0, <1>3, <3>1 DEF TypeOK, Connections
    <3> QED
      BY <1>0, <3>2 DEF TypeOK
  <2>3. ASSUME NEW t \in Session, Held(t)
        PROVE  Held(t)'
    <3>1. PICK q \in Peer :
            /\ conn[q].session = t
            /\ \/ conn[q].pc = "preparing"
               \/ /\ conn[q].pc = "staged" /\ pending[ClaimOf(t)] # NoBatch
                  /\ batch[pending[ClaimOf(t)]].stage # "joining"
      BY <2>3 DEF Held, At
    <3>2. conn[p].pc = "joining"
      BY DEF Rejoins, At
    <3>3. conn'[q] = conn[q]
      BY <2>2, <3>1, <3>2
    <3> QED
      BY <1>3, <3>1, <3>3 DEF Held, At
  <2>4. \A t \in Session : Undone(t)' => Undone(t)
    BY <1>3, <2>3 DEF Undone
  <2>5. DissolvedClaims' \ admitted' = DissolvedClaims \ admitted
    <3>1. StaysUndone
      BY RejoinConsistent
    <3>2. DissolvedClaims' \subseteq DissolvedClaims
      <4> SUFFICES ASSUME NEW d \in DissolvedClaims' PROVE d \in DissolvedClaims
        OBVIOUS
      <4>1. d \in Claim
        BY DEF DissolvedClaims
      <4>2. PICK t \in Session : ClaimOf(t) = d /\ Undone(t)'
        BY <4>1, DissolvedNext
      <4> QED
        BY <2>4, <4>1, <4>2, DissolvedSessions
    <3> QED
      BY <1>3, <3>1, <3>2, StaysDissolved
  <2>6. Phase' = Phase /\ Phase[c] = "admitted"
    BY <1>3, <1>5, <2>1, <2>5, DissolvedSessions, DissolvedNext
  <2>7. Sitting' = [Sitting EXCEPT ![c] = @ \union {m}]
    BY <1>3, <1>5, <1>7 DEF Sitting
  <2>8. Seats!Return(c, m)
    BY <2>6, <2>7 DEF Seats!Return
  <2> QED
    BY <1>3, <1>5, <2>8 DEF Seats!Next
<1> QED
  BY <1>6, <1>7

(* What the server does at the door, seen by a party, is a step of         *)
(* PartySeats: nobody enters before the whole party does, in one step, and *)
(* a claim of which a session was given up before never enters at all.     *)
THEOREM PartiesEnterWhole == Spec => AllOrNobody
<1>1. Init => Seats!Init
  <2> SUFFICES ASSUME Init PROVE Seats!Init
    OBVIOUS
  <2>1. \A s \in Session : ~Undone(s)
    BY DEF Init, Undone
  <2>2. DissolvedClaims = {}
    BY <2>1, DissolvedSessions DEF DissolvedClaims
  <2>3. Phase = [c \in Claim |-> "open"] /\ Sitting = [c \in Claim |-> {}]
    BY <2>2, DissolvedSessions DEF Init, Sitting
  <2> QED
    BY <2>3 DEF Seats!Init
<1>2. IInv /\ [Next]_vars => Seats!Next
  <2> SUFFICES ASSUME IInv, [Next]_vars PROVE Seats!Next
    OBVIOUS
  <2>1. StaysUndone
    BY StepsAreConsistent
  <2>2. CASE TypeOK' /\ GivesUp
    BY <2>1, <2>2, SeatsNobody DEF GivesUp
  <2>3. ASSUME NEW p \in Peer,
               \/ \E s \in Session : Hello(p, s)
               \/ InspectReturns(p) \/ Stages(p) \/ StagesLast(p) \/ Rejoins(p)
               \/ SocketCloses(p) /\ ~At(p, "staged")
        PROVE  Seats!Next
    <3>1. CASE (\E s \in Session : Hello(p, s)) \/ InspectReturns(p)
      BY <2>1, <3>1, SeatsNobody DEF Hello, InspectReturns
    <3>2. CASE Stages(p) \/ StagesLast(p)
      BY <2>1, <3>2, StagesConsistent, SeatsNobody
    <3>3. CASE SocketCloses(p) /\ ~At(p, "staged")
      BY <2>1, <3>3, CloseOfUnstaged, SeatsNobody
    <3> QED
      BY <2>3, <3>1, <3>2, <3>3, RejoinReturns
  <2>4. ASSUME NEW b \in Session, AdapterAccepts(b) \/ AdapterRefuses(b) \/ CommitAccepted(b)
        PROVE  Seats!Next
    BY <2>1, <2>4, SeatsNobody DEF AdapterAccepts, AdapterRefuses, CommitAccepted
  <2> QED
    BY <2>2, <2>3, <2>4, JoinSeatsParty, StepKinds DEF Advances
<1> QED
  BY <1>1, <1>2, Invariance, PTL DEF Spec, AllOrNobody, Seats!Spec

-----------------------------------------------------------------------------
(* The sockets of a party that has just been seated.                       *)

(* Replacing members of an earlier claim releases the bindings of their    *)
(* players.  A member the arena did not have keeps its own, and its socket:*)
(* no member it did have sat on that socket, because its hello was staged. *)
LEMMA JoinWelcomes ==
  ASSUME IInv, NEW b \in Session, PartyJoins(b), NEW m \in Player, room[m] = NoEntry
  PROVE  Welcomed(m, ClaimOf(b))'
<1>0. TypeOK /\ GateInv /\ NoPeer \notin Peer
  BY GateAssumption DEF IInv
<1>a. PICK c \in Claim : c = ClaimOf(b)
  BY SessionParts
<1>1. /\ Unresolved(b) /\ batch[b].stage = "joining" /\ AllPeersActive(b)
  BY DEF PartyJoins, MayJoin, Unresolved, Staged
<1>2. Waits(b) /\ batch[b].members = Player /\ batch[b] \in Batches
  <2>1. Waits(b) /\ batch[b] \in Batches
    BY <1>1, BatchFacts
  <2> QED
    BY <1>1, <2>1 DEF Waits
<1>4. PICK s \in Session : s = <<m, c>> /\ ClaimOf(s) = c /\ PlayerOf(s) = m
  BY SessionParts
<1>5. s \in Roster(b)
  BY <1>0, <1>1, <1>2, <1>4, <1>a, RosterOfBatch DEF Unresolved, Staged
<1>6. PICK p \in Peer : p = PeerOf(s) /\ At(p, "staged") /\ conn[p].session = s
  BY <1>1, <1>5, PeerOfMember
<1>7. p \in StagedPeers(b) /\ conn[p].ws = "open" /\ p # NoPeer
  BY <1>0, <1>1, <1>5, <1>6 DEF StagedPeers, AllPeersActive, Open
<1>8. entry[s] # NoEntry /\ ~entry[s].removing /\ entry[s].peer = p
  BY <1>1, <1>2, <1>6, <1>7 DEF Waits, Open
<1>9. PICK R : R = {x \in batch[b].members : room[x] # NoEntry}
  OBVIOUS
<1>10. \A x \in R : x \in Player /\ x # m /\ room[x].peer # p
  <2> SUFFICES ASSUME NEW x \in R PROVE x \in Player /\ x # m /\ room[x].peer # p
    OBVIOUS
  <2>1. x \in Player /\ room[x] # NoEntry /\ x # m
    BY <1>2, <1>9
  <2>2. CASE room[x].peer # NoPeer
    <3>1. At(room[x].peer, "game")
      BY <2>1, <2>2, SeatedFacts
    <3> QED
      BY <1>6, <2>1, <3>1 DEF At
  <2> QED
    BY <1>7, <2>1, <2>2
<1>11. PICK C : C = [q \in Peer |-> IF q \in StagedPeers(b) THEN [conn[q] EXCEPT !.pc = "game"] ELSE conn[q]]
  OBVIOUS
<1>12. /\ room' = [x \in Player |-> IF x \in batch[b].members
                                    THEN [claim |-> c, peer |-> PeerOf(<<x, c>>)] ELSE room[x]]
       /\ entry' = AfterRelease(entry, R) /\ conn' = CloseSockets(C, ClosedByRelease(entry, R))
  BY <1>9, <1>11, <1>a DEF PartyJoins
<1>13. s \notin Hit(entry, R)
  BY <1>4, <1>8, <1>10 DEF Hit, Matches
<1>14. entry'[s] = entry[s]
  BY <1>12, <1>13 DEF AfterRelease
<1>15. p \notin ClosedByRelease(entry, R)
  <2>1. ASSUME NEW t \in Hit(entry, R)
        PROVE  entry[t].peer # p
    <3>1. t \in Session /\ entry[t] # NoEntry /\ Bindings(t)
      BY <1>0, <2>1 DEF Hit, Matches, GateInv
    <3>2. CASE entry[t].peer = p
      <4>1. conn[p].session = t
        BY <1>7, <3>1, <3>2 DEF Bindings
      <4> QED
        BY <1>6, <1>13, <4>1
    <3> QED
      BY <3>2
  <2> QED
    BY <1>10, <2>1 DEF ClosedByRelease
<1>16. conn'[p].ws = "open"
  <2>1. C[p].ws = "open"
    BY <1>0, <1>7, <1>11 DEF TypeOK, Connections
  <2>2. conn'[p] = C[p]
    BY <1>12, <1>15 DEF CloseSockets
  <2> QED
    BY <2>1, <2>2
<1>17. room'[m] = [claim |-> c, peer |-> p]
  BY <1>2, <1>4, <1>6, <1>12
<1>18. entry'[<<m, c>>] # NoEntry /\ ~entry'[<<m, c>>].removing /\ entry'[<<m, c>>].peer = p
  BY <1>4, <1>8, <1>14
<1> QED
  BY <1>16, <1>17, <1>18, <1>a DEF Welcomed

(* However many claims the same players have had: the step that seats a    *)
(* party leaves every member that the arena did not still seat for an      *)
(* earlier claim on an open socket, with a binding to it that is not being *)
(* removed.  Of the members it did seat this is false (AdmittedAreBound).  *)
THEOREM NewcomersAreWelcomed == Spec => NewcomersAreBound
<1>1. IInv /\ [Next]_vars =>
        [\A c \in admitted' \ admitted, m \in Player : room[m] = NoEntry => Welcomed(m, c)']_vars
  <2> SUFFICES ASSUME IInv, [Next]_vars, NEW c \in admitted' \ admitted, NEW m \in Player,
                      room[m] = NoEntry
               PROVE  Welcomed(m, c)'
    OBVIOUS
  <2>1. ~(TypeOK' /\ GivesUp)
    BY DEF GivesUp
  <2>2. ASSUME NEW p \in Peer, Stages(p) \/ StagesLast(p)
        PROVE  FALSE
    BY <2>2, StagesConsistent
  <2>3. PICK b \in Session : PartyJoins(b)
    BY <2>1, <2>2, StepKinds
    DEF Advances, Hello, InspectReturns, Rejoins, SocketCloses, AdapterAccepts, AdapterRefuses, CommitAccepted
  <2>4. c = ClaimOf(b)
    BY <2>3, JoinConsistent
  <2> QED
    BY <2>3, <2>4, JoinWelcomes
<1> QED
  BY <1>1, Invariance, PTL DEF Spec, NewcomersAreBound
=============================================================================
