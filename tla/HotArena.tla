------------------------------ MODULE HotArena ------------------------------
(***************************************************************************)
(* The life of one public arena: Room in its hot-arena mode.               *)
(*                                                                         *)
(* An arena assembles parties, starts a run through several awaits, plays  *)
(* it, shows results while the match is closed in the database, and does   *)
(* so again until it is retired.  Sockets drop and come back, players      *)
(* leave, claims are cancelled, and every database call may fail or may    *)
(* succeed without the arena hearing of it.                                *)
(*                                                                         *)
(* The server is one JavaScript thread, so an action is what runs between  *)
(* two awaits: a message, a timer, a tick branch, or a continuation.       *)
(*                                                                         *)
(* Simplifications.  Time is not a number: a timer or a deadline is an     *)
(* action that may happen whenever it is armed.  A run is its roster and   *)
(* who is still playing.  The first attempt to close an aborted start and  *)
(* its retries are one action, RetrySettlement; it is lost when the        *)
(* closing of an earlier run fails before it.  The database is the         *)
(* production one (Persistence.live); the in-memory stand-in is left out.  *)
(*                                                                         *)
(* An operator named X_bug is X with a plausible bug.  The specification   *)
(* does not use it: putting it in the place of X breaks a property, which  *)
(* shows that the property depends on X.                                   *)
(***************************************************************************)
EXTENDS Naturals, FiniteSets

CONSTANTS
  Players,     \* humans that may hold a place in the arena
  Parties,     \* their parties
  Members,     \* Members[q]: the players of party q
  RoleCount,   \* PUBLIC_EXTRACTION_ROLE_COUNT
  MaxRuns,     \* the arena retires after this many runs (HotArenaOptions.maxRuns)
  MaxMatches,  \* bound: match ids the model issues
  MaxFaults,   \* bound: database calls that fail
  Faults       \* which database failures happen

DatabaseFault == {"startDown", "startLost", "startLate", "disconnectDown",
                  "outcomeDown", "outcomeLost", "finishDown", "finishLost"}

Matches == 1..MaxMatches
(* A run ends with an extraction or without one: "lost" is died or timeout. *)
Reasons == {"extracted", "lost"}
Outcomes == Reasons \cup {"disconnected"}
Writes == [match: Matches, player: Players, outcome: Outcomes]
Closings == [run: Matches, match: 0..MaxMatches]

ASSUME PartyAssumption ==
  /\ \A q \in Parties : Members[q] \subseteq Players /\ Members[q] # {}
  /\ \A q, r \in Parties : q # r => Members[q] \cap Members[r] = {}
  /\ \A p \in Players : \E q \in Parties : p \in Members[q]
ASSUME BoundAssumption ==
  /\ MaxRuns \in Nat /\ MaxMatches \in Nat /\ MaxFaults \in Nat /\ RoleCount \in Nat
ASSUME EnvironmentAssumption == Faults \subseteq DatabaseFault

VARIABLES
  (* Room *)
  phase, retiring, disposed,
  assembly,       \* assemblyStartedAt is set
  admissionOpen,  \* publicAdmissionOpen
  runCount,
  matchId,        \* the match in progress, 0 for null
  issued,         \* match ids issued so far
  start,          \* where startMatch is waiting; "none": matchStartPromise is null
  roster,         \* startMatch's runMembers
  closing,        \* runs whose endHotRun promise is pending, each with the
                  \* match it closes (completedMatchId), 0 for null
  settled,        \* persistenceSettled
  failed,         \* runPersistenceFailed
  inflight,       \* pendingPersistence: outcome writes without an answer
  ops,            \* pendingPersistenceOperations: writes kept for the settlement
  boundary,       \* the match of pendingPersistenceSettlement, 0 for null
  aborted,        \* that settlement is failPublicStart's
  abort,          \* its failedMembers
  matchOutcomes,
  (* Member objects, by player *)
  present,        \* in members
  token,          \* in memberByToken
  peer,           \* member.peer is set
  handoff,        \* handoffTimer; "stale": cleared, but still not null
  queued,         \* queuedForNextRun
  inRun,
  eligible,       \* persistenceEligible
  over,           \* runOver is set
  ctrl,           \* the simulation's controller of the member's bot
  report,         \* runOver.persistenceStatus
  (* the database and the allocator, outside the process *)
  seat,           \* how far the party's queue claim got in this arena
  fenced,         \* parties whose claim is being cancelled
  dbOpen,         \* matches registered and not finished
  ledger,         \* ledger[m][p]: the outcome of participant p in match m
  late,           \* a start that commits after its caller gave up
  faults

lifeVars == <<phase, retiring, assembly, admissionOpen>>
startVars == <<start, roster, issued>>
closeVars == <<closing, settled, failed, boundary, aborted, abort, runCount>>
writeVars == <<inflight, ops, matchOutcomes>>
linkVars == <<present, token, peer, handoff>>
runVars == <<queued, inRun, eligible, over, ctrl, report>>
memberVars == <<linkVars, runVars>>
claimVars == <<seat, fenced>>
dbVars == <<dbOpen, ledger, late, faults>>
vars == <<lifeVars, disposed, matchId, startVars, closeVars, writeVars,
          memberVars, claimVars, dbVars>>

NoOutcome == [p \in Players |-> "none"]

(* readyMembers *)
ReadyIn(pr, qd, pe, ho) == {p \in pr \cap qd : p \in pe \/ ho[p] # "none"}
Ready == ReadyIn(present, queued, peer, handoff)

(* get safeToTerminate, get readyForDisposal *)
SafeToTerminate == phase \in {"assembling", "results"} /\ settled
ReadyForDisposal == retiring /\ SafeToTerminate

Init ==
  /\ phase = "assembling" /\ retiring = FALSE /\ disposed = FALSE
  /\ assembly = FALSE /\ admissionOpen = FALSE
  /\ runCount = 0 /\ matchId = 0 /\ issued = 0
  /\ start = "none" /\ roster = {}
  /\ closing = {}
  /\ settled = TRUE /\ failed = FALSE
  /\ inflight = {} /\ ops = {} /\ boundary = 0 /\ aborted = FALSE /\ abort = {}
  /\ matchOutcomes = NoOutcome
  /\ present = {} /\ token = {} /\ peer = {}
  /\ handoff = [p \in Players |-> "none"]
  /\ queued = {} /\ inRun = {} /\ eligible = {} /\ over = {}
  /\ ctrl = [p \in Players |-> "none"]
  /\ report = [p \in Players |-> "none"]
  /\ seat = [q \in Parties |-> "none"] /\ fenced = {}
  /\ dbOpen = {} /\ late = 0 /\ faults = 0
  /\ ledger = [m \in Matches |-> NoOutcome]

-----------------------------------------------------------------------------
(* The database, as the arena uses it.                                     *)

Fault(f) == f \in Faults /\ faults < MaxFaults /\ faults' = faults + 1
NoFault == faults' = faults

(* recordOutcome and recordExtraction accept a registered participant that *)
(* has no outcome yet, or has this one already.                            *)
Registered(m) == {p \in Players : ledger[m][p] # "none"}
CanRecord(w) == ledger[w.match][w.player] \in {"active", w.outcome}

Recorded(W) ==
  [m \in Matches |-> [p \in Players |->
     IF \E w \in W : w.match = m /\ w.player = p
     THEN (CHOOSE w \in W : w.match = m /\ w.player = p).outcome
     ELSE ledger[m][p]]]

(* What a settlement of match m writes before finishMatch: failPublicStart *)
(* the members it noted (ab), endHotRun the writes that were kept.         *)
Owed(m, ab) ==
  IF ab THEN [match: {m}, player: abort, outcome: {"disconnected"}]
        ELSE {w \in ops : w.match = m}
Unkept(ab, W) == IF ab THEN ops ELSE ops \ W

(* finishMatch refuses an unknown match and an unsettled participant. *)
Closable(m, ab) ==
  /\ Registered(m) # {}
  /\ \A w \in Owed(m, ab) : CanRecord(w)
  /\ \A p \in Players : Recorded(Owed(m, ab))[m][p] # "active"

Close(m, ab) ==
  /\ ledger' = Recorded(Owed(m, ab))
  /\ dbOpen' = dbOpen \ {m}

(* settlePersistenceBoundary, its try *)
SettleSucceeds(m, ab) ==
  /\ Closable(m, ab) /\ Close(m, ab)
  /\ ops' = {w \in ops : w.match # m}
  /\ boundary' = IF boundary = m THEN 0 ELSE boundary
  /\ settled' = TRUE
  /\ NoFault /\ UNCHANGED <<late, failed, aborted>>

(* ... and its catch: some of the owed writes got through; the settlement  *)
(* becomes the one that is retried.                                        *)
SettleFails(m, ab) ==
  /\ \/ /\ ~Closable(m, ab) /\ NoFault
        /\ LET W == {w \in Owed(m, ab) : CanRecord(w)} IN
             ledger' = Recorded(W) /\ ops' = Unkept(ab, W)
        /\ UNCHANGED dbOpen
     \/ /\ Closable(m, ab) /\ Fault("finishDown")
        /\ \E W \in SUBSET Owed(m, ab) :
             ledger' = Recorded(W) /\ ops' = Unkept(ab, W)
        /\ UNCHANGED dbOpen
     \/ /\ Closable(m, ab) /\ Fault("finishLost") /\ Close(m, ab)
        /\ ops' = Unkept(ab, Owed(m, ab))
  /\ boundary' = m /\ aborted' = ab
  /\ settled' = FALSE /\ failed' = TRUE
  /\ UNCHANGED late

-----------------------------------------------------------------------------
(* Queue claims: the allocator's side of an admission.                     *)

(* evaluatePublicPartyAdmission and replaceableCompletedMembers: a party's *)
(* earlier members must have finished a run and not queued again.          *)
Admissible(q) ==
  /\ ~disposed /\ ~retiring /\ start = "none"
  /\ phase \in {"assembling", "countdown", "results"}
  /\ \A p \in Members[q] \cap present : phase = "results" /\ p \notin queued
  /\ Cardinality(present \cup Members[q]) <= RoleCount

(* claimPartyQueue, and the arena's preflight accepted the party: the      *)
(* claim holds reservations here.                                          *)
Reserve(q) ==
  /\ seat[q] = "none" /\ Admissible(q)
  /\ seat' = [seat EXCEPT ![q] = "reserved"]
  /\ UNCHANGED <<lifeVars, disposed, matchId, startVars, closeVars, writeVars,
                 memberVars, fenced, dbVars>>

(* cancelPartyQueue: a claim that no match has consumed is fenced; it is   *)
(* over (completePartyQueueCancellation) once the arena let the party go.  *)
CancelQueue(q) ==
  /\ seat[q] # "none" /\ fenced' = fenced \cup {q}
  /\ q \notin fenced
  /\ UNCHANGED <<lifeVars, disposed, matchId, startVars, closeVars, writeVars,
                 memberVars, seat, dbVars>>

(* The claim is over, consumed or cancelled. *)
EndClaims(Q) ==
  /\ seat' = [q \in Parties |-> IF q \in Q THEN "none" ELSE seat[q]]
  /\ fenced' = fenced \ Q

-----------------------------------------------------------------------------
(* Membership.                                                             *)

(* The fields of members that leave the arena are gone with them; a start  *)
(* in progress still holds the member and reads its handoffTimer, which    *)
(* releasePublicMember clears and leaves in place.                         *)
DroppedTimer(S) == [p \in Players |->
  IF p \notin S THEN handoff[p]
  ELSE IF start # "none" /\ handoff[p] # "none" THEN "stale" ELSE "none"]
DroppedReport(S) == [p \in Players |-> IF p \in S THEN "none" ELSE report[p]]
Forget(S) ==
  /\ queued' = queued \ S /\ eligible' = eligible \ S /\ over' = over \ S
  /\ report' = DroppedReport(S)

(* resetPublicAssembly *)
ResetIf(c) ==
  /\ phase' = IF c THEN "assembling" ELSE phase
  /\ assembly' = (assembly /\ ~c) /\ admissionOpen' = (admissionOpen /\ ~c)
  /\ UNCHANGED retiring

(* joinPublicParty, with activateFreshPublicClaim: the whole party enters  *)
(* at once; after a settled run it reopens assembly, which releases the    *)
(* members that did not queue again.                                       *)
JoinParty(q) ==
  /\ seat[q] = "reserved" /\ Admissible(q)
  /\ LET new == Members[q]
         reopen == phase = "results" /\ settled
         gone == IF reopen THEN present \ (queued \cup new) ELSE {}
         begin == /\ (reopen \/ phase = "assembling") /\ settled
                  /\ (reopen \/ ~assembly)
     IN /\ present' = (present \cup new) \ gone
        /\ token' = (token \cup new) \ gone
        /\ peer' = (peer \cup new) \ gone
        /\ handoff' = [p \in Players |->
             IF p \in new THEN "none" ELSE DroppedTimer(gone)[p]]
        /\ queued' = queued \cup new
        /\ inRun' = inRun \ new
        /\ eligible' = (eligible \cup new) \ gone
        /\ over' = over \ (new \cup gone)
        /\ ctrl' = [p \in Players |-> IF p \in new THEN "none" ELSE ctrl[p]]
        /\ report' = DroppedReport(new \cup gone)
        /\ phase' = IF reopen THEN "assembling" ELSE phase
        /\ assembly' = (assembly \/ begin)
        /\ admissionOpen' = (admissionOpen \/ begin)
  /\ seat' = [seat EXCEPT ![q] = "joined"]
  /\ UNCHANGED <<retiring, disposed, matchId, startVars, closeVars, writeVars, fenced, dbVars>>

(* releasePublicReservations: a cancelled claim, or (line 1023 of app.ts)  *)
(* an admission that failed half way, releases every member of the party,  *)
(* also those it has from an earlier run.  With nobody ready left it       *)
(* resets the assembly, whatever the phase.                                *)
ReleaseParty(q) ==
  /\ ~disposed
  /\ \/ q \in fenced /\ seat[q] = "joined"
     \/ seat[q] = "reserved"
  /\ LET gone == Members[q] \cap present
         reset == gone # {} /\ ReadyIn(present \ gone, queued, peer, handoff) = {}
     IN /\ present' = present \ gone
        /\ token' = token \ gone
        /\ peer' = peer \ gone
        /\ handoff' = DroppedTimer(gone)
        /\ Forget(gone)
        /\ ResetIf(reset)
  /\ EndClaims({q})
  /\ UNCHANGED <<disposed, matchId, startVars, closeVars, writeVars, inRun, ctrl, dbVars>>

(* A reservation of a party that never joined expires. *)
DropReservation(q) ==
  /\ seat[q] = "reserved"
  /\ EndClaims({q})
  /\ UNCHANGED <<lifeVars, disposed, matchId, startVars, closeVars, writeVars,
                 memberVars, dbVars>>

(* join with a known token: a reconnection. *)
Reconnect(p) ==
  /\ ~disposed /\ p \in token /\ p \notin peer
  /\ peer' = peer \cup {p}
  /\ handoff' = [handoff EXCEPT ![p] = "none"]
  /\ ctrl' = [ctrl EXCEPT ![p] = IF phase = "live" /\ p \in inRun THEN "human" ELSE @]
  /\ UNCHANGED <<lifeVars, disposed, matchId, startVars, closeVars, writeVars,
                 present, token, queued, inRun, eligible, over, report, claimVars, dbVars>>

(* disconnect: out of a run the place is held for a grace period; in a run *)
(* the bot freezes for it; a player that is done just goes dark.           *)
Disconnect(p) ==
  /\ ~disposed /\ p \in peer
  /\ peer' = peer \ {p}
  /\ LET playing == phase = "live" /\ p \in inRun IN
     /\ handoff' = [handoff EXCEPT ![p] = IF phase # "live" \/ playing THEN "armed" ELSE @]
     /\ ctrl' = [ctrl EXCEPT ![p] = IF playing THEN "frozen" ELSE @]
  /\ UNCHANGED <<lifeVars, disposed, matchId, startVars, closeVars, writeVars,
                 present, token, queued, inRun, eligible, over, report, claimVars, dbVars>>

-----------------------------------------------------------------------------
(* Outcomes.                                                               *)

(* recordDisconnected for every p in S: at most one outcome per player.    *)
Undecided(S) == {p \in S : matchId # 0 /\ p \in eligible \ over}
RecordDisconnected(S) ==
  /\ matchOutcomes' = [p \in Players |->
       IF p \in Undecided(S) THEN "disconnected" ELSE matchOutcomes[p]]
  /\ inflight' = inflight \cup
       [match: {matchId}, player: Undecided(S), outcome: {"disconnected"}]

(* sendRunOver for every p in S.  With persistenceEligible unset the write *)
(* resolves at once without a database call, and its continuation drops    *)
(* the operation kept under the same key.                                  *)
SendRunOver_bug(S, reason) == \* counts the reason of an AI's run
  LET scored == S \cap eligible IN
  /\ inRun' = inRun \ S
  /\ over' = over \cup S
  /\ matchOutcomes' = [p \in Players |-> IF p \in S THEN reason ELSE matchOutcomes[p]]
  /\ inflight' = IF matchId = 0 THEN inflight
                 ELSE inflight \cup [match: {matchId}, player: scored, outcome: {reason}]
  /\ ops' = {w \in ops : ~(w.match = matchId /\ w.player \in S \ eligible)}
  /\ report' = [p \in Players |->
       IF p \in scored /\ matchId # 0 THEN "pending"
       ELSE IF p \in S THEN "none" ELSE report[p]]
  /\ UNCHANGED <<eligible, queued>>

SendRunOver(S, reason) ==
  LET scored == S \cap eligible IN
  /\ inRun' = inRun \ S
  /\ over' = over \cup S
  /\ matchOutcomes' = [p \in Players |-> IF p \in scored THEN reason ELSE matchOutcomes[p]]
  /\ inflight' = IF matchId = 0 THEN inflight
                 ELSE inflight \cup [match: {matchId}, player: scored, outcome: {reason}]
  /\ ops' = {w \in ops : ~(w.match = matchId /\ w.player \in S \ eligible)}
  /\ report' = [p \in Players |->
       IF p \in scored /\ matchId # 0 THEN "pending"
       ELSE IF p \in S THEN "none" ELSE report[p]]
  /\ UNCHANGED <<eligible, queued>>

(* endHotRun, up to its first await. *)
EndRunIf_bug(done) == \* persistenceSettled stays set
  /\ phase' = IF done THEN "results" ELSE phase
  /\ settled' = settled
  /\ closing' = IF done THEN closing \cup {[run |-> issued, match |-> matchId]} ELSE closing

EndRunIf(done) ==
  /\ phase' = IF done THEN "results" ELSE phase
  /\ settled' = (settled /\ ~done)
  /\ closing' = IF done THEN closing \cup {[run |-> issued, match |-> matchId]} ELSE closing

(* expireHandoff.  A roster that is being started is frozen: the member    *)
(* keeps the role and loses the token.  Out of a run it loses its place.   *)
(* In a run the bot plays on under AI and the human's run is over.         *)
ExpireHandoff(p) ==
  /\ ~disposed /\ handoff[p] = "armed" /\ p \notin peer
  /\ handoff' = [handoff EXCEPT ![p] = "none"]
  /\ \/ /\ phase = "countdown" /\ start # "none"
        /\ token' = token \ {p}
        /\ UNCHANGED <<present, lifeVars, ctrl, queued, eligible, over, report, matchOutcomes, inflight>>
     \/ /\ phase # "live" /\ ~(phase = "countdown" /\ start # "none")
        /\ present' = present \ {p} /\ token' = token \ {p}
        /\ ResetIf(ReadyIn(present \ {p}, queued, peer, handoff) = {})
        /\ Forget({p})
        /\ UNCHANGED <<ctrl, matchOutcomes, inflight>>
     \/ /\ phase = "live" /\ p \in inRun
        /\ token' = token \ {p}
        /\ ctrl' = [ctrl EXCEPT ![p] = "ai"]
        /\ RecordDisconnected({p}) /\ eligible' = eligible \ Undecided({p})
        /\ UNCHANGED <<present, lifeVars, queued, over, report>>
     \/ /\ phase = "live" /\ p \notin inRun
        /\ UNCHANGED <<present, token, lifeVars, ctrl, queued, eligible, over, report, matchOutcomes, inflight>>
  /\ UNCHANGED <<disposed, matchId, startVars, closeVars, ops, peer, inRun, claimVars, dbVars>>

(* leaveRun of a player whose bot is downed: the run is over, the member   *)
(* stays for the results.                                                  *)
LeaveDowned(p) ==
  /\ ~disposed /\ phase = "live" /\ matchId # 0 /\ p \in peer \cap inRun
  /\ SendRunOver({p}, "lost")
  /\ ctrl' = [ctrl EXCEPT ![p] = "none"]
  /\ EndRunIf(present \cap inRun' = {})
  /\ UNCHANGED <<retiring, assembly, admissionOpen, disposed, matchId, startVars,
                 failed, boundary, aborted, abort, runCount, linkVars, claimVars, dbVars>>

(* leaveRun otherwise: the bot goes to AI, the member leaves the arena. *)
LeaveRun(p) ==
  /\ ~disposed /\ p \in peer
  /\ IF p \in inRun
     THEN /\ RecordDisconnected({p})
          /\ ctrl' = [ctrl EXCEPT ![p] = IF matchId # 0 THEN "ai" ELSE "none"]
     ELSE UNCHANGED <<ctrl, matchOutcomes, inflight>>
  /\ Forget({p})
  /\ inRun' = inRun \ {p}
  /\ present' = present \ {p}
  /\ token' = token \ {p}
  /\ peer' = peer \ {p}
  /\ EndRunIf(phase = "live" /\ present' \cap inRun' = {})
  /\ UNCHANGED <<retiring, assembly, admissionOpen, disposed, matchId, startVars,
                 failed, boundary, aborted, abort, runCount, ops, handoff, claimVars, dbVars>>

(* processRunEvents: an extraction ends that player's run; the tick then   *)
(* ends the run when nobody is left in it (completeIfNoActiveMembers).     *)
Extract(p) ==
  /\ ~disposed /\ phase = "live" /\ matchId # 0 /\ p \in present \cap inRun
  /\ SendRunOver({p}, "extracted")
  /\ EndRunIf(present \cap inRun' = {})
  /\ UNCHANGED <<retiring, assembly, admissionOpen, disposed, matchId, startVars,
                 failed, boundary, aborted, abort, runCount, ctrl, linkVars, claimVars, dbVars>>

(* timeoutRun, and the tick's completeIfNoActiveMembers when it is empty. *)
TimeoutRun ==
  /\ ~disposed /\ phase = "live" /\ matchId # 0
  /\ SendRunOver(present \cap inRun, "lost")
  /\ EndRunIf(TRUE)
  /\ UNCHANGED <<retiring, assembly, admissionOpen, disposed, matchId, startVars,
                 failed, boundary, aborted, abort, runCount, ctrl, linkVars, claimVars, dbVars>>

(* An outcome write comes back.  A failed one is kept for the settlement,  *)
(* and the player is told that nothing was saved.                          *)
Dropped(w) == {v \in ops : ~(v.match = w.match /\ v.player = w.player)}
Kept_bug(w) == Dropped(w) \* the failed write is not kept
Kept(w) == Dropped(w) \cup {w}
Told_bug(w, status) == \* says "saved" either way
  [report EXCEPT ![w.player] = IF w.outcome \in Reasons /\ @ = "pending" THEN "saved" ELSE @]
Told_untyped(w, status) == [report EXCEPT ![w.player] = w.outcome] \* reason for status
Told(w, status) ==
  [report EXCEPT ![w.player] = IF w.outcome \in Reasons /\ @ = "pending" THEN status ELSE @]

WriteSucceeds(w) ==
  /\ w \in inflight /\ CanRecord(w)
  /\ inflight' = inflight \ {w}
  /\ ledger' = Recorded({w})
  /\ ops' = Dropped(w)
  /\ report' = Told(w, "saved")
  /\ UNCHANGED <<lifeVars, disposed, matchId, startVars, closeVars, matchOutcomes,
                 linkVars, queued, inRun, eligible, over, ctrl, claimVars,
                 dbOpen, late, faults>>

WriteFails(w) ==
  /\ w \in inflight
  /\ inflight' = inflight \ {w}
  /\ \/ ~CanRecord(w) /\ NoFault /\ UNCHANGED ledger
     \/ Fault(IF w.outcome = "disconnected" THEN "disconnectDown" ELSE "outcomeDown")
        /\ UNCHANGED ledger
     \/ Fault("outcomeLost") /\ CanRecord(w) /\ ledger' = Recorded({w})
  /\ ops' = Kept(w)
  /\ failed' = TRUE
  /\ report' = Told(w, "failed")
  /\ UNCHANGED <<lifeVars, disposed, matchId, startVars, closing, settled, boundary,
                 aborted, abort, runCount, matchOutcomes, linkVars, queued, inRun, eligible, over,
                 ctrl, claimVars, dbOpen, late>>

-----------------------------------------------------------------------------
(* Assembly and the start of a run.                                        *)

(* tickPublicAssembly: its guard, then one action per way through it. *)
Assembling == ~disposed /\ ~retiring /\ start = "none" /\ phase \in {"assembling", "countdown"}

AbandonAssembly ==
  /\ Assembling /\ Ready = {} /\ assembly /\ ResetIf(TRUE)
  /\ UNCHANGED <<disposed, matchId, startVars, closeVars, writeVars,
                 memberVars, claimVars, dbVars>>

OpenWindow ==
  /\ Assembling /\ Ready # {} /\ ~assembly
  /\ assembly' = TRUE
  /\ UNCHANGED <<phase, retiring, admissionOpen, disposed, matchId, startVars, closeVars,
                 writeVars, memberVars, claimVars, dbVars>>

EnterCountdown ==
  /\ Assembling /\ Ready # {} /\ assembly /\ phase = "assembling"
  /\ Cardinality(Ready) < RoleCount
  /\ phase' = "countdown"
  /\ UNCHANGED <<retiring, assembly, admissionOpen, disposed, matchId, startVars, closeVars,
                 writeVars, memberVars, claimVars, dbVars>>

BeginStart_bug == \* the assembly deadline is ignored
  /\ Assembling /\ Cardinality(Ready) = RoleCount /\ assembly
  /\ issued < MaxMatches
  /\ phase' = "countdown" /\ admissionOpen' = FALSE
  /\ start' = "creating" /\ roster' = Ready
  /\ UNCHANGED <<retiring, assembly, disposed, matchId, issued, closeVars, writeVars,
                 memberVars, claimVars, dbVars>>

(* The window closed or every role is human: startMatch up to its first    *)
(* await.                                                                  *)
BeginStart ==
  /\ Assembling /\ Ready # {} /\ assembly
  /\ issued < MaxMatches
  /\ phase' = "countdown" /\ admissionOpen' = FALSE
  /\ start' = "creating" /\ roster' = Ready
  /\ UNCHANGED <<retiring, assembly, disposed, matchId, issued, closeVars, writeVars,
                 memberVars, claimVars, dbVars>>

(* failPublicStart.  The match is closed with the roster members that are  *)
(* still here and count as disconnected.                                   *)
FailStart ==
  /\ phase' = "assembling" /\ retiring' = TRUE /\ admissionOpen' = FALSE
  /\ start' = "none" /\ matchId' = 0
  /\ settled' = (matchId = 0)
  /\ IF matchId = 0 THEN UNCHANGED <<aborted, abort, boundary, matchOutcomes>>
     ELSE /\ abort' = (IF start = "creating" THEN Registered(matchId) ELSE roster) \cap present \cap eligible
          /\ boundary' = matchId /\ aborted' = TRUE
          /\ matchOutcomes' = [p \in Players |->
               IF p \in abort' THEN "disconnected" ELSE matchOutcomes[p]]

(* The simulation is there: retirement stops here, otherwise a match id is *)
(* issued and the database call goes out.                                  *)
SimulationReady ==
  /\ ~disposed /\ start = "creating"
  /\ IF retiring
     THEN /\ phase' = "assembling" /\ assembly' = FALSE /\ start' = "none" /\ roster' = {}
          /\ UNCHANGED <<matchId, issued, settled, failed, matchOutcomes>>
     ELSE /\ issued' = issued + 1 /\ matchId' = issued + 1
          /\ settled' = TRUE /\ failed' = FALSE
          /\ matchOutcomes' = NoOutcome
          /\ start' = "registering"
          /\ UNCHANGED <<phase, assembly, roster>>
  /\ UNCHANGED <<retiring, admissionOpen, disposed, closing, boundary, aborted, abort, runCount,
                 inflight, ops, memberVars, claimVars, dbVars>>

(* Creating the simulation or validating the map throws. *)
SimulationThrows ==
  /\ ~disposed /\ start = "creating"
  /\ FailStart
  /\ UNCHANGED <<assembly, disposed, issued, roster, closing, failed, runCount,
                 inflight, ops, memberVars, claimVars, dbVars>>

(* startMatch in the database: every claim of the roster is still the      *)
(* active one and its whole party is there; they become the match's.       *)
RosterParties == {q \in Parties : Members[q] \cap roster # {}}
Registrable == \A q \in RosterParties :
  q \notin fenced /\ seat[q] = "joined" /\ Members[q] \subseteq roster

Register(m) ==
  /\ dbOpen' = dbOpen \cup {m}
  /\ ledger' = [ledger EXCEPT ![m] = [p \in Players |-> IF p \in roster THEN "active" ELSE "none"]]
  /\ EndClaims(RosterParties)

StartRegistered ==
  /\ ~disposed /\ start = "registering" /\ Registrable
  /\ Register(issued) /\ NoFault
  /\ IF retiring
     THEN FailStart
     ELSE start' = "reading"
          /\ UNCHANGED <<phase, retiring, admissionOpen, matchId, settled, aborted, abort, boundary, matchOutcomes>>
  /\ UNCHANGED <<assembly, disposed, roster, issued, closing, failed, runCount,
                 inflight, ops, memberVars, late>>

StartRefused ==
  /\ ~disposed /\ start = "registering"
  /\ \/ ~Registrable /\ NoFault /\ late' = late /\ UNCHANGED <<claimVars, dbOpen, ledger>>
     \/ Fault("startDown") /\ late' = late /\ UNCHANGED <<claimVars, dbOpen, ledger>>
     \/ Fault("startLate") /\ late' = issued /\ UNCHANGED <<claimVars, dbOpen, ledger>>
     \/ Registrable /\ Fault("startLost") /\ late' = late /\ Register(issued)
  /\ FailStart
  /\ UNCHANGED <<assembly, disposed, roster, issued, closing, failed, runCount,
                 inflight, ops, memberVars>>

(* The call its caller gave up on commits after all, or is refused. *)
StartCommitsLate ==
  /\ ~disposed /\ late # 0 /\ late' = 0
  /\ IF Registrable THEN Register(late)
     ELSE UNCHANGED <<claimVars, dbOpen, ledger>>
  /\ UNCHANGED <<lifeVars, disposed, matchId, startVars, closeVars, writeVars, memberVars, faults>>

(* The controller a roster member's bot is spawned with. *)
ControllerAtSpawn_bug(p) == \* an expired member's bot waits for it
  IF p \in peer THEN "human" ELSE "frozen"
ControllerAtSpawn(p) ==
  IF p \in peer THEN "human" ELSE IF handoff[p] # "none" THEN "frozen" ELSE "ai"

(* Reading preferences is done: retirement or a bad insertion layout       *)
(* aborts, otherwise every roster member gets a bot and the run is live.   *)
GoLive ==
  /\ ~disposed /\ start = "reading" /\ ~retiring
  /\ ctrl' = [p \in Players |-> IF p \in roster THEN ControllerAtSpawn(p) ELSE ctrl[p]]
  /\ LET takeover == {p \in roster : ControllerAtSpawn(p) = "ai"} IN
     /\ IF matchId = 0 THEN eligible' = eligible \cup roster /\ UNCHANGED <<matchOutcomes, inflight>>
        ELSE /\ eligible' = (eligible \cup roster) \ takeover
             /\ matchOutcomes' = [p \in Players |->
                  IF p \in takeover THEN "disconnected" ELSE matchOutcomes[p]]
             /\ inflight' = inflight \cup [match: {matchId}, player: takeover, outcome: {"disconnected"}]
  /\ inRun' = inRun \cup roster
  /\ over' = over \ roster
  /\ queued' = queued \ roster
  /\ report' = [p \in Players |-> IF p \in roster THEN "none" ELSE report[p]]
  /\ phase' = "live" /\ assembly' = FALSE /\ start' = "none" /\ roster' = {}
  /\ UNCHANGED <<retiring, admissionOpen, disposed, matchId, issued, closeVars, ops,
                 linkVars, claimVars, dbVars>>

StartAborts ==
  /\ ~disposed /\ start = "reading"
  /\ FailStart
  /\ UNCHANGED <<assembly, disposed, roster, issued, closing, failed, runCount,
                 inflight, ops, memberVars, claimVars, dbVars>>

-----------------------------------------------------------------------------
(* Closing a run, retiring, and the end of the process.                    *)

(* The arena retires after a run that left something unsaved, or after     *)
(* maxRuns.                                                                *)
RetiresAfterRun_bug == retiring \/ runCount' >= MaxRuns \* failures do not count
RetiresAfterRun == retiring \/ failed' \/ runCount' >= MaxRuns

(* endHotRun after its writes came back: the settlement, then the          *)
(* finalizer, which reopens assembly when somebody queued meanwhile.  It   *)
(* resets the arena's run even when the next one is being started or live. *)
CloseRun(c) ==
  /\ ~disposed /\ ~\E w \in inflight : w.match <= c.run
  /\ IF c.match = 0
     THEN settled' = TRUE /\ UNCHANGED <<dbVars, ops, boundary, aborted, failed>>
     ELSE SettleSucceeds(c.match, FALSE) \/ SettleFails(c.match, FALSE)
  /\ closing' = closing \ {c}
  /\ runCount' = runCount + 1
  /\ matchId' = 0
  /\ retiring' = RetiresAfterRun
  /\ LET gone == {p \in present : p \notin peer /\ handoff[p] = "none"}
         stay == present \ gone
         reopen == ~retiring' /\ ReadyIn(stay, queued, peer, handoff) # {}
         unqueued == IF reopen THEN stay \ queued ELSE {}
         begin == reopen /\ settled'
     IN /\ present' = stay \ unqueued
        /\ token' = token \ (gone \cup unqueued)
        /\ peer' = peer \ unqueued
        /\ handoff' = DroppedTimer(gone \cup unqueued)
        /\ Forget(gone \cup unqueued)
        /\ inRun' = inRun \ present
        /\ ctrl' = [p \in Players |-> "none"]
        /\ phase' = IF reopen THEN "assembling" ELSE phase
        /\ assembly' = IF reopen THEN begin ELSE assembly
        /\ admissionOpen' = (admissionOpen \/ begin)
  /\ UNCHANGED <<disposed, startVars, abort, inflight, matchOutcomes, claimVars>>

RetrySettlement_bug == \* only for the match in progress
  /\ ~disposed /\ boundary # 0 /\ boundary = matchId
  /\ SettleSucceeds(boundary, aborted) \/ SettleFails(boundary, aborted)
  /\ UNCHANGED <<lifeVars, disposed, matchId, startVars, closing, abort, runCount,
                 inflight, matchOutcomes, memberVars, claimVars>>

(* retryPersistenceSettlement, and failPublicStart's own first attempt. *)
RetrySettlement ==
  /\ ~disposed /\ boundary # 0
  /\ SettleSucceeds(boundary, aborted) \/ SettleFails(boundary, aborted)
  /\ UNCHANGED <<lifeVars, disposed, matchId, startVars, closing, abort, runCount,
                 inflight, matchOutcomes, memberVars, claimVars>>

Retire_bug == \* leaves the assembly as it is
  /\ ~disposed /\ ~retiring
  /\ retiring' = TRUE /\ admissionOpen' = FALSE
  /\ UNCHANGED <<phase, assembly, disposed, matchId, startVars, closeVars, writeVars,
                 memberVars, claimVars, dbVars>>

(* requestRetirement: the process is drained, or the arena is too old. *)
Retire ==
  /\ ~disposed /\ ~retiring
  /\ retiring' = TRUE /\ admissionOpen' = FALSE
  /\ LET idle == phase \in {"assembling", "countdown"} /\ start = "none" IN
     /\ phase' = IF idle THEN "assembling" ELSE phase
     /\ assembly' = (assembly /\ ~idle)
  /\ UNCHANGED <<disposed, matchId, startVars, closeVars, writeVars, memberVars, claimVars, dbVars>>

(* RoomManager.tick disposes of a retired arena that is safe, *)
DisposeRetired ==
  /\ ~disposed /\ ReadyForDisposal
  /\ disposed' = TRUE /\ admissionOpen' = FALSE
  /\ UNCHANGED <<phase, retiring, assembly, matchId, startVars, closeVars, writeVars,
                 memberVars, claimVars, dbVars>>

(* and of one that is ten minutes old and has nobody connected. *)
DisposeEmpty ==
  /\ ~disposed /\ phase = "assembling" /\ peer = {}
  /\ disposed' = TRUE /\ admissionOpen' = FALSE
  /\ UNCHANGED <<phase, retiring, assembly, matchId, startVars, closeVars, writeVars,
                 memberVars, claimVars, dbVars>>

(* Nothing happens in the process after that. *)
Ended == disposed /\ UNCHANGED vars

Next ==
  \/ \E q \in Parties :
       \/ Reserve(q) \/ CancelQueue(q)
       \/ JoinParty(q) \/ ReleaseParty(q) \/ DropReservation(q)
  \/ \E p \in Players :
       \/ Reconnect(p) \/ Disconnect(p) \/ ExpireHandoff(p)
       \/ LeaveDowned(p) \/ LeaveRun(p) \/ Extract(p)
  \/ TimeoutRun
  \/ \E w \in inflight : WriteSucceeds(w) \/ WriteFails(w)
  \/ AbandonAssembly \/ OpenWindow \/ EnterCountdown \/ BeginStart
  \/ SimulationReady \/ SimulationThrows
  \/ StartRegistered \/ StartRefused \/ StartCommitsLate \/ GoLive \/ StartAborts
  \/ \E c \in closing : CloseRun(c)
  \/ RetrySettlement
  \/ Retire \/ DisposeRetired \/ DisposeEmpty \/ Ended

Spec == Init /\ [][Next]_vars

=============================================================================
