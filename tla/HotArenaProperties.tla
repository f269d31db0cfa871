------------------------- MODULE HotArenaProperties -------------------------
(***************************************************************************)
(* What a public arena promises, stated of HotArena.                       *)
(***************************************************************************)
EXTENDS HotArena

LifeType ==
  /\ phase \in {"assembling", "countdown", "live", "results"}
  /\ retiring \in BOOLEAN /\ disposed \in BOOLEAN
  /\ assembly \in BOOLEAN /\ admissionOpen \in BOOLEAN
StartType ==
  /\ start \in {"none", "creating", "registering", "reading"} /\ roster \subseteq Players
  /\ matchId \in 0..MaxMatches /\ issued \in 0..MaxMatches
CloseType ==
  /\ closing \subseteq Closings
  /\ settled \in BOOLEAN /\ failed \in BOOLEAN /\ runCount \in Nat
  /\ boundary \in 0..MaxMatches /\ aborted \in BOOLEAN /\ abort \subseteq Players
WriteType ==
  /\ inflight \subseteq Writes /\ ops \subseteq Writes
  /\ matchOutcomes \in [Players -> Outcomes \cup {"none"}]
MemberType ==
  /\ present \subseteq Players /\ token \subseteq Players /\ peer \subseteq Players
  /\ handoff \in [Players -> {"none", "armed", "stale"}]
  /\ queued \subseteq Players /\ inRun \subseteq Players
  /\ eligible \subseteq Players /\ over \subseteq Players
  /\ ctrl \in [Players -> {"none", "human", "frozen", "ai"}]
  /\ report \in [Players -> {"none", "pending", "saved", "failed"}]
OutsideType ==
  /\ seat \in [Parties -> {"none", "reserved", "joined"}] /\ fenced \subseteq Parties
  /\ dbOpen \subseteq Matches
  /\ ledger \in [Matches -> [Players -> Outcomes \cup {"none", "active"}]]
  /\ late \in 0..MaxMatches /\ faults \in Nat

(* Every variable has its type. *)
TypeOK == LifeType /\ StartType /\ CloseType /\ WriteType /\ MemberType /\ OutsideType

-----------------------------------------------------------------------------
(* Safety.                                                                 *)

(* An arena that reports safeToTerminate has closed every match it ever    *)
(* registered and owes the database nothing: no write is unanswered, none  *)
(* is kept for later, and no start can still commit: it "waits for all     *)
(* outcome and match-finish writes, then exposes a safe retirement signal" *)
(* (docs/public-hot-arena-foundation.md:77-78).  safeToTerminate is        *)
(* computed from phase and persistenceSettled alone.                       *)
SafeMeansClosed ==
  SafeToTerminate => dbOpen = {} /\ inflight = {} /\ ops = {} /\ late = 0

(* A registered participant without an outcome is on its way to one: the   *)
(* start is still going on, the player is playing and will be recorded, a  *)
(* write is unanswered or kept, or the closing of the aborted match        *)
(* records the participant.                                                *)
Owned(m, p) ==
  \/ m = matchId /\ start = "reading"
  \/ m = matchId /\ phase = "live" /\ p \in present \cap inRun \cap eligible
  \/ \E w \in inflight \cup ops : w.match = m /\ w.player = p
  \/ boundary = m /\ aborted /\ p \in abort

(* One that is not keeps finishMatch from ever accepting its match.        *)
Orphans(m) == {p \in Players : ledger[m][p] = "active" /\ ~Owned(m, p)}

(* The arena loses no outcome but a disconnection: whatever drops, fails   *)
(* or is retried, a participant that is still a member is owned, unless a  *)
(* takeover by the AI counted it as disconnected.                          *)
OnlyDisconnectionsAreLost ==
  \A m \in dbOpen : \A p \in Orphans(m) \cap present : matchOutcomes[p] = "disconnected"

(* "Expiry changes the same role to AI for the rest of that run and        *)
(* records the human outcome once."                                        *)
(* (docs/public-hot-arena-foundation.md:67-68.)                            *)
TakeoverIsRecorded ==
  \A m \in dbOpen : \A p \in Orphans(m) : matchOutcomes[p] # "disconnected"

(* "a fresh `matchId` and complete persistence boundary for every run"     *)
(* (docs/public-hot-arena-foundation.md:18): no participant is forgotten   *)
(* by the closing of its match.                                            *)
NoOrphan == \A m \in dbOpen : Orphans(m) = {}

(* A player told "saved" has an outcome of its own in the database, never  *)
(* the disconnection of a takeover.                                        *)
SavedIsDurable ==
  \A p \in Players : report[p] = "saved" =>
    p \in over /\ \E m \in Matches : ledger[m][p] \in Reasons

(* A live run's bots follow their humans through drops, grace, expiry and  *)
(* reconnection, also when these happen while the run is being started:    *)
(* human while connected, frozen during grace, AI once the grace is over,  *)
(* and then the human can neither reconnect nor be credited.  (A run whose *)
(* match id and simulation the previous finalizer took away is lost.)      *)
ControllerMatchesConnection ==
  phase = "live" /\ matchId # 0 => \A p \in present \cap inRun :
    /\ ctrl[p] = "human" <=> p \in peer
    /\ ctrl[p] = "frozen" <=> p \notin peer /\ handoff[p] = "armed"
    /\ ctrl[p] = "ai" => p \notin token /\ p \notin eligible

(* A process ends only after persistence is safe. *)
EndedSafely == disposed => settled /\ dbOpen = {}

(* A player told that nothing was credited ("save_failed") keeps nothing. *)
FailedIsNotCredited ==
  \A p \in Players : report[p] = "failed" =>
    \A m \in Matches : ledger[m][p] # "extracted"

(* "The next run cannot leave results until the previous finish write      *)
(* settles." (docs/public-hot-arena-foundation.md:53.)                     *)
OneMatchAtATime ==
  [][issued' # issued => settled /\ dbOpen = {} /\ inflight = {} /\ ops = {}]_vars

(* An arena that failed to close a match, or that does not know whether    *)
(* one was registered, begins no other: also not through a start that was  *)
(* already on its way when the failure came.  A write is kept only for a   *)
(* closing that is still to come.                                          *)
NoMatchAfterFailure ==
  [][issued' # issued =>
       /\ boundary = 0 /\ late = 0
       /\ \A w \in ops : \E c \in closing : c.match = w.match]_vars

(* The outcomes a match is finished with are those of its participants in  *)
(* the database, however often writes were lost or repeated before.        *)
ClosedAsPlayed ==
  [][\A m \in dbOpen \ dbOpen', p \in Players :
       ledger[m][p] # "none" => ledger'[m][p] = matchOutcomes[p]]_vars

-----------------------------------------------------------------------------
(* The ordinary course of an arena, which the code does not enforce: a run *)
(* begins after the previous one is closed, and an admission that fails    *)
(* half way has no members here from an earlier run.                       *)
OrderlyStep ==
  /\ BeginStart => closing = {}
  /\ \A q \in Parties : seat[q] = "reserved" /\ seat'[q] = "none" => present' = present
Orderly == [][OrderlyStep]_vars

-----------------------------------------------------------------------------
(* Liveness.  Timers fire, ticks happen, awaited calls are answered.  A    *)
(* late commit may never happen, and nobody is made to play, leave or      *)
(* retire.                                                                 *)
Fairness ==
  /\ \A p \in Players : WF_vars(ExpireHandoff(p))
  /\ WF_vars(TimeoutRun)
  /\ \A w \in Writes : WF_vars(w \in inflight /\ (WriteSucceeds(w) \/ WriteFails(w)))
  /\ WF_vars(AbandonAssembly) /\ WF_vars(OpenWindow)
  /\ WF_vars(EnterCountdown) /\ WF_vars(BeginStart)
  /\ WF_vars(SimulationReady \/ SimulationThrows)
  /\ WF_vars(StartRegistered \/ StartRefused)
  /\ WF_vars(GoLive \/ StartAborts)
  /\ \A c \in Closings : WF_vars(c \in closing /\ CloseRun(c))
  /\ WF_vars(RetrySettlement)

FairSpec == Spec /\ Fairness

(* A connected member that is queued is deployed, unless it drops or the   *)
(* arena retires (or the bound on matches is reached).                     *)
OutOfMatches == issued = MaxMatches /\ start = "none"
QueuedDeploys == \A p \in Players :
  (p \in present \cap queued \cap peer)
    ~> (p \in inRun \/ p \notin present \cap peer \/ retiring \/ disposed \/ OutOfMatches)

(* A registered match is closed, whatever was lost on the way and however  *)
(* often it has to be retried, unless a participant was orphaned.          *)
RegisteredCloses ==
  \A m \in Matches : m \in dbOpen ~> (m \notin dbOpen \/ disposed \/ Orphans(m) # {})

(* "It finishes the current run, waits for all outcome and match-finish    *)
(* writes, then exposes a safe retirement signal."                         *)
(* (docs/public-hot-arena-foundation.md:77-78.)                            *)
RetirementCompletes == retiring ~> (ReadyForDisposal \/ disposed)

(* ... unless it waits for ever to close a match that never reached the    *)
(* database or that has an orphan, or the finalizer retired it during the  *)
(* countdown of the next run, which nothing ends then.                     *)
Unclosable(m) == Registered(m) = {} \/ Orphans(m) # {}
StuckCountdown == phase = "countdown" /\ start = "none" /\ runCount > 0
RetirementCompletesIfClosable ==
  retiring ~> \/ ReadyForDisposal \/ disposed
              \/ boundary # 0 /\ Unclosable(boundary)
              \/ StuckCountdown

=============================================================================
