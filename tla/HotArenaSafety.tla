--------------------------- MODULE HotArenaSafety ---------------------------
(***************************************************************************)
(* An arena that reports safeToTerminate has closed every match and owes   *)
(* the database nothing, whatever fails, drops, leaves or is cancelled     *)
(* meanwhile, as long as its course is Orderly.                            *)
(*                                                                         *)
(* SafeToTerminate looks at phase and persistenceSettled only.  The        *)
(* invariant says what else these two stand for in each stage: an idle     *)
(* arena, or one that has not registered its next match, is Clear; a       *)
(* closing run or a boundary that is still owed keeps settled false; and   *)
(* between the registration and the end of the run the phase is one that   *)
(* SafeToTerminate excludes.  The last is the subtle part: a cancelled     *)
(* party may reset the phase while a run is being started, and the seats   *)
(* show that such a start is then refused by the database.                 *)
(*                                                                         *)
(* The types come first.  TypeOK alone is not inductive: a match id stays  *)
(* below its bound because startMatch checks the bound before its first    *)
(* await and issues the id after it; StartBound carries the check across.  *)
(*                                                                         *)
(* After them the outcomes: what became of each participant of a run       *)
(* reaches the database, and what a player is told and may do agrees with  *)
(* it.                                                                     *)
(***************************************************************************)
EXTENDS HotArenaProperties, TLAPS

Results == Outcomes \cup {"none", "active"}
StartBound ==
  /\ start = "creating" => issued < MaxMatches
  /\ start \in {"registering", "reading"} \/ phase = "live" => issued # 0
TInv == TypeOK /\ StartBound

LEMMA RecordedType ==
  ASSUME TypeOK, NEW W \in SUBSET Writes
  PROVE  Recorded(W) \in [Matches -> [Players -> Results]]
<1>1. SUFFICES ASSUME NEW m \in Matches, NEW p \in Players,
                      \E w \in W : w.match = m /\ w.player = p
               PROVE  (CHOOSE w \in W : w.match = m /\ w.player = p).outcome \in Results
  BY DEF TypeOK, OutsideType, Recorded, Results
<1>2. PICK w \in W : w.match = m /\ w.player = p
  BY <1>1
<1>3. (CHOOSE v \in W : v.match = m /\ v.player = p) \in W
  BY <1>2
<1> QED
  BY <1>3 DEF Writes, Results

LEMMA OwedType ==
  ASSUME TypeOK, NEW m \in Matches, NEW ab
  PROVE  Owed(m, ab) \in SUBSET Writes
BY DEF TypeOK, WriteType, CloseType, Owed, Writes, Outcomes

LEMMA SettleType ==
  ASSUME TypeOK, NEW m \in Matches, NEW ab \in BOOLEAN, SettleSucceeds(m, ab) \/ SettleFails(m, ab)
  PROVE  /\ dbOpen' \subseteq Matches /\ ledger' \in [Matches -> [Players -> Results]]
         /\ ops' \subseteq Writes /\ boundary' \in 0..MaxMatches
         /\ settled' \in BOOLEAN /\ failed' \in BOOLEAN /\ aborted' \in BOOLEAN
         /\ late' \in 0..MaxMatches /\ faults' \in Nat
<1> USE DEF TypeOK, LifeType, StartType, CloseType, WriteType, MemberType,
        OutsideType
<1>1. \A W \in SUBSET Owed(m, ab) : Recorded(W) \in [Matches -> [Players -> Results]]
  BY OwedType, RecordedType
<1>2. ledger' \in [Matches -> [Players -> Results]]
  BY <1>1 DEF SettleSucceeds, SettleFails, Close
<1>3. /\ dbOpen' \subseteq Matches /\ ops' \subseteq Writes
      /\ late' \in 0..MaxMatches /\ faults' \in Nat
  BY BoundAssumption DEF SettleSucceeds, SettleFails, Close, Unkept, Fault, NoFault
<1>4. boundary' \in 0..MaxMatches
  BY BoundAssumption DEF SettleSucceeds, SettleFails, Matches
<1>5. settled' \in BOOLEAN
  BY DEF SettleSucceeds, SettleFails
<1>6. failed' \in BOOLEAN /\ aborted' \in BOOLEAN
  BY Zenon DEF SettleSucceeds, SettleFails
<1> QED
  BY <1>2, <1>3, <1>4, <1>5, <1>6

LEMMA CloseRunType ==
  ASSUME TInv, NEW c \in closing, CloseRun(c)
  PROVE  TInv'
<1> USE DEF lifeVars, startVars, closeVars, writeVars, linkVars, runVars,
        memberVars, claimVars, dbVars
<1> USE DEF TInv, StartBound, TypeOK, LifeType, StartType, CloseType, WriteType,
        MemberType, OutsideType
<1>1. /\ dbOpen' \subseteq Matches /\ ledger' \in [Matches -> [Players -> Results]]
      /\ ops' \subseteq Writes /\ boundary' \in 0..MaxMatches
      /\ settled' \in BOOLEAN /\ failed' \in BOOLEAN /\ aborted' \in BOOLEAN
      /\ late' \in 0..MaxMatches /\ faults' \in Nat
  <2>1. CASE c.match = 0
    BY <2>1 DEF CloseRun, Results
  <2>2. CASE c.match # 0
    <3>1. c.match \in Matches /\ (SettleSucceeds(c.match, FALSE) \/ SettleFails(c.match, FALSE))
      <4>1. c \in Closings
        OBVIOUS
      <4>2. c.match \in Matches
        BY ONLY <2>2, <4>1, BoundAssumption DEF Closings, Matches
      <4> QED
        BY <2>2, <4>2 DEF CloseRun
    <3> QED
      BY <3>1, SettleType
  <2> QED
    BY <2>1, <2>2
<1>2. StartType' /\ CloseType' /\ WriteType' /\ OutsideType' /\ StartBound'
  BY <1>1, BoundAssumption DEF CloseRun, Results, Matches
<1>3. MemberType'
  BY DEF CloseRun, DroppedTimer, DroppedReport, Forget
<1>4. LifeType'
  <2>1. retiring' \in BOOLEAN
    BY <1>1 DEF CloseRun, RetiresAfterRun
  <2>2. assembly' \in BOOLEAN /\ admissionOpen' \in BOOLEAN
    BY <1>1, <2>1, Zenon DEF CloseRun
  <2> QED
    BY <2>1, <2>2 DEF CloseRun
<1> QED
  BY <1>2, <1>3, <1>4

LEMMA RetryType ==
  ASSUME TInv, RetrySettlement
  PROVE  TInv'
<1> USE DEF TInv, StartBound, TypeOK, LifeType, StartType, CloseType, WriteType,
        MemberType, OutsideType
<1>1. boundary \in Matches
  BY BoundAssumption DEF RetrySettlement, Matches
<1> QED
  BY <1>1, SettleType DEF RetrySettlement, Results,
     lifeVars, startVars, writeVars, linkVars, runVars, memberVars, claimVars

LEMMA WriteAnswerType ==
  ASSUME TInv, NEW w \in inflight, WriteSucceeds(w) \/ WriteFails(w)
  PROVE  TInv'
<1> USE DEF lifeVars, startVars, closeVars, writeVars, linkVars, runVars,
        memberVars, claimVars, dbVars
<1> USE DEF TInv, StartBound, TypeOK, LifeType, StartType, CloseType, WriteType,
        MemberType, OutsideType
<1>1. w \in Writes /\ w.player \in Players
  BY DEF Writes
<1>2. Recorded({w}) \in [Matches -> [Players -> Results]]
  BY <1>1, RecordedType
<1>3. OutsideType'
  <2>1. faults' \in Nat
    BY DEF WriteSucceeds, WriteFails, Fault, NoFault
  <2>2. ledger' \in [Matches -> [Players -> Results]]
    <3>1. ledger' = Recorded({w}) \/ ledger' = ledger
      BY Zenon DEF WriteSucceeds, WriteFails
    <3> QED
      BY <1>2, <3>1 DEF Results
  <2>3. seat' = seat /\ fenced' = fenced /\ dbOpen' = dbOpen /\ late' = late
    BY DEF WriteSucceeds, WriteFails
  <2> QED
    BY <2>1, <2>2, <2>3 DEF Results
<1>4. ops' \subseteq Writes
  BY <1>1 DEF WriteSucceeds, WriteFails, Kept, Dropped
<1>5. WriteType'
  BY <1>4 DEF WriteSucceeds, WriteFails
<1>6. MemberType'
  BY <1>1 DEF WriteSucceeds, WriteFails, Told
<1>7. failed' \in BOOLEAN
  BY Zenon DEF WriteSucceeds, WriteFails
<1>8. CloseType'
  BY <1>7 DEF WriteSucceeds, WriteFails
<1>9. LifeType' /\ StartType' /\ StartBound'
  BY DEF WriteSucceeds, WriteFails
<1> QED
  BY <1>3, <1>5, <1>6, <1>8, <1>9

LEMMA RegisterType ==
  ASSUME TypeOK, NEW m \in Matches, Register(m)
  PROVE  /\ dbOpen' \subseteq Matches /\ ledger' \in [Matches -> [Players -> Results]]
         /\ seat' \in [Parties -> {"none", "reserved", "joined"}] /\ fenced' \subseteq Parties
BY DEF TypeOK, StartType, OutsideType, Register, EndClaims, Results

LEMMA FailStartType ==
  ASSUME TypeOK, FailStart,
         UNCHANGED <<disposed, assembly, issued, roster, closing, failed, runCount, inflight, ops>>
  PROVE  LifeType' /\ StartType' /\ CloseType' /\ WriteType' /\ StartBound'
<1> USE BoundAssumption DEF TypeOK, LifeType, StartType, CloseType, WriteType,
        MemberType, OutsideType
<1>1. StartType' /\ StartBound'
  BY DEF FailStart, StartBound
<1>2. LifeType'
  BY Zenon DEF FailStart
<1>3. settled' \in BOOLEAN
  BY DEF FailStart
<1>4. abort' \subseteq Players
  BY DEF FailStart, Registered
<1>5. CloseType'
  BY <1>3, <1>4 DEF FailStart
<1>6. WriteType'
  BY DEF FailStart, Outcomes
<1> QED
  BY <1>1, <1>5, <1>6, <1>2

LEMMA TypeStep ==
  ASSUME TInv, [Next]_vars
  PROVE  TInv'
<1> USE BoundAssumption, PartyAssumption DEF lifeVars, startVars, closeVars,
        writeVars, linkVars, runVars, memberVars, claimVars, dbVars
<1> USE DEF TInv, StartBound, TypeOK, LifeType, StartType, CloseType, WriteType,
        MemberType, OutsideType
<1>1. ASSUME NEW q \in Parties, Reserve(q) PROVE TInv'
  BY <1>1 DEF Reserve
<1>2. ASSUME NEW q \in Parties, CancelQueue(q) PROVE TInv'
  BY <1>2 DEF CancelQueue
<1>3. ASSUME NEW q \in Parties, JoinParty(q) PROVE TInv'
  BY <1>3 DEF JoinParty, DroppedTimer, DroppedReport
<1>4. ASSUME NEW q \in Parties, ReleaseParty(q) PROVE TInv'
  BY <1>4 DEF ReleaseParty, DroppedTimer, DroppedReport, Forget, ResetIf,
     EndClaims
<1>5. ASSUME NEW q \in Parties, DropReservation(q) PROVE TInv'
  BY <1>5 DEF DropReservation, EndClaims
<1>6. ASSUME NEW p \in Players, Reconnect(p) PROVE TInv'
  BY <1>6 DEF Reconnect
<1>7. ASSUME NEW p \in Players, Disconnect(p) PROVE TInv'
  BY <1>7 DEF Disconnect
<1>8. ASSUME NEW p \in Players, ExpireHandoff(p) PROVE TInv'
  <2>1. WriteType'
    BY <1>8 DEF ExpireHandoff, RecordDisconnected, Undecided, Writes, Outcomes, Matches
  <2>2. MemberType'
    <3>1. /\ present' \subseteq present /\ token' \subseteq token /\ queued' \subseteq queued
          /\ eligible' \subseteq eligible /\ over' \subseteq over
          /\ peer' = peer /\ inRun' = inRun
      BY <1>8 DEF ExpireHandoff, Forget
    <3>2. /\ handoff' \in [Players -> {"none", "armed", "stale"}]
          /\ ctrl' \in [Players -> {"none", "human", "frozen", "ai"}]
          /\ report' \in [Players -> {"none", "pending", "saved", "failed"}]
      BY <1>8 DEF ExpireHandoff, DroppedReport, Forget
    <3> QED
      BY <3>1, <3>2
  <2>3. LifeType'
    BY <1>8 DEF ExpireHandoff, ResetIf
  <2>4. StartType' /\ StartBound' /\ CloseType' /\ OutsideType'
    BY <1>8 DEF ExpireHandoff, ResetIf
  <2> QED
    BY <2>1, <2>2, <2>3, <2>4
<1>9. ASSUME NEW p \in Players, LeaveDowned(p) PROVE TInv'
  BY <1>9 DEF LeaveDowned, SendRunOver, EndRunIf, Closings, Writes, Outcomes, Reasons,
     Matches
<1>10. ASSUME NEW p \in Players, LeaveRun(p) PROVE TInv'
  BY <1>10 DEF LeaveRun, DroppedReport, Forget, EndRunIf, Closings, RecordDisconnected,
     Undecided, Writes, Outcomes, Matches
<1>11. ASSUME NEW p \in Players, Extract(p) PROVE TInv'
  BY <1>11 DEF Extract, SendRunOver, EndRunIf, Closings, Writes, Outcomes, Reasons,
     Matches
<1>12. CASE TimeoutRun
  BY <1>12 DEF TimeoutRun, SendRunOver, EndRunIf, Closings, Writes, Outcomes, Reasons,
     Matches
<1>13. CASE AbandonAssembly
  BY <1>13 DEF AbandonAssembly, ResetIf
<1>14. CASE OpenWindow
  BY <1>14 DEF OpenWindow
<1>15. CASE EnterCountdown
  BY <1>15 DEF EnterCountdown
<1>16. CASE BeginStart
  BY <1>16 DEF BeginStart, Ready, ReadyIn
<1>17. CASE SimulationReady
  <2>1. CASE retiring
    BY <1>17, <2>1 DEF SimulationReady
  <2>2. CASE ~retiring
    <3>1. issued + 1 \in 0..MaxMatches
      BY <1>17 DEF SimulationReady
    <3>2. LifeType' /\ StartType' /\ StartBound' /\ MemberType' /\ OutsideType'
      BY <1>17, <2>2, <3>1 DEF SimulationReady
    <3>3. CloseType' /\ WriteType'
      BY <1>17, <2>2 DEF SimulationReady, NoOutcome
    <3> QED
      BY <3>2, <3>3
  <2> QED
    BY <2>1, <2>2
<1>18. CASE SimulationThrows
  <2>1. LifeType' /\ StartType' /\ CloseType' /\ WriteType' /\ StartBound'
    BY <1>18, FailStartType DEF SimulationThrows
  <2>2. MemberType' /\ OutsideType'
    BY <1>18 DEF SimulationThrows
  <2> QED
    BY <2>1, <2>2
<1>19. CASE StartRegistered
  <2>1. issued \in Matches /\ Register(issued)
    BY <1>19 DEF StartRegistered, Matches
  <2>2. OutsideType'
    BY <1>19, <2>1, RegisterType DEF StartRegistered, NoFault, Results
  <2>3. MemberType'
    BY <1>19 DEF StartRegistered
  <2>4. CASE retiring
    <3>1. LifeType' /\ StartType' /\ CloseType' /\ WriteType' /\ StartBound'
      BY <1>19, <2>4, FailStartType DEF StartRegistered
    <3> QED
      BY <2>2, <2>3, <3>1
  <2>5. CASE ~retiring
    <3>1. LifeType' /\ StartType' /\ CloseType' /\ WriteType' /\ StartBound'
      BY <1>19, <2>5 DEF StartRegistered
    <3> QED
      BY <2>2, <2>3, <3>1
  <2> QED
    BY <2>4, <2>5
<1>20. CASE StartRefused
  <2>1. issued \in Matches
    BY <1>20 DEF StartRefused, Matches
  <2>2. OutsideType'
    <3>1. late' \in 0..MaxMatches /\ faults' \in Nat
      BY <1>20 DEF StartRefused, Fault, NoFault
    <3>2. CASE Register(issued)
      BY <2>1, <3>1, <3>2, RegisterType DEF Results
    <3>3. CASE UNCHANGED <<claimVars, dbOpen, ledger>>
      BY <3>1, <3>3
    <3> QED
      BY <1>20, <3>2, <3>3 DEF StartRefused
  <2>3. LifeType' /\ StartType' /\ CloseType' /\ WriteType' /\ StartBound'
    BY <1>20, FailStartType DEF StartRefused
  <2>4. MemberType'
    BY <1>20 DEF StartRefused
  <2> QED
    BY <2>2, <2>3, <2>4
<1>21. CASE StartCommitsLate
  <2>1. late \in Matches
    BY <1>21 DEF StartCommitsLate, Matches
  <2>2. OutsideType'
    <3>1. late' \in 0..MaxMatches /\ faults' \in Nat
      BY <1>21 DEF StartCommitsLate
    <3>2. CASE Register(late)
      BY <2>1, <3>1, <3>2, RegisterType DEF Results
    <3>3. CASE UNCHANGED <<claimVars, dbOpen, ledger>>
      BY <3>1, <3>3
    <3> QED
      BY <1>21, <3>2, <3>3 DEF StartCommitsLate
  <2>3. LifeType' /\ StartType' /\ StartBound' /\ CloseType' /\ WriteType' /\ MemberType'
    BY <1>21 DEF StartCommitsLate
  <2> QED
    BY <2>2, <2>3
<1>22. CASE GoLive
  <2>1. LifeType' /\ StartType' /\ StartBound' /\ CloseType' /\ OutsideType'
    BY <1>22 DEF GoLive
  <2>2. WriteType'
    BY <1>22 DEF GoLive, Writes, Outcomes, Matches
  <2>3. MemberType'
    BY <1>22 DEF GoLive, ControllerAtSpawn
  <2> QED
    BY <2>1, <2>2, <2>3
<1>23. CASE StartAborts
  <2>1. LifeType' /\ StartType' /\ CloseType' /\ WriteType' /\ StartBound'
    BY <1>23, FailStartType DEF StartAborts
  <2>2. MemberType' /\ OutsideType'
    BY <1>23 DEF StartAborts
  <2> QED
    BY <2>1, <2>2
<1>24. CASE Retire
  BY <1>24 DEF Retire
<1>25. CASE DisposeRetired
  BY <1>25 DEF DisposeRetired
<1>26. CASE DisposeEmpty
  BY <1>26 DEF DisposeEmpty
<1>27. ASSUME NEW w \in inflight, WriteSucceeds(w) \/ WriteFails(w) PROVE TInv'
  BY <1>27, WriteAnswerType
<1>28. ASSUME NEW c \in closing, CloseRun(c) PROVE TInv'
  BY <1>28, CloseRunType
<1>29. CASE RetrySettlement
  BY <1>29, RetryType
<1>30. CASE Ended \/ UNCHANGED vars
  BY <1>30 DEF Ended, vars
<1> QED
  BY <1>1, <1>2, <1>3, <1>4, <1>5, <1>6, <1>7, <1>8, <1>9, <1>10, <1>11, <1>12,
     <1>13, <1>14, <1>15, <1>16,
     <1>17, <1>18, <1>19, <1>20, <1>21, <1>22, <1>23, <1>24, <1>25, <1>26, <1>27, <1>28, <1>29, <1>30 DEF Next

(* The arena starts with well-typed variables. *)
LEMMA TypeInit == Init => TInv
<1>1. Init => StartType /\ StartBound
  BY BoundAssumption DEF Init, StartType, StartBound
<1>2. Init => LifeType
  BY DEF Init, LifeType
<1>3. Init => CloseType
  <2>1. Init => settled \in BOOLEAN /\ failed \in BOOLEAN /\ aborted \in BOOLEAN
    BY Zenon DEF Init
  <2>2. Init => /\ closing \subseteq Closings
                /\ runCount \in Nat /\ boundary \in 0..MaxMatches /\ abort \subseteq Players
    BY BoundAssumption DEF Init
  <2> QED
    BY <2>1, <2>2 DEF CloseType
<1>4. Init => WriteType /\ MemberType
  BY DEF Init, WriteType, MemberType, NoOutcome
<1>5. Init => OutsideType
  BY BoundAssumption DEF Init, OutsideType, NoOutcome
<1> QED
  BY <1>1, <1>4, <1>5, <1>2, <1>3 DEF TInv, TypeOK

(* Every variable keeps its type, whatever happens. *)
THEOREM TypeCorrect == Spec => []TypeOK
<1>1. TInv /\ [Next]_vars => TInv'
  BY TypeStep
<1>2. TInv => TypeOK
  BY DEF TInv
<1> QED
  BY <1>1, <1>2, TypeInit, PTL DEF Spec

-----------------------------------------------------------------------------
(* Safe termination. *)
(* The theorems are about an arena whose course is Orderly.  Without it    *)
(* the promise is broken: arena_overlap_unsafe.cfg.                        *)
Idle == start = "none" /\ closing = {} /\ boundary = 0 /\ phase # "live"
Clear == dbOpen = {} /\ inflight = {} /\ ops = {} /\ late = 0

(* All that is written belongs to the match issued last. *)
MatchInv ==
  /\ dbOpen \subseteq {issued}
  /\ \A w \in inflight \cup ops : w.match = issued
  /\ late \in {0, issued}
  /\ start \in {"registering", "reading"} \/ phase = "live" => matchId = issued /\ issued # 0
  /\ start = "registering" => Registered(issued) = {}
  /\ \A m \in Matches : m > issued => Registered(m) = {}

(* What may be pending in which stage of the arena's life. *)
LifeInv ==
  /\ start # "none" => closing = {} /\ boundary = 0 /\ phase \in {"assembling", "countdown"}
  /\ start = "reading" => phase = "countdown"
  /\ closing # {} => /\ ~settled /\ start = "none" /\ boundary = 0 /\ phase # "live"
                     /\ closing = {[run |-> issued, match |-> issued]} /\ issued # 0
  /\ phase = "live" => start = "none" /\ closing = {} /\ boundary = 0 /\ late = 0
  /\ boundary # 0 => /\ ~settled /\ retiring /\ boundary = issued /\ inflight = {}
  /\ late # 0 => boundary = late /\ Registered(late) = {}
  /\ settled \/ closing # {} \/ boundary # 0
  /\ Idle \/ start \in {"creating", "registering"} => Clear
  /\ start \in {"none", "creating"} /\ closing = {} /\ phase # "live" => matchId = 0
  /\ boundary # 0 /\ aborted => ops = {}
  /\ start = "reading" => inflight = {} /\ ops = {} /\ late = 0

(* Nobody plays outside a live run. *)
MemberInv ==
  /\ peer \subseteq present /\ token \subseteq present
  /\ phase # "live" => present \cap inRun = {}

(* The members of a party whose claim is active are the ones being         *)
(* started, or are ready; when its release resets the phase of a start,    *)
(* the claim it gave up is one that the start needs.                       *)
SeatInv ==
  /\ start \in {"creating", "registering"} /\ phase # "countdown" =>
       \E q \in RosterParties : seat[q] # "joined"
  /\ start # "none" => \A q \in Parties : seat[q] = "joined" => Members[q] \cap present \subseteq roster
  /\ start = "reading" => \A q \in RosterParties : seat[q] = "none"
  /\ phase = "live" => \A q \in Parties : seat[q] = "joined" => Members[q] \cap present = {}
  /\ start = "none" /\ ~retiring =>
       \A q \in Parties : seat[q] = "joined" => Members[q] \cap present \subseteq Ready

IInv == TInv /\ MatchInv /\ LifeInv /\ MemberInv /\ SeatInv

-----------------------------------------------------------------------------
(* Recording outcomes changes nothing else. *)
LEMMA RecordedElsewhere ==
  ASSUME TypeOK, NEW W \in SUBSET Writes, NEW m \in Matches,
         \A w \in W : w.match # m
  PROVE  Recorded(W)[m] = ledger[m]
<1>1. ledger[m] = [p \in Players |-> ledger[m][p]]
  BY DEF TypeOK, OutsideType
<1>2. Recorded(W)[m] = [p \in Players |-> ledger[m][p]]
  BY DEF Recorded
<1> QED
  BY <1>1, <1>2

(* What an attempt to close a match does, whether or not it succeeds.  A   *)
(* match that never was registered stays so.                               *)
LEMMA SettleEffect ==
  ASSUME TypeOK, MatchInv, issued \in Matches, boundary \in {0, issued}, issued' = issued,
         NEW ab, ab => ops = {}, SettleSucceeds(issued, ab) \/ SettleFails(issued, ab)
  PROVE  /\ dbOpen' \subseteq dbOpen /\ ops' \subseteq ops /\ late' = late
         /\ \A m \in Matches : m # issued => Registered(m)' = Registered(m)
         /\ Registered(issued) = {} => SettleFails(issued, ab) /\ Registered(issued)' = {}
         /\ SettleSucceeds(issued, ab) => /\ dbOpen' = {} /\ ops' = {} /\ boundary' = 0 /\ settled'
                                      /\ Registered(issued) # {}
         /\ SettleFails(issued, ab) => /\ ~settled' /\ failed' /\ boundary' = issued
                                         /\ aborted' = ab
<1>1. dbOpen' \subseteq dbOpen /\ late' = late
  BY DEF SettleSucceeds, SettleFails, Close
<1>2. ops' \subseteq ops
  BY DEF SettleSucceeds, SettleFails, Unkept
<1>3. \A w \in Owed(issued, ab) : w.match = issued
  BY DEF Owed
<1>4. PICK W \in SUBSET Owed(issued, ab) :
        /\ ledger' = Recorded(W)
        /\ Closable(issued, ab) \/ W = {w \in Owed(issued, ab) : CanRecord(w)}
  BY DEF SettleSucceeds, SettleFails, Close
<1>5. \A m \in Matches : m # issued => Registered(m)' = Registered(m)
  BY <1>3, <1>4, OwedType, RecordedElsewhere DEF Registered
<1>6. ASSUME Registered(issued) = {}
      PROVE  SettleFails(issued, ab) /\ Registered(issued)' = {}
  <2>1. ~Closable(issued, ab)
    BY <1>6 DEF Closable
  <2>2. ASSUME NEW w \in Owed(issued, ab) PROVE ~CanRecord(w)
    <3>1. w \in Writes /\ w.match = issued
      BY <1>3, OwedType
    <3>2. w.player \in Players /\ w.outcome # "none"
      BY <3>1 DEF Writes, Outcomes, Reasons
    <3> QED
      BY <1>6, <3>1, <3>2 DEF CanRecord, Registered
  <2>3. W = {}
    BY <1>4, <2>1, <2>2
  <2>4. Recorded({})[issued] = ledger[issued]
    BY RecordedElsewhere
  <2> QED
    BY <1>4, <1>6, <2>1, <2>3, <2>4 DEF SettleSucceeds, Registered
<1>7. SettleSucceeds(issued, ab) => dbOpen' = {} /\ ops' = {} /\ boundary' = 0
  BY DEF SettleSucceeds, Close, MatchInv
<1>8. SettleSucceeds(issued, ab) => Registered(issued) # {}
  BY DEF SettleSucceeds, Closable
<1>9. SettleSucceeds(issued, ab) => settled'
  BY Zenon DEF SettleSucceeds
<1>10. SettleFails(issued, ab) => ~settled' /\ failed' /\ boundary' = issued /\ aborted' = ab
  <2>1. SettleFails(issued, ab) => ~settled' /\ failed'
    BY Zenon DEF SettleFails
  <2>2. SettleFails(issued, ab) => boundary' = issued /\ aborted' = ab
    BY Zenon DEF SettleFails
  <2> QED
    BY <2>1, <2>2
<1> QED
  BY ONLY <1>1, <1>2, <1>5, <1>6, <1>7, <1>8, <1>9, <1>10

(* Steps that write nothing and start no match. *)
LEMMA MatchFrame ==
  ASSUME MatchInv, phase' = "live" => phase = "live",
         UNCHANGED <<issued, matchId, start, dbOpen, late, ledger, inflight, ops>>
  PROVE  MatchInv'
BY DEF MatchInv, Registered

(***************************************************************************)
(* One lemma per action: it keeps every part of the invariant.  (That it   *)
(* keeps the types is TypeStep.)                                           *)
(***************************************************************************)
LEMMA ReserveStep ==
  ASSUME IInv, NEW q \in Parties, Reserve(q)
  PROVE  MatchInv' /\ LifeInv' /\ MemberInv' /\ SeatInv'
<1> USE PartyAssumption, BoundAssumption DEF lifeVars, startVars, closeVars,
        writeVars, linkVars, runVars, memberVars, claimVars, dbVars
<1> USE DEF IInv, TInv, TypeOK, LifeType, StartType, CloseType, WriteType,
        MemberType, OutsideType, Reserve, Admissible
<1>1. MatchInv'
  BY MatchFrame
<1>2. LifeInv'
  BY DEF MatchInv, LifeInv, Idle, Clear, Registered, Matches
<1>3. MemberInv'
  BY DEF MemberInv, LifeInv
<1>4. SeatInv'
  BY DEF SeatInv, MemberInv, LifeInv, RosterParties, Ready, ReadyIn
<1> QED
  BY <1>1, <1>2, <1>3, <1>4

LEMMA CancelQueueStep ==
  ASSUME IInv, NEW q \in Parties, CancelQueue(q)
  PROVE  MatchInv' /\ LifeInv' /\ MemberInv' /\ SeatInv'
<1> USE PartyAssumption, BoundAssumption DEF lifeVars, startVars, closeVars,
        writeVars, linkVars, runVars, memberVars, claimVars, dbVars
<1> USE DEF IInv, TInv, TypeOK, LifeType, StartType, CloseType, WriteType,
        MemberType, OutsideType, CancelQueue
<1>1. MatchInv'
  BY MatchFrame
<1>2. LifeInv'
  BY DEF MatchInv, LifeInv, Idle, Clear, Registered, Matches
<1>3. MemberInv'
  BY DEF MemberInv, LifeInv
<1>4. SeatInv'
  BY DEF SeatInv, MemberInv, LifeInv, RosterParties, Ready, ReadyIn
<1> QED
  BY <1>1, <1>2, <1>3, <1>4

LEMMA JoinPartyStep ==
  ASSUME IInv, NEW q \in Parties, JoinParty(q)
  PROVE  MatchInv' /\ LifeInv' /\ MemberInv' /\ SeatInv'
<1> USE PartyAssumption, BoundAssumption DEF lifeVars, startVars, closeVars,
        writeVars, linkVars, runVars, memberVars, claimVars, dbVars
<1> USE DEF IInv, TInv, TypeOK, LifeType, StartType, CloseType, WriteType,
        MemberType, OutsideType, JoinParty, Admissible, DroppedTimer
<1>1. MatchInv'
  BY MatchFrame
<1>2. LifeInv'
  BY DEF MatchInv, LifeInv, Idle, Clear, Registered, Matches
<1>3. MemberInv'
  BY DEF MemberInv, LifeInv
<1>4. SeatInv'
  BY DEF SeatInv, MemberInv, LifeInv, RosterParties, Ready, ReadyIn
<1> QED
  BY <1>1, <1>2, <1>3, <1>4

LEMMA ReleasePartyStep ==
  ASSUME IInv, OrderlyStep, NEW q \in Parties, ReleaseParty(q)
  PROVE  MatchInv' /\ LifeInv' /\ MemberInv' /\ SeatInv'
<1> USE PartyAssumption, BoundAssumption DEF lifeVars, startVars, closeVars,
        writeVars, linkVars, runVars, memberVars, claimVars, dbVars
<1> USE DEF IInv, TInv, TypeOK, LifeType, StartType, CloseType, WriteType,
        MemberType, OutsideType, ReleaseParty, DroppedTimer, Forget, ResetIf,
        EndClaims, OrderlyStep
<1>1. MatchInv'
  BY MatchFrame
<1>2. /\ start = "reading" \/ phase = "live" => phase' = phase
      /\ phase' # phase => phase' = "assembling"
  BY DEF LifeInv, SeatInv, RosterParties
<1>3. LifeInv'
  BY <1>2 DEF MatchInv, LifeInv, Idle, Clear, Registered, Matches
<1>4. MemberInv'
  BY <1>2 DEF MemberInv, LifeInv
<1>5. SeatInv'
  BY DEF SeatInv, MemberInv, LifeInv, RosterParties, Ready, ReadyIn
<1> QED
  BY <1>1, <1>3, <1>4, <1>5

LEMMA DropReservationStep ==
  ASSUME IInv, NEW q \in Parties, DropReservation(q)
  PROVE  MatchInv' /\ LifeInv' /\ MemberInv' /\ SeatInv'
<1> USE PartyAssumption, BoundAssumption DEF lifeVars, startVars, closeVars,
        writeVars, linkVars, runVars, memberVars, claimVars, dbVars
<1> USE DEF IInv, TInv, TypeOK, LifeType, StartType, CloseType, WriteType,
        MemberType, OutsideType, DropReservation, EndClaims
<1>1. MatchInv'
  BY MatchFrame
<1>2. LifeInv'
  BY DEF MatchInv, LifeInv, Idle, Clear, Registered, Matches
<1>3. MemberInv'
  BY DEF MemberInv, LifeInv
<1>4. SeatInv'
  BY DEF SeatInv, MemberInv, LifeInv, RosterParties, Ready, ReadyIn
<1> QED
  BY <1>1, <1>2, <1>3, <1>4

LEMMA ReconnectStep ==
  ASSUME IInv, NEW p \in Players, Reconnect(p)
  PROVE  MatchInv' /\ LifeInv' /\ MemberInv' /\ SeatInv'
<1> USE PartyAssumption, BoundAssumption DEF lifeVars, startVars, closeVars,
        writeVars, linkVars, runVars, memberVars, claimVars, dbVars
<1> USE DEF IInv, TInv, TypeOK, LifeType, StartType, CloseType, WriteType,
        MemberType, OutsideType, Reconnect
<1>1. MatchInv'
  BY MatchFrame
<1>2. LifeInv'
  BY DEF MatchInv, LifeInv, Idle, Clear, Registered, Matches
<1>3. MemberInv'
  BY DEF MemberInv, LifeInv
<1>4. SeatInv'
  BY DEF SeatInv, MemberInv, LifeInv, RosterParties, Ready, ReadyIn
<1> QED
  BY <1>1, <1>2, <1>3, <1>4

LEMMA DisconnectStep ==
  ASSUME IInv, NEW p \in Players, Disconnect(p)
  PROVE  MatchInv' /\ LifeInv' /\ MemberInv' /\ SeatInv'
<1> USE PartyAssumption, BoundAssumption DEF lifeVars, startVars, closeVars,
        writeVars, linkVars, runVars, memberVars, claimVars, dbVars
<1> USE DEF IInv, TInv, TypeOK, LifeType, StartType, CloseType, WriteType,
        MemberType, OutsideType, Disconnect
<1>1. MatchInv'
  BY MatchFrame
<1>2. LifeInv'
  BY DEF MatchInv, LifeInv, Idle, Clear, Registered, Matches
<1>3. MemberInv'
  BY DEF MemberInv, LifeInv
<1>4. SeatInv'
  BY DEF SeatInv, MemberInv, LifeInv, RosterParties, Ready, ReadyIn
<1> QED
  BY <1>1, <1>2, <1>3, <1>4

LEMMA ExpireHandoffStep ==
  ASSUME IInv, NEW p \in Players, ExpireHandoff(p)
  PROVE  MatchInv' /\ LifeInv' /\ MemberInv' /\ SeatInv'
<1> USE PartyAssumption, BoundAssumption DEF lifeVars, startVars, closeVars,
        writeVars, linkVars, runVars, memberVars, claimVars, dbVars
<1> USE DEF IInv, TInv, TypeOK, LifeType, StartType, CloseType, WriteType,
        MemberType, OutsideType, ExpireHandoff, Forget, ResetIf,
        RecordDisconnected, Undecided
<1>1. MatchInv'
  BY DEF MatchInv, Registered
<1>2. LifeInv'
  BY DEF MatchInv, LifeInv, Idle, Clear, Registered, Matches
<1>3. MemberInv'
  BY DEF MemberInv, LifeInv
<1>4. SeatInv'
  BY DEF SeatInv, MemberInv, LifeInv, RosterParties, Ready, ReadyIn
<1> QED
  BY <1>1, <1>2, <1>3, <1>4

LEMMA LeaveDownedStep ==
  ASSUME IInv, NEW p \in Players, LeaveDowned(p)
  PROVE  MatchInv' /\ LifeInv' /\ MemberInv' /\ SeatInv'
<1> USE PartyAssumption, BoundAssumption DEF lifeVars, startVars, closeVars,
        writeVars, linkVars, runVars, memberVars, claimVars, dbVars
<1> USE DEF IInv, TInv, TypeOK, LifeType, StartType, CloseType, WriteType,
        MemberType, OutsideType, LeaveDowned, SendRunOver, EndRunIf
<1>1. MatchInv'
  BY DEF MatchInv, LifeInv, Idle, Clear, Registered, Matches, Writes
<1>2. LifeInv'
  BY DEF MatchInv, LifeInv, Idle, Clear, Registered, Matches
<1>3. MemberInv'
  BY DEF MemberInv, LifeInv
<1>4. SeatInv'
  BY DEF SeatInv, MemberInv, LifeInv, RosterParties, Ready, ReadyIn
<1> QED
  BY <1>1, <1>2, <1>3, <1>4

LEMMA LeaveRunStep ==
  ASSUME IInv, NEW p \in Players, LeaveRun(p)
  PROVE  MatchInv' /\ LifeInv' /\ MemberInv' /\ SeatInv'
<1> USE PartyAssumption, BoundAssumption DEF lifeVars, startVars, closeVars,
        writeVars, linkVars, runVars, memberVars, claimVars, dbVars
<1> USE DEF IInv, TInv, TypeOK, LifeType, StartType, CloseType, WriteType,
        MemberType, OutsideType, LeaveRun, Forget, EndRunIf, RecordDisconnected,
        Undecided
<1>1. MatchInv'
  BY DEF MatchInv, LifeInv, Idle, Clear, Registered, Matches, Writes, MemberInv
<1>2. LifeInv'
  <2>1. CASE phase = "live"
    BY <2>1 DEF MatchInv, LifeInv, Idle, Clear, Registered, Matches, MemberInv
  <2>2. CASE phase # "live"
    <3>1. p \notin inRun
      BY <2>2 DEF MemberInv
    <3> QED
      BY <2>2, <3>1 DEF LifeInv, Idle, Clear, Registered
  <2> QED
    BY <2>1, <2>2
<1>3. MemberInv'
  BY DEF MemberInv, LifeInv
<1>4. SeatInv'
  BY DEF SeatInv, MemberInv, LifeInv, RosterParties, Ready, ReadyIn
<1> QED
  BY <1>1, <1>2, <1>3, <1>4

LEMMA ExtractStep ==
  ASSUME IInv, NEW p \in Players, Extract(p)
  PROVE  MatchInv' /\ LifeInv' /\ MemberInv' /\ SeatInv'
<1> USE PartyAssumption, BoundAssumption DEF lifeVars, startVars, closeVars,
        writeVars, linkVars, runVars, memberVars, claimVars, dbVars
<1> USE DEF IInv, TInv, TypeOK, LifeType, StartType, CloseType, WriteType,
        MemberType, OutsideType, Extract, SendRunOver, EndRunIf
<1>1. MatchInv'
  BY DEF MatchInv, LifeInv, Idle, Clear, Registered, Matches, Writes
<1>2. LifeInv'
  BY DEF MatchInv, LifeInv, Idle, Clear, Registered, Matches
<1>3. MemberInv'
  BY DEF MemberInv, LifeInv
<1>4. SeatInv'
  BY DEF SeatInv, MemberInv, LifeInv, RosterParties, Ready, ReadyIn
<1> QED
  BY <1>1, <1>2, <1>3, <1>4

LEMMA TimeoutRunStep ==
  ASSUME IInv, TimeoutRun
  PROVE  MatchInv' /\ LifeInv' /\ MemberInv' /\ SeatInv'
<1> USE PartyAssumption, BoundAssumption DEF lifeVars, startVars, closeVars,
        writeVars, linkVars, runVars, memberVars, claimVars, dbVars
<1> USE DEF IInv, TInv, TypeOK, LifeType, StartType, CloseType, WriteType,
        MemberType, OutsideType, TimeoutRun, SendRunOver, EndRunIf
<1>1. MatchInv'
  BY DEF MatchInv, LifeInv, Idle, Clear, Registered, Matches, Writes
<1>2. LifeInv'
  BY DEF MatchInv, LifeInv, Idle, Clear, Registered, Matches
<1>3. MemberInv'
  BY DEF MemberInv, LifeInv
<1>4. SeatInv'
  BY DEF SeatInv, MemberInv, LifeInv, RosterParties, Ready, ReadyIn
<1> QED
  BY <1>1, <1>2, <1>3, <1>4

LEMMA AbandonAssemblyStep ==
  ASSUME IInv, AbandonAssembly
  PROVE  MatchInv' /\ LifeInv' /\ MemberInv' /\ SeatInv'
<1> USE PartyAssumption, BoundAssumption DEF lifeVars, startVars, closeVars,
        writeVars, linkVars, runVars, memberVars, claimVars, dbVars
<1> USE DEF IInv, TInv, TypeOK, LifeType, StartType, CloseType, WriteType,
        MemberType, OutsideType, AbandonAssembly, Assembling, ResetIf
<1>1. MatchInv'
  BY MatchFrame
<1>2. LifeInv'
  BY DEF MatchInv, LifeInv, Idle, Clear, Registered, Matches
<1>3. MemberInv'
  BY DEF MemberInv, LifeInv
<1>4. SeatInv'
  BY DEF SeatInv, MemberInv, LifeInv, RosterParties, Ready, ReadyIn
<1> QED
  BY <1>1, <1>2, <1>3, <1>4

LEMMA OpenWindowStep ==
  ASSUME IInv, OpenWindow
  PROVE  MatchInv' /\ LifeInv' /\ MemberInv' /\ SeatInv'
<1> USE PartyAssumption, BoundAssumption DEF lifeVars, startVars, closeVars,
        writeVars, linkVars, runVars, memberVars, claimVars, dbVars
<1> USE DEF IInv, TInv, TypeOK, LifeType, StartType, CloseType, WriteType,
        MemberType, OutsideType, OpenWindow, Assembling
<1>1. MatchInv'
  BY MatchFrame
<1>2. LifeInv'
  BY DEF MatchInv, LifeInv, Idle, Clear, Registered, Matches
<1>3. MemberInv'
  BY DEF MemberInv, LifeInv
<1>4. SeatInv'
  BY DEF SeatInv, MemberInv, LifeInv, RosterParties, Ready, ReadyIn
<1> QED
  BY <1>1, <1>2, <1>3, <1>4

LEMMA EnterCountdownStep ==
  ASSUME IInv, EnterCountdown
  PROVE  MatchInv' /\ LifeInv' /\ MemberInv' /\ SeatInv'
<1> USE PartyAssumption, BoundAssumption DEF lifeVars, startVars, closeVars,
        writeVars, linkVars, runVars, memberVars, claimVars, dbVars
<1> USE DEF IInv, TInv, TypeOK, LifeType, StartType, CloseType, WriteType,
        MemberType, OutsideType, EnterCountdown, Assembling
<1>1. MatchInv'
  BY MatchFrame
<1>2. LifeInv'
  BY DEF MatchInv, LifeInv, Idle, Clear, Registered, Matches
<1>3. MemberInv'
  BY DEF MemberInv, LifeInv
<1>4. SeatInv'
  BY DEF SeatInv, MemberInv, LifeInv, RosterParties, Ready, ReadyIn
<1> QED
  BY <1>1, <1>2, <1>3, <1>4

LEMMA BeginStartStep ==
  ASSUME IInv, OrderlyStep, BeginStart
  PROVE  MatchInv' /\ LifeInv' /\ MemberInv' /\ SeatInv'
<1> USE PartyAssumption, BoundAssumption DEF lifeVars, startVars, closeVars,
        writeVars, linkVars, runVars, memberVars, claimVars, dbVars
<1> USE DEF IInv, TInv, TypeOK, LifeType, StartType, CloseType, WriteType,
        MemberType, OutsideType, BeginStart, Assembling,
        OrderlyStep
<1>1. MatchInv'
  BY DEF MatchInv, LifeInv, Idle, Clear, Registered, Matches, Writes
<1>2. LifeInv'
  BY DEF MatchInv, LifeInv, Idle, Clear, Registered, Matches
<1>3. MemberInv'
  BY DEF MemberInv, LifeInv
<1>4. SeatInv'
  BY DEF SeatInv, MemberInv, LifeInv, RosterParties, Ready, ReadyIn
<1> QED
  BY <1>1, <1>2, <1>3, <1>4

LEMMA SimulationReadyStep ==
  ASSUME IInv, SimulationReady
  PROVE  MatchInv' /\ LifeInv' /\ MemberInv' /\ SeatInv'
<1> USE PartyAssumption, BoundAssumption DEF lifeVars, startVars, closeVars,
        writeVars, linkVars, runVars, memberVars, claimVars, dbVars
<1> USE DEF IInv, TInv, TypeOK, LifeType, StartType, CloseType, WriteType,
        MemberType, OutsideType, SimulationReady
<1>1. MatchInv'
  <2>1. CASE retiring
    BY <2>1 DEF MatchInv, LifeInv, Registered
  <2>2. CASE ~retiring
    <3>1. issued + 1 \in Matches
      BY DEF StartBound, Matches
    <3>2. Clear /\ Clear' /\ issued' = issued + 1 /\ matchId' = issued'
      BY <2>2 DEF LifeInv, Clear
    <3>3. \A m \in Matches : m > issued => Registered(m)' = {}
      BY DEF MatchInv, Registered
    <3> QED
      BY <2>2, <3>1, <3>2, <3>3 DEF MatchInv, LifeInv, Clear, Matches
  <2> QED
    BY <2>1, <2>2
<1>2. LifeInv'
  BY DEF MatchInv, LifeInv, Idle, Clear, Registered, Matches
<1>3. MemberInv'
  BY DEF MemberInv, LifeInv
<1>4. SeatInv'
  BY DEF SeatInv, MemberInv, LifeInv, RosterParties, Ready, ReadyIn
<1> QED
  BY <1>1, <1>2, <1>3, <1>4

LEMMA SimulationThrowsStep ==
  ASSUME IInv, SimulationThrows
  PROVE  MatchInv' /\ LifeInv' /\ MemberInv' /\ SeatInv'
<1> USE PartyAssumption, BoundAssumption DEF lifeVars, startVars, closeVars,
        writeVars, linkVars, runVars, memberVars, claimVars, dbVars
<1> USE DEF IInv, TInv, TypeOK, LifeType, StartType, CloseType, WriteType,
        MemberType, OutsideType, SimulationThrows, FailStart
<1>1. MatchInv'
  BY DEF MatchInv, LifeInv, Idle, Clear, Registered, Matches, Writes
<1>2. LifeInv'
  BY DEF MatchInv, LifeInv, Idle, Clear, Registered, Matches
<1>3. MemberInv'
  BY DEF MemberInv, LifeInv
<1>4. SeatInv'
  BY DEF SeatInv, MemberInv, LifeInv, RosterParties, Ready, ReadyIn
<1> QED
  BY <1>1, <1>2, <1>3, <1>4

LEMMA StartRegisteredStep ==
  ASSUME IInv, StartRegistered
  PROVE  MatchInv' /\ LifeInv' /\ MemberInv' /\ SeatInv'
<1> USE PartyAssumption, BoundAssumption DEF lifeVars, startVars, closeVars,
        writeVars, linkVars, runVars, memberVars, claimVars, dbVars
<1> USE DEF IInv, TInv, TypeOK, LifeType, StartType, CloseType, WriteType,
        MemberType, OutsideType, StartRegistered, FailStart, Register,
        Registrable, EndClaims, NoFault
<1>1. MatchInv'
  <2>1. matchId = issued /\ issued \in Matches /\ Clear
    BY DEF MatchInv, LifeInv, Matches
  <2>2. \A m \in Matches : m > issued => Registered(m)' = {}
    BY <2>1 DEF MatchInv, Registered, Matches
  <2>3. dbOpen' \subseteq {issued} /\ late' = 0 /\ start' # "registering"
    BY <2>1 DEF Clear
  <2> QED
    BY <2>1, <2>2, <2>3 DEF MatchInv, Clear, LifeInv
<1>2. phase = "countdown"
  BY DEF SeatInv
<1>3. LifeInv'
  <2>1. matchId = issued /\ issued # 0 /\ Clear /\ closing = {} /\ boundary = 0
    BY DEF MatchInv, LifeInv
  <2>2. /\ closing' = {} /\ late' = 0 /\ inflight' = {} /\ ops' = {}
        /\ phase' \in {"assembling", "countdown"}
    BY <1>2, <2>1 DEF Clear
  <2>3. CASE retiring
    BY <2>1, <2>2, <2>3 DEF LifeInv, Idle
  <2>4. CASE ~retiring
    BY <1>2, <2>1, <2>2, <2>4 DEF LifeInv, Idle
  <2> QED
    BY <2>3, <2>4
<1>4. MemberInv'
  BY DEF MemberInv, LifeInv
<1>5. SeatInv'
  BY DEF SeatInv, MemberInv, LifeInv, RosterParties, Ready, ReadyIn
<1> QED
  BY <1>1, <1>3, <1>4, <1>5

LEMMA StartRefusedStep ==
  ASSUME IInv, StartRefused
  PROVE  MatchInv' /\ LifeInv' /\ MemberInv' /\ SeatInv'
<1> USE PartyAssumption, BoundAssumption DEF lifeVars, startVars, closeVars,
        writeVars, linkVars, runVars, memberVars, claimVars, dbVars
<1> USE DEF IInv, TInv, TypeOK, LifeType, StartType, CloseType, WriteType,
        MemberType, OutsideType, StartRefused, FailStart, Register, Registrable,
        EndClaims
<1>1. MatchInv'
  <2>1. matchId = issued /\ issued \in Matches /\ Clear
    BY DEF MatchInv, LifeInv, Matches
  <2>2. \A m \in Matches : m > issued => Registered(m)' = {}
    <3>1. CASE Register(issued)
      BY <2>1, <3>1 DEF MatchInv, Registered, Matches
    <3>2. CASE UNCHANGED ledger
      BY <3>2 DEF MatchInv, Registered
    <3> QED
      BY <3>1, <3>2
  <2>3. dbOpen' \subseteq {issued} /\ late' \in {0, issued}
    BY <2>1 DEF Clear
  <2> QED
    BY <2>1, <2>2, <2>3 DEF MatchInv, Clear, LifeInv
<1>2. LifeInv'
  BY DEF MatchInv, LifeInv, Idle, Clear, Registered, Matches
<1>3. MemberInv'
  BY DEF MemberInv, LifeInv
<1>4. SeatInv'
  BY DEF SeatInv, MemberInv, LifeInv, RosterParties, Ready, ReadyIn
<1> QED
  BY <1>1, <1>2, <1>3, <1>4

LEMMA StartCommitsLateStep ==
  ASSUME IInv, StartCommitsLate
  PROVE  MatchInv' /\ LifeInv' /\ MemberInv' /\ SeatInv'
<1> USE PartyAssumption, BoundAssumption DEF lifeVars, startVars, closeVars,
        writeVars, linkVars, runVars, memberVars, claimVars, dbVars
<1> USE DEF IInv, TInv, TypeOK, LifeType, StartType, CloseType, WriteType,
        MemberType, OutsideType, StartCommitsLate, Register, Registrable,
        EndClaims
<1>1. MatchInv'
  <2>1. late = issued /\ issued \in Matches /\ start = "none" /\ phase # "live"
    BY DEF MatchInv, LifeInv, Matches
  <2>2. \A m \in Matches : m > issued => Registered(m)' = {}
    <3>1. CASE Register(late)
      BY <2>1, <3>1 DEF MatchInv, Registered, Matches
    <3>2. CASE UNCHANGED ledger
      BY <3>2 DEF MatchInv, Registered
    <3> QED
      BY <3>1, <3>2
  <2>3. dbOpen' \subseteq {issued}
    BY <2>1 DEF MatchInv
  <2> QED
    BY <2>1, <2>2, <2>3 DEF MatchInv
<1>2. LifeInv'
  BY DEF MatchInv, LifeInv, Idle, Clear, Registered, Matches
<1>3. MemberInv'
  BY DEF MemberInv, LifeInv
<1>4. SeatInv'
  BY DEF SeatInv, MemberInv, LifeInv, RosterParties, Ready, ReadyIn
<1> QED
  BY <1>1, <1>2, <1>3, <1>4

LEMMA GoLiveStep ==
  ASSUME IInv, GoLive
  PROVE  MatchInv' /\ LifeInv' /\ MemberInv' /\ SeatInv'
<1> USE PartyAssumption, BoundAssumption DEF lifeVars, startVars, closeVars,
        writeVars, linkVars, runVars, memberVars, claimVars, dbVars
<1> USE DEF IInv, TInv, TypeOK, LifeType, StartType, CloseType, WriteType,
        MemberType, OutsideType, GoLive
<1>1. MatchInv'
  BY DEF MatchInv, Registered
<1>2. LifeInv'
  BY DEF MatchInv, LifeInv, Idle, Clear, Registered, Matches
<1>3. MemberInv'
  BY DEF MemberInv, LifeInv
<1>4. SeatInv'
  BY DEF SeatInv, MemberInv, LifeInv, RosterParties, Ready, ReadyIn
<1> QED
  BY <1>1, <1>2, <1>3, <1>4

LEMMA StartAbortsStep ==
  ASSUME IInv, StartAborts
  PROVE  MatchInv' /\ LifeInv' /\ MemberInv' /\ SeatInv'
<1> USE PartyAssumption, BoundAssumption DEF lifeVars, startVars, closeVars,
        writeVars, linkVars, runVars, memberVars, claimVars, dbVars
<1> USE DEF IInv, TInv, TypeOK, LifeType, StartType, CloseType, WriteType,
        MemberType, OutsideType, StartAborts, FailStart
<1>1. MatchInv'
  BY DEF MatchInv, LifeInv, Idle, Clear, Registered, Matches, Writes
<1>2. LifeInv'
  BY DEF MatchInv, LifeInv, Idle, Clear, Registered, Matches
<1>3. MemberInv'
  BY DEF MemberInv, LifeInv
<1>4. SeatInv'
  BY DEF SeatInv, MemberInv, LifeInv, RosterParties, Ready, ReadyIn
<1> QED
  BY <1>1, <1>2, <1>3, <1>4

LEMMA CloseRunStep ==
  ASSUME IInv, NEW c \in closing, CloseRun(c)
  PROVE  MatchInv' /\ LifeInv' /\ MemberInv' /\ SeatInv'
<1> USE PartyAssumption, BoundAssumption DEF lifeVars, startVars, closeVars,
        writeVars, linkVars, runVars, memberVars, claimVars, dbVars
<1> USE DEF IInv, TInv, TypeOK, LifeType, StartType, CloseType, WriteType,
        MemberType, OutsideType, CloseRun, DroppedTimer, Forget, RetiresAfterRun
<1>8. /\ c = [run |-> issued, match |-> issued] /\ closing \ {c} = {} /\ issued # 0
      /\ start = "none" /\ boundary = 0 /\ late = 0 /\ phase # "live"
  BY ONLY c \in closing, LifeInv DEF LifeInv
<1>9. c.match = issued /\ c.run = issued /\ issued \in Matches
  BY <1>8 DEF Matches
<1>10. inflight = {}
  BY <1>9 DEF MatchInv, Matches
<1>1. /\ c.match = issued /\ closing' = {} /\ issued \in Matches /\ start = "none" /\ boundary = 0 /\ late = 0
      /\ inflight = {} /\ phase # "live" /\ phase' # "live"
  BY <1>8, <1>9, <1>10
<1>2. SettleSucceeds(issued, FALSE) \/ SettleFails(issued, FALSE)
  <2>1. c.match # 0
    BY <1>9 DEF Matches
  <2>2. SettleSucceeds(c.match, FALSE) \/ SettleFails(c.match, FALSE)
    BY ONLY CloseRun(c), <2>1 DEF CloseRun
  <2> QED
    BY ONLY <1>9, <2>2
<1>3. /\ dbOpen' \subseteq dbOpen /\ ops' \subseteq ops /\ late' = late
      /\ \A m \in Matches : m # issued => Registered(m)' = Registered(m)
      /\ SettleSucceeds(issued, FALSE) => dbOpen' = {} /\ ops' = {} /\ boundary' = 0 /\ settled'
      /\ SettleFails(issued, FALSE) => ~settled' /\ failed' /\ boundary' = issued /\ ~aborted'
  <2>1. TypeOK /\ MatchInv /\ issued' = issued
    OBVIOUS
  <2> QED
    BY ONLY <1>1, <1>2, <2>1, SettleEffect
<1>4. MatchInv'
  BY <1>1, <1>3 DEF MatchInv, Matches
<1>5. LifeInv'
  <2>1. CASE SettleSucceeds(issued, FALSE)
    BY <1>1, <1>3, <2>1 DEF LifeInv, Clear
  <2>2. CASE SettleFails(issued, FALSE)
    <3>1. retiring'
      BY <1>3, <2>2, Zenon
    <3> QED
      BY <1>1, <1>3, <2>2, <3>1 DEF LifeInv, Idle
  <2> QED
    BY <1>2, <2>1, <2>2
<1>6. MemberInv'
  BY DEF MemberInv, LifeInv
<1>7. SeatInv'
  BY DEF SeatInv, MemberInv, LifeInv, RosterParties, Ready, ReadyIn
<1> QED
  BY <1>4, <1>5, <1>6, <1>7

LEMMA RetrySettlementStep ==
  ASSUME IInv, RetrySettlement
  PROVE  MatchInv' /\ LifeInv' /\ MemberInv' /\ SeatInv'
<1> USE PartyAssumption, BoundAssumption DEF lifeVars, startVars, closeVars,
        writeVars, linkVars, runVars, memberVars, claimVars, dbVars
<1> USE DEF IInv, TInv, TypeOK, LifeType, StartType, CloseType, WriteType,
        MemberType, OutsideType, RetrySettlement
<1>1. /\ boundary = issued /\ issued \in Matches /\ start = "none" /\ closing = {}
      /\ inflight = {} /\ phase # "live" /\ retiring /\ (aborted => ops = {}) /\ issued # 0
  BY DEF MatchInv, LifeInv, Matches
<1>2. /\ dbOpen' \subseteq dbOpen /\ ops' \subseteq ops /\ late' = late
      /\ \A m \in Matches : m # issued => Registered(m)' = Registered(m)
      /\ Registered(issued) = {} => SettleFails(issued, aborted) /\ Registered(issued)' = {}
      /\ SettleSucceeds(issued, aborted) => /\ dbOpen' = {} /\ ops' = {} /\ boundary' = 0 /\ settled'
                                   /\ Registered(issued) # {}
      /\ SettleFails(issued, aborted) => ~settled' /\ boundary' = issued /\ aborted' = aborted
  <2>1. TypeOK /\ MatchInv /\ issued' = issued /\ (SettleSucceeds(issued, aborted) \/ SettleFails(issued, aborted))
    BY <1>1
  <2> QED
    BY ONLY <1>1, <2>1, SettleEffect
<1>3. MatchInv'
  BY <1>1, <1>2 DEF MatchInv, Matches
<1>4. LifeInv'
  <2>1. CASE SettleSucceeds(issued, aborted)
    BY <1>1, <1>2, <2>1 DEF LifeInv, Idle, Clear
  <2>2. CASE SettleFails(issued, aborted)
    BY <1>1, <1>2, <2>2 DEF LifeInv, Idle
  <2> QED
    BY <1>1, <2>1, <2>2
<1>5. MemberInv'
  BY DEF MemberInv, LifeInv
<1>6. SeatInv'
  BY DEF SeatInv, MemberInv, LifeInv, RosterParties, Ready, ReadyIn
<1> QED
  BY <1>3, <1>4, <1>5, <1>6

LEMMA RetireStep ==
  ASSUME IInv, Retire
  PROVE  MatchInv' /\ LifeInv' /\ MemberInv' /\ SeatInv'
<1> USE PartyAssumption, BoundAssumption DEF lifeVars, startVars, closeVars,
        writeVars, linkVars, runVars, memberVars, claimVars, dbVars
<1> USE DEF IInv, TInv, TypeOK, LifeType, StartType, CloseType, WriteType,
        MemberType, OutsideType, Retire
<1>1. MatchInv'
  BY MatchFrame
<1>2. LifeInv'
  BY DEF MatchInv, LifeInv, Idle, Clear, Registered, Matches
<1>3. MemberInv'
  BY DEF MemberInv, LifeInv
<1>4. SeatInv'
  BY DEF SeatInv, MemberInv, LifeInv, RosterParties, Ready, ReadyIn
<1> QED
  BY <1>1, <1>2, <1>3, <1>4

LEMMA DisposeRetiredStep ==
  ASSUME IInv, DisposeRetired
  PROVE  MatchInv' /\ LifeInv' /\ MemberInv' /\ SeatInv'
<1> USE PartyAssumption, BoundAssumption DEF lifeVars, startVars, closeVars,
        writeVars, linkVars, runVars, memberVars, claimVars, dbVars
<1> USE DEF IInv, TInv, TypeOK, LifeType, StartType, CloseType, WriteType,
        MemberType, OutsideType, DisposeRetired
<1>1. MatchInv'
  BY MatchFrame
<1>2. LifeInv'
  BY DEF MatchInv, LifeInv, Idle, Clear, Registered, Matches
<1>3. MemberInv'
  BY DEF MemberInv, LifeInv
<1>4. SeatInv'
  BY DEF SeatInv, MemberInv, LifeInv, RosterParties, Ready, ReadyIn
<1> QED
  BY <1>1, <1>2, <1>3, <1>4

LEMMA DisposeEmptyStep ==
  ASSUME IInv, DisposeEmpty
  PROVE  MatchInv' /\ LifeInv' /\ MemberInv' /\ SeatInv'
<1> USE PartyAssumption, BoundAssumption DEF lifeVars, startVars, closeVars,
        writeVars, linkVars, runVars, memberVars, claimVars, dbVars
<1> USE DEF IInv, TInv, TypeOK, LifeType, StartType, CloseType, WriteType,
        MemberType, OutsideType, DisposeEmpty
<1>1. MatchInv'
  BY MatchFrame
<1>2. LifeInv'
  BY DEF MatchInv, LifeInv, Idle, Clear, Registered, Matches
<1>3. MemberInv'
  BY DEF MemberInv, LifeInv
<1>4. SeatInv'
  BY DEF SeatInv, MemberInv, LifeInv, RosterParties, Ready, ReadyIn
<1> QED
  BY <1>1, <1>2, <1>3, <1>4

LEMMA WriteStep ==
  ASSUME IInv, NEW w \in inflight, (WriteSucceeds(w) \/ WriteFails(w))
  PROVE  MatchInv' /\ LifeInv' /\ MemberInv' /\ SeatInv'
<1> USE PartyAssumption, BoundAssumption DEF lifeVars, startVars, closeVars,
        writeVars, linkVars, runVars, memberVars, claimVars, dbVars
<1> USE DEF IInv, TInv, TypeOK, LifeType, StartType, CloseType, WriteType,
        MemberType, OutsideType, WriteSucceeds, WriteFails, Kept, Dropped
<1>1. w \in Writes /\ w.match = issued /\ start = "none"
  BY DEF MatchInv, LifeInv, Clear
<1>2. \A m \in Matches : m > issued => Registered(m)' = {}
  <2>1. CASE UNCHANGED ledger
    BY <2>1 DEF MatchInv, Registered
  <2>2. CASE ledger' = Recorded({w})
    <3>1. ASSUME NEW m \in Matches, m > issued PROVE ledger'[m] = ledger[m]
      <4>1. {w} \in SUBSET Writes /\ \A v \in {w} : v.match # m
        BY <1>1, <3>1 DEF Matches
      <4> QED
        BY ONLY TypeOK, <2>2, <4>1, RecordedElsewhere
    <3> QED
      BY <3>1 DEF MatchInv, Registered
  <2> QED
    BY <2>1, <2>2
<1>3. MatchInv'
  BY <1>1, <1>2 DEF MatchInv, LifeInv
<1>4. LifeInv'
  BY DEF MatchInv, LifeInv, Idle, Clear, Registered, Matches
<1>5. MemberInv'
  BY DEF MemberInv, LifeInv
<1>6. SeatInv'
  BY DEF SeatInv, MemberInv, LifeInv, RosterParties, Ready, ReadyIn
<1> QED
  BY <1>3, <1>4, <1>5, <1>6

(* Every step keeps the invariant. *)
LEMMA InvStep ==
  ASSUME IInv, [OrderlyStep]_vars, [Next]_vars
  PROVE  IInv'
<1>1. TInv'
  BY TypeStep DEF IInv
<1>2. MatchInv' /\ LifeInv' /\ MemberInv' /\ SeatInv'
  <2>1. CASE UNCHANGED vars \/ Ended
    <3>1. UNCHANGED vars
      BY <2>1 DEF Ended
    <3> USE <3>1 DEF IInv, vars, lifeVars, startVars, closeVars, writeVars,
            linkVars, runVars,
                    memberVars, claimVars, dbVars
    <3>2. MatchInv'
      BY MatchFrame
    <3>3. LifeInv'
      BY DEF LifeInv, Idle, Clear, Registered
    <3>4. MemberInv' /\ SeatInv'
      BY DEF MemberInv, SeatInv, RosterParties, Ready, ReadyIn
    <3> QED
      BY <3>2, <3>3, <3>4
  <2> QED
    BY <2>1, ReserveStep, CancelQueueStep, JoinPartyStep, ReleasePartyStep,
       DropReservationStep,
       ReconnectStep, DisconnectStep, ExpireHandoffStep, LeaveDownedStep, LeaveRunStep,
       ExtractStep, TimeoutRunStep, AbandonAssemblyStep, OpenWindowStep, EnterCountdownStep,
       BeginStartStep, SimulationReadyStep, SimulationThrowsStep, StartRegisteredStep,
       StartRefusedStep, StartCommitsLateStep, GoLiveStep, StartAbortsStep, CloseRunStep,
       RetrySettlementStep, RetireStep, DisposeRetiredStep, DisposeEmptyStep, WriteStep
    DEF Next
<1> QED
  BY <1>1, <1>2 DEF IInv

(* The arena starts with nothing pending. *)
LEMMA InvInit == Init => IInv
<1> SUFFICES ASSUME Init PROVE IInv
  OBVIOUS
<1>1. TInv
  BY TypeInit
<1>2. \A m \in Matches : Registered(m) = {}
  BY DEF Init, Registered, NoOutcome
<1>3. MatchInv
  BY <1>2 DEF Init, MatchInv
<1>4. LifeInv
  BY DEF Init, LifeInv, Idle, Clear
<1>5. MemberInv /\ SeatInv
  BY DEF Init, MemberInv, SeatInv
<1> QED
  BY <1>1, <1>3, <1>4, <1>5 DEF IInv

(* In an orderly course, an arena that says it is safe to terminate has    *)
(* closed every match it registered, and no write or start is outstanding: *)
(* safeToTerminate of Room.ts means what its name says.                    *)
THEOREM SafeToTerminateIsSafe ==
  Spec /\ Orderly => []SafeMeansClosed
<1>1. IInv /\ [Next]_vars /\ [OrderlyStep]_vars => IInv'
  BY InvStep
<1>2. IInv => SafeMeansClosed
  BY DEF IInv, LifeInv, Idle, Clear, TInv, TypeOK, StartType, CloseType,
     SafeMeansClosed, SafeToTerminate
<1> QED
  BY <1>1, <1>2, InvInit, PTL DEF Spec, Orderly

(***************************************************************************)
(* What happened to each participant of a run reaches the database, and    *)
(* what a player is told and may do agrees with it: whatever fails, drops  *)
(* or is cancelled, no outcome but a disconnection is lost, the match is   *)
(* closed with the outcomes that were played, "saved" means saved, and the *)
(* bots follow their humans.                                               *)
(*                                                                         *)
(* The invariant CInv rests on IInv, which says that everything pending    *)
(* belongs to the match issued last.  Most steps write nothing; the others *)
(* decide outcomes (Decides), register or abort a match, or let writes     *)
(* through, and each kind has a lemma of its own.                          *)
(***************************************************************************)

(* Who is queued is a member that may be credited, and not in a run; who   *)
(* is over is not in a run; a grace period runs only for the disconnected; *)
(* only a run that is over is reported on.                                 *)
PlayerInv ==
  /\ queued \subseteq eligible /\ eligible \subseteq present
  /\ queued \cap inRun = {} /\ over \cap inRun = {}
  /\ \A p \in peer : handoff[p] = "none"
  /\ \A p \in present : handoff[p] # "stale"
  /\ \A p \in Players : report[p] # "none" => p \in over

(* The roster of a start stays whole: whoever leaves does so on purpose,   *)
(* or with a party that gave up its claim, which the database refuses.     *)
GivenUp == \E q \in RosterParties : seat[q] # "joined"
Left(p) == p \notin present /\ handoff[p] = "none"
Whole == \A p \in roster : p \in present \cap queued \/ Left(p)

(* A start that may still commit after its caller gave up finds its whole  *)
(* roster in the closing that is owed.                                     *)
RosterInv ==
  /\ start \in {"creating", "registering"} => GivenUp \/ Whole
  /\ start = "reading" => Whole
  /\ start # "none" => \A p \in roster \cap present : p \in peer \/ handoff[p] = "armed" \/ p \notin token
  /\ late # 0 => aborted /\ (GivenUp \/ roster \cap present \subseteq abort)
  /\ abort # {} => retiring /\ start = "none" /\ closing = {} /\ phase # "live"

(* What is written, and what was, is the outcome of matchOutcomes, and a   *)
(* player still in the run that may be credited has none.                  *)
Unwritten(p) == \A w \in inflight \cup ops : w.player # p
WriteInv ==
  /\ \A w \in inflight \cup ops : w.outcome = matchOutcomes[w.player]
  /\ \A p \in Players : issued # 0 /\ ledger[issued][p] \in Outcomes => ledger[issued][p] = matchOutcomes[p]
  /\ start = "reading" => \A p \in Players : ledger[issued][p] \in {"none", "active"}
  /\ start = "reading" => \A p \in Players : ledger[issued][p] = "active" => p \in roster
  /\ phase = "live" => \A p \in inRun \cap eligible : ledger[issued][p] \in {"none", "active"} /\ Unwritten(p)
  /\ phase = "live" => \A w \in inflight \cup ops : w.outcome \in Reasons => w.player \notin inRun
  /\ \A p \in abort : matchOutcomes[p] = "disconnected"

(* Who has no outcome is on the way to one, was counted as disconnected,   *)
(* or left an aborted start; the latter does not come back.                *)
Active(p) == issued \in dbOpen /\ ledger[issued][p] = "active"
LeftAborted(p) == boundary = issued /\ aborted /\ retiring /\ p \notin present
OwnerInv == \A p \in Players :
  Active(p) => Owned(issued, p) \/ matchOutcomes[p] = "disconnected" \/ LeftAborted(p)

CInv == PlayerInv /\ RosterInv /\ ControllerMatchesConnection /\ WriteInv /\ OwnerInv /\ SavedIsDurable

-----------------------------------------------------------------------------
(* Writes the database accepts set outcomes and change none. *)
LEMMA RecordedBy ==
  ASSUME TypeOK, NEW W \in SUBSET Writes, \A w \in W : CanRecord(w), NEW m \in Matches, NEW p \in Players
  PROVE  /\ \/ \E w \in W : w.match = m /\ w.player = p /\ Recorded(W)[m][p] = w.outcome
            \/ Recorded(W)[m][p] = ledger[m][p] /\ ~\E w \in W : w.match = m /\ w.player = p
         /\ ledger[m][p] \in Outcomes => Recorded(W)[m][p] = ledger[m][p]
<1>1. CASE \E w \in W : w.match = m /\ w.player = p
  <2> DEFINE v == CHOOSE w \in W : w.match = m /\ w.player = p
  <2>1. v \in W /\ v.match = m /\ v.player = p
    BY <1>1
  <2>2. Recorded(W)[m][p] = v.outcome
    BY <1>1 DEF Recorded
  <2>3. ledger[m][p] \in {"active", v.outcome}
    BY <2>1 DEF CanRecord
  <2> HIDE DEF v
  <2>4. ledger[m][p] \in Outcomes => ledger[m][p] = v.outcome
    BY <2>3 DEF Outcomes, Reasons
  <2> QED
    BY <2>1, <2>2, <2>4
<1>2. CASE ~\E w \in W : w.match = m /\ w.player = p
  <2>1. Recorded(W)[m][p] = ledger[m][p]
    BY <1>2 DEF Recorded
  <2> QED
    BY <1>2, <2>1
<1> QED
  BY <1>1, <1>2

(* An attempt to close a match lets some of what is owed through and keeps *)
(* the rest; it closes the match only with everything through.             *)
LEMMA SettleWrites ==
  ASSUME TypeOK, MatchInv, issued \in Matches, issued' = issued,
         NEW ab, ab => ops = {}, SettleSucceeds(issued, ab) \/ SettleFails(issued, ab)
  PROVE  \E W \in SUBSET Owed(issued, ab) :
           /\ \A w \in W : CanRecord(w)
           /\ ledger' = Recorded(W)
           /\ \A w \in ops : w \in ops' \/ w \in W
           /\ ops' \subseteq ops
           /\ dbOpen' = dbOpen \/ (Closable(issued, ab) /\ W = Owed(issued, ab) /\ dbOpen' = {})
           /\ dbOpen' = {} \/ (boundary' = issued /\ aborted' = ab)
           /\ SettleFails(issued, ab) /\ ~Closable(issued, ab) => W = {w \in Owed(issued, ab) : CanRecord(w)}
<1>1. \A w \in ops : w.match = issued
  BY DEF MatchInv
<1>2. Closable(issued, ab) => \A w \in Owed(issued, ab) : CanRecord(w)
  BY DEF Closable
<1>3. CASE SettleSucceeds(issued, ab)
  BY <1>1, <1>2, <1>3 DEF SettleSucceeds, Close, Owed, MatchInv
<1>4. CASE SettleFails(issued, ab) /\ ~Closable(issued, ab)
  <2>1. /\ ledger' = Recorded({w \in Owed(issued, ab) : CanRecord(w)})
        /\ ops' = Unkept(ab, {w \in Owed(issued, ab) : CanRecord(w)})
        /\ dbOpen' = dbOpen /\ boundary' = issued /\ aborted' = ab
    BY <1>4 DEF SettleFails
  <2>2. /\ \A w \in ops : w \in ops' \/ w \in {v \in Owed(issued, ab) : CanRecord(v)}
        /\ ops' \subseteq ops
    BY <2>1 DEF Unkept
  <2> WITNESS {w \in Owed(issued, ab) : CanRecord(w)} \in SUBSET Owed(issued, ab)
  <2> QED
    BY <2>1, <2>2
<1>5. CASE SettleFails(issued, ab) /\ Closable(issued, ab)
  <2>1. CASE \E W \in SUBSET Owed(issued, ab) : ledger' = Recorded(W) /\ ops' = Unkept(ab, W) /\ UNCHANGED dbOpen
    BY <1>2, <1>5, <2>1 DEF SettleFails, Unkept
  <2>2. CASE Close(issued, ab) /\ ops' = Unkept(ab, Owed(issued, ab))
    BY <1>1, <1>2, <1>5, <2>2 DEF Close, Unkept, MatchInv
  <2> QED
    BY <1>5, <2>1, <2>2 DEF SettleFails
<1> QED
  BY <1>3, <1>4, <1>5

(* Steps that write nothing and leave the run as it is. *)
LEMMA WriteFrame ==
  ASSUME IInv, CInv, UNCHANGED <<ledger, inflight, ops, matchOutcomes, abort, dbOpen, issued, boundary, aborted, matchId, start>>,
         phase' = "live" <=> phase = "live",
         phase = "live" => UNCHANGED <<inRun, eligible, present>>,
         roster' = roster \/ start # "reading",
         retiring => retiring' /\ present' \subseteq present,
         \A p \in Players : report'[p] = "saved" => report[p] = "saved" /\ p \in over'
  PROVE  WriteInv' /\ OwnerInv' /\ SavedIsDurable'
<1>1. WriteInv'
  BY DEF CInv, WriteInv, Unwritten
<1>2. OwnerInv'
  BY DEF CInv, OwnerInv, Active, LeftAborted, Owned
<1>3. SavedIsDurable'
  BY DEF CInv, SavedIsDurable
<1> QED
  BY <1>1, <1>2, <1>3

(* The members D of a live run get the outcome o: it is noted, its write   *)
(* goes out, and they are done or played on by the AI.                     *)
Decides(D, o) ==
  /\ phase = "live" /\ D \subseteq inRun \cap eligible /\ o \in Outcomes
  /\ \A p \in Players : matchOutcomes'[p] = IF p \in D THEN o ELSE matchOutcomes[p]
  /\ inflight \subseteq inflight'
  /\ \A w \in inflight' : w \in inflight \/ (w.match = issued /\ w.player \in D /\ w.outcome = o)
  /\ \A p \in D : \E w \in inflight' : w.match = issued /\ w.player = p
  /\ ops' \subseteq ops /\ \A w \in ops : w \in ops' \/ w.player \in inRun \ eligible
  /\ inRun' \subseteq inRun /\ eligible' \subseteq eligible /\ D \cap inRun' \cap eligible' = {}
  /\ o \in Reasons => D \cap inRun' = {}
  /\ \A p \in present \cap inRun \cap eligible :
       p \in D \/ (phase' = "live" /\ p \in present' \cap inRun' \cap eligible')
  /\ \A p \in Players : report'[p] = "saved" => report[p] = "saved" /\ p \in over'
  /\ UNCHANGED <<ledger, abort, dbOpen, issued, boundary, matchId, start>>

(* Deciding outcomes keeps them unique, owned and true. *)
LEMMA DecideWrites ==
  ASSUME IInv, CInv, NEW D, NEW o, Decides(D, o)
  PROVE  WriteInv' /\ OwnerInv' /\ SavedIsDurable'
<1> USE DEF IInv, TInv, TypeOK, StartType, CloseType, WriteType, MemberType, OutsideType, CInv, Decides
<1>1. issued \in Matches /\ matchId = issued /\ start = "none" /\ abort = {}
  BY DEF MatchInv, LifeInv, Matches, RosterInv
<1>2. \A w \in inflight' : w \in inflight \/ (w.match = issued /\ w.player \in D /\ w.outcome = o)
  OBVIOUS
<1>3. \A p \in D : \E w \in inflight' : w.match = issued /\ w.player = p
  OBVIOUS
<1>4. \A w \in inflight \cup ops : w.player \in Players /\ w.player \notin D /\ w.match = issued
  BY DEF WriteInv, Unwritten, MatchInv, Writes
<1>5. \A p \in D : p \in Players /\ ledger[issued][p] \in {"none", "active"}
  BY DEF WriteInv
<1>6. WriteInv'
  <2>1. ASSUME NEW w \in (inflight \cup ops)' PROVE w.outcome = matchOutcomes'[w.player]
    <3>1. CASE w \in inflight \cup ops
      BY <1>4, <3>1 DEF WriteInv
    <3>2. CASE w.player \in D /\ w.outcome = o
      BY <1>5, <3>2
    <3> QED
      BY <1>2, <2>1, <3>1, <3>2
  <2>2. \A p \in Players : ledger[issued][p] \in Outcomes => ledger[issued][p] = matchOutcomes'[p]
    BY <1>1, <1>5 DEF WriteInv, Outcomes, Reasons, Matches
  <2>3. ASSUME phase' = "live", NEW p \in (inRun \cap eligible)'
        PROVE  ledger[issued][p] \in {"none", "active"} /\ Unwritten(p)'
    <3>1. p \in inRun \cap eligible /\ p \notin D
      BY <2>3
    <3> QED
      BY <1>2, <3>1 DEF WriteInv, Unwritten
  <2>4. ASSUME phase' = "live", NEW w \in (inflight \cup ops)', w.outcome \in Reasons PROVE w.player \notin inRun'
    BY <1>2, <2>4 DEF WriteInv
  <2> QED
    BY <1>1, <2>1, <2>2, <2>3, <2>4 DEF WriteInv, Unwritten
<1>7. OwnerInv'
  <2>1. ASSUME NEW p \in Players, Active(p), p \notin D
        PROVE  Owned(issued, p)' \/ matchOutcomes'[p] = "disconnected"
    <3>1. Owned(issued, p) \/ matchOutcomes[p] = "disconnected"
      BY <1>1, <2>1 DEF OwnerInv, LeftAborted, LifeInv, Matches
    <3>2. CASE matchOutcomes[p] = "disconnected"
      BY <2>1, <3>2
    <3>3. CASE p \in present \cap inRun \cap eligible
      BY <1>1, <2>1, <3>3 DEF Owned
    <3>4. CASE \E w \in inflight : w.match = issued /\ w.player = p
      BY <3>4 DEF Owned
    <3>5. ASSUME NEW w \in ops, w.match = issued, w.player = p
          PROVE  w \in ops' \/ matchOutcomes[p] = "disconnected"
      BY <3>5 DEF WriteInv, Writes, Outcomes
    <3>6. CASE \E w \in ops : w.match = issued /\ w.player = p
      BY <2>1, <3>5, <3>6 DEF Owned
    <3>7. boundary # issued
      BY <1>1 DEF LifeInv, Matches
    <3> QED
      BY <1>1, <3>1, <3>2, <3>3, <3>4, <3>6, <3>7 DEF Owned
  <2>2. ASSUME NEW p \in D PROVE Owned(issued, p)'
    BY <1>3 DEF Owned
  <2> QED
    BY <1>1, <2>1, <2>2 DEF OwnerInv, Active
<1>8. SavedIsDurable'
  BY DEF SavedIsDurable
<1> QED
  BY <1>6, <1>7, <1>8

(* A registered match has the roster for participants, all active. *)
LEMMA RegisterLedger ==
  ASSUME IInv, issued \in Matches, Registered(issued) = {}, Register(issued), UNCHANGED <<issued, roster>>
  PROVE  /\ \A m \in Matches : m # issued => ledger'[m] = ledger[m]
         /\ \A p \in Players : ledger'[issued][p] = (IF p \in roster THEN "active" ELSE "none")
         /\ \A p \in Players : ledger[issued][p] = "none"
BY DEF Register, Registered, IInv, TInv, TypeOK, OutsideType

(* An aborted start owes the closing of its match, in which the whole      *)
(* roster counts as disconnected.                                          *)
LEMMA FailStartWrites ==
  ASSUME IInv, CInv, start \in {"registering", "reading"}, FailStart, UNCHANGED <<issued, roster, present, inflight, ops, report, over>>,
         dbOpen' \subseteq {issued},
         \A m \in Matches : m # issued => ledger'[m] = ledger[m],
         \A p \in Players : ledger[issued][p] \in {"none", "active"} /\ ledger'[issued][p] \in {"none", "active"},
         \A p \in Players : ledger'[issued][p] = "active" => p \in roster,
         (\E p \in Players : ledger'[issued][p] = "active") => Whole
  PROVE  WriteInv' /\ OwnerInv' /\ SavedIsDurable'
<1> USE DEF IInv, TInv, TypeOK, StartType, CloseType, WriteType, MemberType, OutsideType, CInv, FailStart
<1>1. issued \in Matches /\ matchId = issued /\ inflight = {} /\ ops = {} /\ issued # 0
  BY DEF MatchInv, LifeInv, Matches, Clear
<1>2. /\ start' = "none" /\ phase' = "assembling" /\ boundary' = issued
      /\ abort' = roster \cap present \cap eligible
      /\ matchOutcomes' = [p \in Players |-> IF p \in abort' THEN "disconnected" ELSE matchOutcomes[p]]
  BY <1>1
<1>3. WriteInv'
  BY <1>1, <1>2 DEF WriteInv, Outcomes, Reasons
<1>4. OwnerInv'
  <2>1. ASSUME NEW p \in Players, ledger'[issued][p] = "active"
        PROVE  p \in abort' \/ p \notin present'
    BY <1>2, <2>1 DEF Whole, Left, PlayerInv
  <2>2. retiring' /\ aborted'
    BY <1>1, Zenon
  <2> QED
    BY <1>1, <1>2, <2>1, <2>2 DEF OwnerInv, Active, LeftAborted, Owned
<1>5. SavedIsDurable'
  <2>1. \A p \in Players, m \in Matches : ledger[m][p] \in Reasons => ledger'[m][p] = ledger[m][p]
    BY <1>1 DEF Reasons
  <2> QED
    BY <2>1 DEF SavedIsDurable
<1> QED
  BY <1>3, <1>4, <1>5

(* An attempt to close a match keeps the outcomes true and owned. *)
LEMMA SettleCredits ==
  ASSUME IInv, CInv, NEW ab, ab => ops = {}, SettleSucceeds(issued, ab) \/ SettleFails(issued, ab),
         issued \in Matches, boundary = 0 \/ (ab = aborted /\ UNCHANGED <<retiring, present>>),
         UNCHANGED <<issued, abort, matchOutcomes, inflight, start>>, inflight = {},
         start = "none", phase # "live", phase' # "live",
         \A p \in Players : report'[p] = "saved" => report[p] = "saved" /\ p \in over'
  PROVE  WriteInv' /\ OwnerInv' /\ SavedIsDurable'
<1> USE DEF IInv, TInv, TypeOK, StartType, CloseType, WriteType, MemberType, OutsideType, CInv
<1>1. PICK W \in SUBSET Owed(issued, ab) :
           /\ \A w \in W : CanRecord(w)
           /\ ledger' = Recorded(W)
           /\ \A w \in ops : w \in ops' \/ w \in W
           /\ ops' \subseteq ops
           /\ dbOpen' = dbOpen \/ (Closable(issued, ab) /\ W = Owed(issued, ab) /\ dbOpen' = {})
           /\ dbOpen' = {} \/ (boundary' = issued /\ aborted' = ab)
  BY SettleWrites
<1>2. W \in SUBSET Writes
  BY OwedType
<1>3. \A w \in W : w.outcome = matchOutcomes[w.player] /\ w.match = issued
  BY DEF Owed, WriteInv
<1>4. \A m \in Matches, p \in Players :
        /\ \/ \E w \in W : w.match = m /\ w.player = p /\ ledger'[m][p] = w.outcome
           \/ ledger'[m][p] = ledger[m][p] /\ ~\E w \in W : w.match = m /\ w.player = p
        /\ ledger[m][p] \in Outcomes => ledger'[m][p] = ledger[m][p]
  BY <1>1, <1>2, RecordedBy
<1>5. \A w \in W : w.outcome \in Outcomes /\ w.outcome # "active"
  BY <1>2 DEF Writes, Outcomes, Reasons
<1>6. WriteInv'
  <2>1. \A w \in ops' : w.outcome = matchOutcomes[w.player]
    BY <1>1 DEF WriteInv
  <2>2. \A p \in Players : ledger'[issued][p] \in Outcomes => ledger'[issued][p] = matchOutcomes[p]
    BY <1>3, <1>4 DEF WriteInv, Matches
  <2> QED
    BY <2>1, <2>2 DEF WriteInv
<1>7. OwnerInv'
  <2>1. ASSUME NEW p \in Players, issued \in dbOpen', ledger'[issued][p] = "active"
        PROVE  Owned(issued, p)' \/ matchOutcomes'[p] = "disconnected" \/ LeftAborted(p)'
    <3>1. ledger[issued][p] = "active" /\ ~\E w \in W : w.match = issued /\ w.player = p
      BY <1>4, <1>5, <2>1
    <3>2. issued \in dbOpen /\ boundary' = issued /\ aborted' = ab
      BY <1>1, <2>1
    <3>5. boundary = issued => ab = aborted /\ retiring' = retiring /\ present' = present
      BY DEF Matches
    <3>3. CASE LeftAborted(p)
      BY ONLY <3>2, <3>3, <3>5, issued' = issued DEF LeftAborted
    <3>4. CASE Owned(issued, p)
      <4>1. CASE \E w \in ops : w.match = issued /\ w.player = p
        BY <1>1, <3>1, <4>1 DEF Owned
      <4>2. CASE boundary = issued /\ aborted /\ p \in abort
        BY ONLY <3>2, <3>5, <4>2, issued' = issued, abort' = abort DEF Owned
      <4> QED
        BY <3>4, <4>1, <4>2 DEF Owned
    <3> QED
      BY <3>1, <3>2, <3>3, <3>4 DEF OwnerInv, Active
  <2> QED
    BY <2>1 DEF OwnerInv, Active
<1>8. SavedIsDurable'
  BY <1>4 DEF SavedIsDurable, Outcomes
<1> QED
  BY <1>6, <1>7, <1>8

(***************************************************************************)
(* One lemma per action: it keeps every part of the invariant.             *)
(***************************************************************************)
LEMMA ReserveCredits ==
  ASSUME IInv, CInv, OrderlyStep, NEW q \in Parties, Reserve(q)
  PROVE  CInv'
<1> USE PartyAssumption DEF lifeVars, startVars, closeVars, writeVars, linkVars, runVars, memberVars,
        claimVars, dbVars
<1> USE DEF IInv, TInv, TypeOK, LifeType, StartType, CloseType, WriteType, MemberType, OutsideType, CInv, Reserve, Admissible
<1>1. PlayerInv'
  BY DEF PlayerInv, MemberInv, LifeInv
<1>2. RosterInv'
  BY DEF RosterInv, PlayerInv, MatchInv, LifeInv, MemberInv, SeatInv, GivenUp, Left, Whole, RosterParties, Ready, ReadyIn
<1>3. ControllerMatchesConnection'
  BY DEF ControllerMatchesConnection, PlayerInv, RosterInv, MatchInv, LifeInv, MemberInv, SeatInv
<1>4. WriteInv' /\ OwnerInv' /\ SavedIsDurable'
  <2>1. \A v \in Players : report'[v] = "saved" => report[v] = "saved" /\ v \in over'
    BY DEF PlayerInv
  <2> QED
    BY <2>1, WriteFrame DEF LifeInv, SeatInv
<1> QED
  BY <1>1, <1>2, <1>3, <1>4

LEMMA CancelQueueCredits ==
  ASSUME IInv, CInv, OrderlyStep, NEW q \in Parties, CancelQueue(q)
  PROVE  CInv'
<1> USE PartyAssumption DEF lifeVars, startVars, closeVars, writeVars, linkVars, runVars, memberVars,
        claimVars, dbVars
<1> USE DEF IInv, TInv, TypeOK, LifeType, StartType, CloseType, WriteType, MemberType, OutsideType, CInv, CancelQueue
<1>1. PlayerInv'
  BY DEF PlayerInv, MemberInv, LifeInv
<1>2. RosterInv'
  BY DEF RosterInv, PlayerInv, MatchInv, LifeInv, MemberInv, SeatInv, GivenUp, Left, Whole, RosterParties, Ready, ReadyIn
<1>3. ControllerMatchesConnection'
  BY DEF ControllerMatchesConnection, PlayerInv, RosterInv, MatchInv, LifeInv, MemberInv, SeatInv
<1>4. WriteInv' /\ OwnerInv' /\ SavedIsDurable'
  <2>1. \A v \in Players : report'[v] = "saved" => report[v] = "saved" /\ v \in over'
    BY DEF PlayerInv
  <2> QED
    BY <2>1, WriteFrame DEF LifeInv, SeatInv
<1> QED
  BY <1>1, <1>2, <1>3, <1>4

LEMMA JoinPartyCredits ==
  ASSUME IInv, CInv, OrderlyStep, NEW q \in Parties, JoinParty(q)
  PROVE  CInv'
<1> USE PartyAssumption DEF lifeVars, startVars, closeVars, writeVars, linkVars, runVars, memberVars,
        claimVars, dbVars
<1> USE DEF IInv, TInv, TypeOK, LifeType, StartType, CloseType, WriteType, MemberType, OutsideType, CInv, JoinParty, Admissible, DroppedTimer, DroppedReport
<1>1. PlayerInv'
  BY DEF PlayerInv, MemberInv, LifeInv
<1>2. RosterInv'
  BY DEF RosterInv, PlayerInv, MatchInv, LifeInv, MemberInv, SeatInv, GivenUp, Left, Whole, RosterParties, Ready, ReadyIn
<1>3. ControllerMatchesConnection'
  BY DEF ControllerMatchesConnection, PlayerInv, RosterInv, MatchInv, LifeInv, MemberInv, SeatInv
<1>4. WriteInv' /\ OwnerInv' /\ SavedIsDurable'
  <2>1. \A v \in Players : report'[v] = "saved" => report[v] = "saved" /\ v \in over'
    BY DEF PlayerInv
  <2> QED
    BY <2>1, WriteFrame DEF LifeInv, SeatInv
<1> QED
  BY <1>1, <1>2, <1>3, <1>4

LEMMA ReleasePartyCredits ==
  ASSUME IInv, CInv, OrderlyStep, NEW q \in Parties, ReleaseParty(q)
  PROVE  CInv'
<1> USE PartyAssumption DEF lifeVars, startVars, closeVars, writeVars, linkVars, runVars, memberVars,
        claimVars, dbVars
<1> USE DEF IInv, TInv, TypeOK, LifeType, StartType, CloseType, WriteType, MemberType, OutsideType, CInv, ReleaseParty, DroppedTimer, DroppedReport, Forget, ResetIf, EndClaims, OrderlyStep
<1>1. PlayerInv'
  BY DEF PlayerInv, MemberInv, LifeInv
<1>2. RosterInv'
  BY DEF RosterInv, PlayerInv, MatchInv, LifeInv, MemberInv, SeatInv, GivenUp, Left, Whole, RosterParties, Ready, ReadyIn
<1>3. ControllerMatchesConnection'
  BY DEF ControllerMatchesConnection, PlayerInv, RosterInv, MatchInv, LifeInv, MemberInv, SeatInv
<1>4. WriteInv' /\ OwnerInv' /\ SavedIsDurable'
  <2>1. \A v \in Players : report'[v] = "saved" => report[v] = "saved" /\ v \in over'
    BY DEF PlayerInv
  <2> QED
    BY <2>1, WriteFrame DEF LifeInv, SeatInv
<1> QED
  BY <1>1, <1>2, <1>3, <1>4

LEMMA DropReservationCredits ==
  ASSUME IInv, CInv, OrderlyStep, NEW q \in Parties, DropReservation(q)
  PROVE  CInv'
<1> USE PartyAssumption DEF lifeVars, startVars, closeVars, writeVars, linkVars, runVars, memberVars,
        claimVars, dbVars
<1> USE DEF IInv, TInv, TypeOK, LifeType, StartType, CloseType, WriteType, MemberType, OutsideType, CInv, DropReservation, EndClaims
<1>1. PlayerInv'
  BY DEF PlayerInv, MemberInv, LifeInv
<1>2. RosterInv'
  BY DEF RosterInv, PlayerInv, MatchInv, LifeInv, MemberInv, SeatInv, GivenUp, Left, Whole, RosterParties, Ready, ReadyIn
<1>3. ControllerMatchesConnection'
  BY DEF ControllerMatchesConnection, PlayerInv, RosterInv, MatchInv, LifeInv, MemberInv, SeatInv
<1>4. WriteInv' /\ OwnerInv' /\ SavedIsDurable'
  <2>1. \A v \in Players : report'[v] = "saved" => report[v] = "saved" /\ v \in over'
    BY DEF PlayerInv
  <2> QED
    BY <2>1, WriteFrame DEF LifeInv, SeatInv
<1> QED
  BY <1>1, <1>2, <1>3, <1>4

LEMMA ReconnectCredits ==
  ASSUME IInv, CInv, OrderlyStep, NEW p \in Players, Reconnect(p)
  PROVE  CInv'
<1> USE PartyAssumption DEF lifeVars, startVars, closeVars, writeVars, linkVars, runVars, memberVars,
        claimVars, dbVars
<1> USE DEF IInv, TInv, TypeOK, LifeType, StartType, CloseType, WriteType, MemberType, OutsideType, CInv, Reconnect
<1>1. PlayerInv'
  BY DEF PlayerInv, MemberInv, LifeInv
<1>2. RosterInv'
  BY DEF RosterInv, PlayerInv, MatchInv, LifeInv, MemberInv, SeatInv, GivenUp, Left, Whole, RosterParties, Ready, ReadyIn
<1>3. ControllerMatchesConnection'
  BY DEF ControllerMatchesConnection, PlayerInv, RosterInv, MatchInv, LifeInv, MemberInv, SeatInv
<1>4. WriteInv' /\ OwnerInv' /\ SavedIsDurable'
  <2>1. \A v \in Players : report'[v] = "saved" => report[v] = "saved" /\ v \in over'
    BY DEF PlayerInv
  <2> QED
    BY <2>1, WriteFrame DEF LifeInv, SeatInv
<1> QED
  BY <1>1, <1>2, <1>3, <1>4

LEMMA DisconnectCredits ==
  ASSUME IInv, CInv, OrderlyStep, NEW p \in Players, Disconnect(p)
  PROVE  CInv'
<1> USE PartyAssumption DEF lifeVars, startVars, closeVars, writeVars, linkVars, runVars, memberVars,
        claimVars, dbVars
<1> USE DEF IInv, TInv, TypeOK, LifeType, StartType, CloseType, WriteType, MemberType, OutsideType, CInv, Disconnect
<1>1. PlayerInv'
  BY DEF PlayerInv, MemberInv, LifeInv
<1>2. RosterInv'
  BY DEF RosterInv, PlayerInv, MatchInv, LifeInv, MemberInv, SeatInv, GivenUp, Left, Whole, RosterParties, Ready, ReadyIn
<1>3. ControllerMatchesConnection'
  BY DEF ControllerMatchesConnection, PlayerInv, RosterInv, MatchInv, LifeInv, MemberInv, SeatInv
<1>4. WriteInv' /\ OwnerInv' /\ SavedIsDurable'
  <2>1. \A v \in Players : report'[v] = "saved" => report[v] = "saved" /\ v \in over'
    BY DEF PlayerInv
  <2> QED
    BY <2>1, WriteFrame DEF LifeInv, SeatInv
<1> QED
  BY <1>1, <1>2, <1>3, <1>4

LEMMA ExpireHandoffCredits ==
  ASSUME IInv, CInv, OrderlyStep, NEW p \in Players, ExpireHandoff(p)
  PROVE  CInv'
<1> USE PartyAssumption DEF lifeVars, startVars, closeVars, writeVars, linkVars, runVars, memberVars,
        claimVars, dbVars
<1> USE DEF IInv, TInv, TypeOK, LifeType, StartType, CloseType, WriteType, MemberType, OutsideType, CInv, ExpireHandoff, Forget, DroppedReport, ResetIf, RecordDisconnected, Undecided
<1>1. PlayerInv'
  BY DEF PlayerInv, MemberInv, LifeInv
<1>2. RosterInv'
  BY DEF RosterInv, PlayerInv, MatchInv, LifeInv, MemberInv, SeatInv, GivenUp, Left, Whole, RosterParties, Ready, ReadyIn
<1>3. ControllerMatchesConnection'
  BY DEF ControllerMatchesConnection, PlayerInv, RosterInv, MatchInv, LifeInv, MemberInv, SeatInv
<1>4. WriteInv' /\ OwnerInv' /\ SavedIsDurable'
  <2>1. \A v \in Players : report'[v] = "saved" => report[v] = "saved" /\ v \in over'
    BY DEF PlayerInv
  <2>2. CASE phase # "live" \/ p \notin inRun
    BY <2>1, <2>2, WriteFrame
  <2>3. CASE phase = "live" /\ p \in inRun
    <3> DEFINE D == Undecided({p})
    <3>1. D \in SUBSET (inRun \cap eligible) /\ matchId = issued /\ (p \in eligible => p \in D)
      BY <2>3 DEF PlayerInv, MatchInv
    <3>2. /\ matchOutcomes' = [v \in Players |-> IF v \in D THEN "disconnected" ELSE matchOutcomes[v]]
          /\ inflight' = inflight \cup [match: {issued}, player: D, outcome: {"disconnected"}]
          /\ eligible' = eligible \ D
      BY <2>3, <3>1
    <3>3. \A v \in present \cap inRun \cap eligible :
            v \in D \/ (phase' = "live" /\ v \in present' \cap inRun' \cap eligible')
      BY <2>3, <3>2
    <3>4. /\ inflight \subseteq inflight'
          /\ \A w \in inflight' : w \in inflight \/ (w.match = issued /\ w.player \in D /\ w.outcome = "disconnected")
          /\ \A v \in D : \E w \in inflight' : w.match = issued /\ w.player = v
      <4>1. \A v \in D : [match |-> issued, player |-> v, outcome |-> "disconnected"] \in inflight'
        BY ONLY <3>2
      <4> QED
        BY ONLY <3>2, <4>1
    <3>5. \A v \in Players : matchOutcomes'[v] = IF v \in D THEN "disconnected" ELSE matchOutcomes[v]
      BY ONLY <3>2
    <3>6. UNCHANGED <<ledger, abort, dbOpen, issued, boundary, matchId, start, ops>>
      OBVIOUS
    <3>7. D \cap inRun' \cap eligible' = {} /\ inRun' \subseteq inRun /\ eligible' \subseteq eligible
      BY <3>2
    <3>8. Decides(D, "disconnected")
      BY ONLY <2>1, <2>3, <3>1, <3>3, <3>4, <3>5, <3>6, <3>7 DEF Decides, Outcomes, Reasons
    <3> QED
      BY ONLY IInv, CInv, <3>8, DecideWrites
  <2> QED
    BY <2>2, <2>3
<1> QED
  BY <1>1, <1>2, <1>3, <1>4

LEMMA LeaveDownedCredits ==
  ASSUME IInv, CInv, OrderlyStep, NEW p \in Players, LeaveDowned(p)
  PROVE  CInv'
<1> USE PartyAssumption DEF lifeVars, startVars, closeVars, writeVars, linkVars, runVars, memberVars,
        claimVars, dbVars
<1> USE DEF IInv, TInv, TypeOK, LifeType, StartType, CloseType, WriteType, MemberType, OutsideType, CInv, LeaveDowned, SendRunOver, EndRunIf
<1>1. PlayerInv'
  BY DEF PlayerInv, MemberInv, LifeInv
<1>2. RosterInv'
  BY DEF RosterInv, PlayerInv, MatchInv, LifeInv, MemberInv, SeatInv, GivenUp, Left, Whole, RosterParties, Ready, ReadyIn
<1>3. ControllerMatchesConnection'
  BY DEF ControllerMatchesConnection, PlayerInv, RosterInv, MatchInv, LifeInv, MemberInv, SeatInv
<1>4. WriteInv' /\ OwnerInv' /\ SavedIsDurable'
  <2> DEFINE S == {p}
             D == S \cap eligible
  <2>1. \A v \in Players : report'[v] = "saved" => report[v] = "saved" /\ v \in over'
    BY DEF PlayerInv
  <2>2. D \in SUBSET (inRun \cap eligible) /\ matchId = issued /\ phase = "live" /\ S \subseteq inRun /\ matchId # 0
    BY DEF MatchInv
  <2>3. /\ matchOutcomes' = [v \in Players |-> IF v \in D THEN "lost" ELSE matchOutcomes[v]]
        /\ inflight' = inflight \cup [match: {issued}, player: D, outcome: {"lost"}]
    BY <2>2
  <2>4. /\ ops' \subseteq ops /\ \A w \in ops : w \in ops' \/ w.player \in inRun \ eligible
        /\ inRun' = inRun \ S /\ eligible' = eligible
    BY <2>2
  <2>5. \A v \in present \cap inRun \cap eligible :
          v \in D \/ (phase' = "live" /\ v \in present' \cap inRun' \cap eligible')
    BY <2>2, <2>4
  <2>6. D \cap inRun' = {}
    BY <2>4
  <2>7. UNCHANGED <<ledger, abort, dbOpen, issued, boundary, matchId, start>>
    OBVIOUS
  <2> HIDE DEF D, S
  <2>8. "lost" \in Outcomes
    BY DEF Outcomes, Reasons
  <2>9. inRun' \subseteq inRun /\ eligible' \subseteq eligible
    BY <2>4
  <2>10. /\ inflight \subseteq inflight'
         /\ \A w \in inflight' : w \in inflight \/ (w.match = issued /\ w.player \in D /\ w.outcome = "lost")
         /\ \A v \in D : \E w \in inflight' : w.match = issued /\ w.player = v
    <3>1. \A v \in D : [match |-> issued, player |-> v, outcome |-> "lost"] \in inflight'
      BY ONLY <2>3
    <3> QED
      BY ONLY <2>3, <3>1
  <2>11. \A v \in Players : matchOutcomes'[v] = IF v \in D THEN "lost" ELSE matchOutcomes[v]
    BY ONLY <2>3
  <2>12. Decides(D, "lost")
    BY ONLY <2>1, <2>2, <2>4, <2>5, <2>6, <2>7, <2>8, <2>9, <2>10, <2>11 DEF Decides
  <2> QED
    BY ONLY IInv, CInv, <2>12, DecideWrites
<1> QED
  BY <1>1, <1>2, <1>3, <1>4

LEMMA LeaveRunCredits ==
  ASSUME IInv, CInv, OrderlyStep, NEW p \in Players, LeaveRun(p)
  PROVE  CInv'
<1> USE PartyAssumption DEF lifeVars, startVars, closeVars, writeVars, linkVars, runVars, memberVars,
        claimVars, dbVars
<1> USE DEF IInv, TInv, TypeOK, LifeType, StartType, CloseType, WriteType, MemberType, OutsideType, CInv, LeaveRun, Forget, DroppedReport, EndRunIf, RecordDisconnected, Undecided
<1>1. PlayerInv'
  BY DEF PlayerInv, MemberInv, LifeInv
<1>2. RosterInv'
  BY DEF RosterInv, PlayerInv, MatchInv, LifeInv, MemberInv, SeatInv, GivenUp, Left, Whole, RosterParties, Ready, ReadyIn
<1>3. ControllerMatchesConnection'
  BY DEF ControllerMatchesConnection, PlayerInv, RosterInv, MatchInv, LifeInv, MemberInv, SeatInv
<1>4. WriteInv' /\ OwnerInv' /\ SavedIsDurable'
  <2>1. \A v \in Players : report'[v] = "saved" => report[v] = "saved" /\ v \in over'
    BY DEF PlayerInv
  <2>2. CASE phase # "live"
    <3>1. p \notin inRun
      BY <2>2 DEF MemberInv
    <3> QED
      BY <2>1, <2>2, <3>1, WriteFrame
  <2>3. CASE phase = "live"
    <3> DEFINE D == Undecided({p} \cap inRun)
    <3>1. D \in SUBSET (inRun \cap eligible) /\ matchId = issued /\ (p \in inRun \cap eligible => p \in D)
      BY <2>3 DEF PlayerInv, MatchInv
    <3>2. /\ matchOutcomes' = [v \in Players |-> IF v \in D THEN "disconnected" ELSE matchOutcomes[v]]
          /\ inflight' = inflight \cup [match: {issued}, player: D, outcome: {"disconnected"}]
      <4>1. CASE p \in inRun
        BY <3>1, <4>1
      <4>2. CASE p \notin inRun
        BY <4>2
      <4> QED
        BY <4>1, <4>2
    <3>3. \A v \in present \cap inRun \cap eligible :
            v \in D \/ (phase' = "live" /\ v \in present' \cap inRun' \cap eligible')
      BY <2>3, <3>1
    <3>4. D \cap inRun' = {} /\ inRun' \subseteq inRun /\ eligible' \subseteq eligible
      BY <3>1
    <3>5. /\ inflight \subseteq inflight'
          /\ \A w \in inflight' : w \in inflight \/ (w.match = issued /\ w.player \in D /\ w.outcome = "disconnected")
          /\ \A v \in D : \E w \in inflight' : w.match = issued /\ w.player = v
      <4>1. \A v \in D : [match |-> issued, player |-> v, outcome |-> "disconnected"] \in inflight'
        BY ONLY <3>2
      <4> QED
        BY ONLY <3>2, <4>1
    <3>6. \A v \in Players : matchOutcomes'[v] = IF v \in D THEN "disconnected" ELSE matchOutcomes[v]
      BY ONLY <3>2
    <3>7. UNCHANGED <<ledger, abort, dbOpen, issued, boundary, matchId, start, ops>>
      OBVIOUS
    <3>8. D \cap inRun' \cap eligible' = {} /\ inRun' \subseteq inRun /\ eligible' \subseteq eligible
      BY <3>4
    <3>9. Decides(D, "disconnected")
      BY ONLY <2>1, <2>3, <3>1, <3>3, <3>5, <3>6, <3>7, <3>8 DEF Decides, Outcomes, Reasons
    <3> QED
      BY ONLY IInv, CInv, <3>9, DecideWrites
  <2> QED
    BY <2>2, <2>3
<1> QED
  BY <1>1, <1>2, <1>3, <1>4

LEMMA ExtractCredits ==
  ASSUME IInv, CInv, OrderlyStep, NEW p \in Players, Extract(p)
  PROVE  CInv'
<1> USE PartyAssumption DEF lifeVars, startVars, closeVars, writeVars, linkVars, runVars, memberVars,
        claimVars, dbVars
<1> USE DEF IInv, TInv, TypeOK, LifeType, StartType, CloseType, WriteType, MemberType, OutsideType, CInv, Extract, SendRunOver, EndRunIf
<1>1. PlayerInv'
  BY DEF PlayerInv, MemberInv, LifeInv
<1>2. RosterInv'
  BY DEF RosterInv, PlayerInv, MatchInv, LifeInv, MemberInv, SeatInv, GivenUp, Left, Whole, RosterParties, Ready, ReadyIn
<1>3. ControllerMatchesConnection'
  BY DEF ControllerMatchesConnection, PlayerInv, RosterInv, MatchInv, LifeInv, MemberInv, SeatInv
<1>4. WriteInv' /\ OwnerInv' /\ SavedIsDurable'
  <2> DEFINE S == {p}
             D == S \cap eligible
  <2>1. \A v \in Players : report'[v] = "saved" => report[v] = "saved" /\ v \in over'
    BY DEF PlayerInv
  <2>2. D \in SUBSET (inRun \cap eligible) /\ matchId = issued /\ phase = "live" /\ S \subseteq inRun /\ matchId # 0
    BY DEF MatchInv
  <2>3. /\ matchOutcomes' = [v \in Players |-> IF v \in D THEN "extracted" ELSE matchOutcomes[v]]
        /\ inflight' = inflight \cup [match: {issued}, player: D, outcome: {"extracted"}]
    BY <2>2
  <2>4. /\ ops' \subseteq ops /\ \A w \in ops : w \in ops' \/ w.player \in inRun \ eligible
        /\ inRun' = inRun \ S /\ eligible' = eligible
    BY <2>2
  <2>5. \A v \in present \cap inRun \cap eligible :
          v \in D \/ (phase' = "live" /\ v \in present' \cap inRun' \cap eligible')
    BY <2>2, <2>4
  <2>6. D \cap inRun' = {}
    BY <2>4
  <2>7. UNCHANGED <<ledger, abort, dbOpen, issued, boundary, matchId, start>>
    OBVIOUS
  <2> HIDE DEF D, S
  <2>8. "extracted" \in Outcomes
    BY DEF Outcomes, Reasons
  <2>9. inRun' \subseteq inRun /\ eligible' \subseteq eligible
    BY <2>4
  <2>10. /\ inflight \subseteq inflight'
         /\ \A w \in inflight' : w \in inflight \/ (w.match = issued /\ w.player \in D /\ w.outcome = "extracted")
         /\ \A v \in D : \E w \in inflight' : w.match = issued /\ w.player = v
    <3>1. \A v \in D : [match |-> issued, player |-> v, outcome |-> "extracted"] \in inflight'
      BY ONLY <2>3
    <3> QED
      BY ONLY <2>3, <3>1
  <2>11. \A v \in Players : matchOutcomes'[v] = IF v \in D THEN "extracted" ELSE matchOutcomes[v]
    BY ONLY <2>3
  <2>12. Decides(D, "extracted")
    BY ONLY <2>1, <2>2, <2>4, <2>5, <2>6, <2>7, <2>8, <2>9, <2>10, <2>11 DEF Decides
  <2> QED
    BY ONLY IInv, CInv, <2>12, DecideWrites
<1> QED
  BY <1>1, <1>2, <1>3, <1>4

LEMMA TimeoutRunCredits ==
  ASSUME IInv, CInv, OrderlyStep, TimeoutRun
  PROVE  CInv'
<1> USE PartyAssumption DEF lifeVars, startVars, closeVars, writeVars, linkVars, runVars, memberVars,
        claimVars, dbVars
<1> USE DEF IInv, TInv, TypeOK, LifeType, StartType, CloseType, WriteType, MemberType, OutsideType, CInv, TimeoutRun, SendRunOver, EndRunIf
<1>1. PlayerInv'
  BY DEF PlayerInv, MemberInv, LifeInv
<1>2. RosterInv'
  BY DEF RosterInv, PlayerInv, MatchInv, LifeInv, MemberInv, SeatInv, GivenUp, Left, Whole, RosterParties, Ready, ReadyIn
<1>3. ControllerMatchesConnection'
  BY DEF ControllerMatchesConnection, PlayerInv, RosterInv, MatchInv, LifeInv, MemberInv, SeatInv
<1>4. WriteInv' /\ OwnerInv' /\ SavedIsDurable'
  <2> DEFINE S == present \cap inRun
             D == S \cap eligible
  <2>1. \A v \in Players : report'[v] = "saved" => report[v] = "saved" /\ v \in over'
    BY DEF PlayerInv
  <2>2. D \in SUBSET (inRun \cap eligible) /\ matchId = issued /\ phase = "live" /\ S \subseteq inRun /\ matchId # 0
    BY DEF MatchInv
  <2>3. /\ matchOutcomes' = [v \in Players |-> IF v \in D THEN "lost" ELSE matchOutcomes[v]]
        /\ inflight' = inflight \cup [match: {issued}, player: D, outcome: {"lost"}]
    BY <2>2
  <2>4. /\ ops' \subseteq ops /\ \A w \in ops : w \in ops' \/ w.player \in inRun \ eligible
        /\ inRun' = inRun \ S /\ eligible' = eligible
    BY <2>2
  <2>5. \A v \in present \cap inRun \cap eligible :
          v \in D \/ (phase' = "live" /\ v \in present' \cap inRun' \cap eligible')
    BY <2>2, <2>4
  <2>6. D \cap inRun' = {}
    BY <2>4
  <2>7. UNCHANGED <<ledger, abort, dbOpen, issued, boundary, matchId, start>>
    OBVIOUS
  <2> HIDE DEF D, S
  <2>8. "lost" \in Outcomes
    BY DEF Outcomes, Reasons
  <2>9. inRun' \subseteq inRun /\ eligible' \subseteq eligible
    BY <2>4
  <2>10. /\ inflight \subseteq inflight'
         /\ \A w \in inflight' : w \in inflight \/ (w.match = issued /\ w.player \in D /\ w.outcome = "lost")
         /\ \A v \in D : \E w \in inflight' : w.match = issued /\ w.player = v
    <3>1. \A v \in D : [match |-> issued, player |-> v, outcome |-> "lost"] \in inflight'
      BY ONLY <2>3
    <3> QED
      BY ONLY <2>3, <3>1
  <2>11. \A v \in Players : matchOutcomes'[v] = IF v \in D THEN "lost" ELSE matchOutcomes[v]
    BY ONLY <2>3
  <2>12. Decides(D, "lost")
    BY ONLY <2>1, <2>2, <2>4, <2>5, <2>6, <2>7, <2>8, <2>9, <2>10, <2>11 DEF Decides
  <2> QED
    BY ONLY IInv, CInv, <2>12, DecideWrites
<1> QED
  BY <1>1, <1>2, <1>3, <1>4

LEMMA AbandonAssemblyCredits ==
  ASSUME IInv, CInv, OrderlyStep, AbandonAssembly
  PROVE  CInv'
<1> USE PartyAssumption DEF lifeVars, startVars, closeVars, writeVars, linkVars, runVars, memberVars,
        claimVars, dbVars
<1> USE DEF IInv, TInv, TypeOK, LifeType, StartType, CloseType, WriteType, MemberType, OutsideType, CInv, AbandonAssembly, Assembling, ResetIf
<1>1. PlayerInv'
  BY DEF PlayerInv, MemberInv, LifeInv
<1>2. RosterInv'
  BY DEF RosterInv, PlayerInv, MatchInv, LifeInv, MemberInv, SeatInv, GivenUp, Left, Whole, RosterParties, Ready, ReadyIn
<1>3. ControllerMatchesConnection'
  BY DEF ControllerMatchesConnection, PlayerInv, RosterInv, MatchInv, LifeInv, MemberInv, SeatInv
<1>4. WriteInv' /\ OwnerInv' /\ SavedIsDurable'
  <2>1. \A v \in Players : report'[v] = "saved" => report[v] = "saved" /\ v \in over'
    BY DEF PlayerInv
  <2> QED
    BY <2>1, WriteFrame DEF LifeInv, SeatInv
<1> QED
  BY <1>1, <1>2, <1>3, <1>4

LEMMA OpenWindowCredits ==
  ASSUME IInv, CInv, OrderlyStep, OpenWindow
  PROVE  CInv'
<1> USE PartyAssumption DEF lifeVars, startVars, closeVars, writeVars, linkVars, runVars, memberVars,
        claimVars, dbVars
<1> USE DEF IInv, TInv, TypeOK, LifeType, StartType, CloseType, WriteType, MemberType, OutsideType, CInv, OpenWindow, Assembling
<1>1. PlayerInv'
  BY DEF PlayerInv, MemberInv, LifeInv
<1>2. RosterInv'
  BY DEF RosterInv, PlayerInv, MatchInv, LifeInv, MemberInv, SeatInv, GivenUp, Left, Whole, RosterParties, Ready, ReadyIn
<1>3. ControllerMatchesConnection'
  BY DEF ControllerMatchesConnection, PlayerInv, RosterInv, MatchInv, LifeInv, MemberInv, SeatInv
<1>4. WriteInv' /\ OwnerInv' /\ SavedIsDurable'
  <2>1. \A v \in Players : report'[v] = "saved" => report[v] = "saved" /\ v \in over'
    BY DEF PlayerInv
  <2> QED
    BY <2>1, WriteFrame DEF LifeInv, SeatInv
<1> QED
  BY <1>1, <1>2, <1>3, <1>4

LEMMA EnterCountdownCredits ==
  ASSUME IInv, CInv, OrderlyStep, EnterCountdown
  PROVE  CInv'
<1> USE PartyAssumption DEF lifeVars, startVars, closeVars, writeVars, linkVars, runVars, memberVars,
        claimVars, dbVars
<1> USE DEF IInv, TInv, TypeOK, LifeType, StartType, CloseType, WriteType, MemberType, OutsideType, CInv, EnterCountdown, Assembling
<1>1. PlayerInv'
  BY DEF PlayerInv, MemberInv, LifeInv
<1>2. RosterInv'
  BY DEF RosterInv, PlayerInv, MatchInv, LifeInv, MemberInv, SeatInv, GivenUp, Left, Whole, RosterParties, Ready, ReadyIn
<1>3. ControllerMatchesConnection'
  BY DEF ControllerMatchesConnection, PlayerInv, RosterInv, MatchInv, LifeInv, MemberInv, SeatInv
<1>4. WriteInv' /\ OwnerInv' /\ SavedIsDurable'
  <2>1. \A v \in Players : report'[v] = "saved" => report[v] = "saved" /\ v \in over'
    BY DEF PlayerInv
  <2> QED
    BY <2>1, WriteFrame DEF LifeInv, SeatInv
<1> QED
  BY <1>1, <1>2, <1>3, <1>4

LEMMA BeginStartCredits ==
  ASSUME IInv, CInv, OrderlyStep, BeginStart
  PROVE  CInv'
<1> USE PartyAssumption DEF lifeVars, startVars, closeVars, writeVars, linkVars, runVars, memberVars,
        claimVars, dbVars
<1> USE DEF IInv, TInv, TypeOK, LifeType, StartType, CloseType, WriteType, MemberType, OutsideType, CInv, BeginStart, Assembling
<1>1. PlayerInv'
  BY DEF PlayerInv, MemberInv, LifeInv
<1>2. RosterInv'
  BY DEF RosterInv, PlayerInv, MatchInv, LifeInv, MemberInv, SeatInv, GivenUp, Left, Whole, RosterParties, Ready, ReadyIn
<1>3. ControllerMatchesConnection'
  BY DEF ControllerMatchesConnection, PlayerInv, RosterInv, MatchInv, LifeInv, MemberInv, SeatInv
<1>4. WriteInv'
  BY DEF WriteInv, Unwritten, PlayerInv, RosterInv, MatchInv, LifeInv, MemberInv, SeatInv, Clear, Idle, Registered
<1>5. OwnerInv'
  BY DEF OwnerInv, Active, LeftAborted, Owned, WriteInv, Unwritten, PlayerInv, RosterInv, MatchInv, LifeInv, MemberInv, SeatInv, Clear, Idle, Registered
<1>6. SavedIsDurable'
  BY DEF SavedIsDurable, PlayerInv, MatchInv, LifeInv, MemberInv, SeatInv, Registered
<1> QED
  BY <1>1, <1>2, <1>3, <1>4, <1>5, <1>6

LEMMA SimulationReadyCredits ==
  ASSUME IInv, CInv, OrderlyStep, SimulationReady
  PROVE  CInv'
<1> USE PartyAssumption DEF lifeVars, startVars, closeVars, writeVars, linkVars, runVars, memberVars,
        claimVars, dbVars
<1> USE DEF IInv, TInv, TypeOK, LifeType, StartType, CloseType, WriteType, MemberType, OutsideType, CInv, SimulationReady
<1>1. PlayerInv'
  BY DEF PlayerInv, MemberInv, LifeInv
<1>2. RosterInv'
  BY DEF RosterInv, PlayerInv, MatchInv, LifeInv, MemberInv, SeatInv, GivenUp, Left, Whole, RosterParties, Ready, ReadyIn
<1>3. ControllerMatchesConnection'
  BY DEF ControllerMatchesConnection, PlayerInv, RosterInv, MatchInv, LifeInv, MemberInv, SeatInv
<1>4. WriteInv'
  <2>1. CASE retiring
    BY <2>1 DEF WriteInv, Unwritten, LifeInv
  <2>2. CASE ~retiring
    <3>1. issued + 1 \in Matches
      BY BoundAssumption DEF StartBound, Matches
    <3>2. inflight = {} /\ ops = {} /\ abort = {} /\ phase # "live" /\ issued' \in Matches
      BY <2>2, <3>1 DEF LifeInv, Clear, RosterInv
    <3>3. \A v \in Players : ledger[issued'][v] = "none"
      BY <2>2, <3>2 DEF MatchInv, Registered, Matches
    <3> QED
      BY <2>2, <3>2, <3>3 DEF WriteInv, Outcomes, Reasons
  <2> QED
    BY <2>1, <2>2
<1>5. OwnerInv'
  BY DEF OwnerInv, Active, LifeInv, Clear
<1>6. SavedIsDurable'
  BY DEF SavedIsDurable
<1> QED
  BY <1>1, <1>2, <1>3, <1>4, <1>5, <1>6

LEMMA SimulationThrowsCredits ==
  ASSUME IInv, CInv, OrderlyStep, SimulationThrows
  PROVE  CInv'
<1> USE PartyAssumption DEF lifeVars, startVars, closeVars, writeVars, linkVars, runVars, memberVars,
        claimVars, dbVars
<1> USE DEF IInv, TInv, TypeOK, LifeType, StartType, CloseType, WriteType, MemberType, OutsideType, CInv, SimulationThrows, FailStart
<1>1. PlayerInv'
  BY DEF PlayerInv, MemberInv, LifeInv
<1>2. RosterInv'
  BY DEF RosterInv, PlayerInv, MatchInv, LifeInv, MemberInv, SeatInv, GivenUp, Left, Whole, RosterParties, Ready, ReadyIn
<1>3. ControllerMatchesConnection'
  BY DEF ControllerMatchesConnection, PlayerInv, RosterInv, MatchInv, LifeInv, MemberInv, SeatInv
<1>4. WriteInv'
  BY DEF WriteInv, Unwritten, PlayerInv, RosterInv, MatchInv, LifeInv, MemberInv, SeatInv, Clear, Idle, Registered
<1>5. OwnerInv'
  BY DEF OwnerInv, Active, LeftAborted, Owned, WriteInv, Unwritten, PlayerInv, RosterInv, MatchInv, LifeInv, MemberInv, SeatInv, Clear, Idle, Registered
<1>6. SavedIsDurable'
  BY DEF SavedIsDurable, PlayerInv, MatchInv, LifeInv, MemberInv, SeatInv, Registered
<1> QED
  BY <1>1, <1>2, <1>3, <1>4, <1>5, <1>6

LEMMA StartRegisteredCredits ==
  ASSUME IInv, CInv, OrderlyStep, StartRegistered
  PROVE  CInv'
<1> USE PartyAssumption DEF lifeVars, startVars, closeVars, writeVars, linkVars, runVars, memberVars,
        claimVars, dbVars
<1> USE DEF IInv, TInv, TypeOK, LifeType, StartType, CloseType, WriteType, MemberType, OutsideType, CInv, StartRegistered, FailStart, Register, Registrable, EndClaims
<1>1. PlayerInv'
  BY DEF PlayerInv, MemberInv, LifeInv
<1>2. RosterInv'
  BY DEF RosterInv, PlayerInv, MatchInv, LifeInv, MemberInv, SeatInv, GivenUp, Left, Whole, RosterParties, Ready, ReadyIn
<1>3. ControllerMatchesConnection'
  BY DEF ControllerMatchesConnection, PlayerInv, RosterInv, MatchInv, LifeInv, MemberInv, SeatInv
<1>4. WriteInv' /\ OwnerInv' /\ SavedIsDurable'
  <2>1. issued \in Matches /\ matchId = issued /\ Clear /\ Registered(issued) = {} /\ phase # "live"
    BY DEF MatchInv, LifeInv, Matches
  <2>2. Register(issued) /\ UNCHANGED <<issued, roster, present, inflight, ops, report, over>>
    OBVIOUS
  <2>3. /\ \A m \in Matches : m # issued => ledger'[m] = ledger[m]
        /\ \A v \in Players : ledger'[issued][v] = (IF v \in roster THEN "active" ELSE "none")
        /\ \A v \in Players : ledger[issued][v] = "none"
    BY <2>1, <2>2, RegisterLedger
  <2>4. dbOpen' \subseteq {issued}
    BY <2>1 DEF Clear
  <2>5. ~GivenUp
    BY DEF GivenUp
  <2>6. Whole
    BY <2>5 DEF RosterInv
  <2>7. CASE retiring
    <3>1. FailStart
      BY <2>7
    <3>2. /\ \A v \in Players : ledger[issued][v] \in {"none", "active"} /\ ledger'[issued][v] \in {"none", "active"}
          /\ \A v \in Players : ledger'[issued][v] = "active" => v \in roster
          /\ \A m \in Matches : m # issued => ledger'[m] = ledger[m]
      BY ONLY <2>3
    <3>3. start \in {"registering", "reading"} /\ UNCHANGED <<issued, roster, present, inflight, ops, report, over>>
      OBVIOUS
    <3> QED
      BY ONLY IInv, CInv, <2>4, <2>6, <3>1, <3>2, <3>3, FailStartWrites
  <2>8. CASE ~retiring
    <3>1. /\ start' = "reading" /\ phase' = phase /\ matchId' = matchId /\ boundary' = boundary
          /\ abort' = abort /\ matchOutcomes' = matchOutcomes /\ inflight' = {} /\ ops' = {}
      BY <2>1, <2>8 DEF Clear
    <3>2. WriteInv'
      BY <2>1, <2>2, <2>3, <3>1 DEF WriteInv, Outcomes, Reasons
    <3>3. OwnerInv'
      BY <2>1, <2>2, <2>4, <3>1 DEF OwnerInv, Active, Owned
    <3>4. SavedIsDurable'
      BY <2>2, <2>3 DEF SavedIsDurable, Reasons
    <3> QED
      BY <3>2, <3>3, <3>4
  <2> QED
    BY <2>7, <2>8
<1> QED
  BY <1>1, <1>2, <1>3, <1>4

LEMMA StartRefusedCredits ==
  ASSUME IInv, CInv, OrderlyStep, StartRefused
  PROVE  CInv'
<1> USE PartyAssumption DEF lifeVars, startVars, closeVars, writeVars, linkVars, runVars, memberVars,
        claimVars, dbVars
<1> USE DEF IInv, TInv, TypeOK, LifeType, StartType, CloseType, WriteType, MemberType, OutsideType, CInv, StartRefused, FailStart, Register, Registrable, EndClaims
<1>1. PlayerInv'
  BY DEF PlayerInv, MemberInv, LifeInv
<1>2. RosterInv'
  <2>1. matchId = issued /\ matchId # 0 /\ Clear /\ phase \in {"assembling", "countdown"} /\ closing = {}
    BY DEF MatchInv, LifeInv
  <2>2. start' = "none" /\ retiring' /\ phase' = "assembling" /\ closing' = {} /\ ops' = {}
        /\ abort' = roster \cap present \cap eligible /\ roster' = roster /\ present' = present
    BY <2>1 DEF Clear
  <2>6. aborted'
    BY <2>1, Zenon
  <2>3. late' # 0 => seat' = seat
    BY <2>1 DEF Clear
  <2>4. ASSUME late' # 0, ~GivenUp PROVE roster \cap present \subseteq abort'
    BY <2>2, <2>4 DEF RosterInv, PlayerInv, Whole, Left
  <2>5. late' # 0 /\ GivenUp => GivenUp'
    BY <2>2, <2>3 DEF GivenUp, RosterParties
  <2> QED
    BY <2>2, <2>4, <2>5, <2>6 DEF RosterInv
<1>3. ControllerMatchesConnection'
  BY DEF ControllerMatchesConnection, PlayerInv, RosterInv, MatchInv, LifeInv, MemberInv, SeatInv
<1>4. WriteInv' /\ OwnerInv' /\ SavedIsDurable'
  <2>1. issued \in Matches /\ matchId = issued /\ Clear /\ Registered(issued) = {} /\ phase # "live"
    BY DEF MatchInv, LifeInv, Matches
  <2>2. FailStart /\ UNCHANGED <<issued, roster, present, inflight, ops, report, over>>
    OBVIOUS
  <2>3. \A v \in Players : ledger[issued][v] = "none"
    BY <2>1 DEF Registered
  <2>4. CASE Registrable /\ Register(issued)
    <3>1. /\ \A m \in Matches : m # issued => ledger'[m] = ledger[m]
          /\ \A v \in Players : ledger'[issued][v] = (IF v \in roster THEN "active" ELSE "none")
      BY <2>1, <2>2, <2>4, RegisterLedger
    <3>2. dbOpen' \subseteq {issued}
      BY <2>1, <2>4 DEF Clear
    <3>3. Whole
      BY <2>4 DEF RosterInv, GivenUp
    <3> QED
      BY ONLY IInv, CInv, start = "registering", <2>2, <2>3, <3>1, <3>2, <3>3, FailStartWrites
  <2>5. CASE UNCHANGED <<dbOpen, ledger>>
    <3>1. dbOpen' \subseteq {issued}
      BY <2>1, <2>5 DEF Clear
    <3> QED
      BY ONLY IInv, CInv, start = "registering", <2>2, <2>3, <2>5, <3>1, FailStartWrites
  <2> QED
    BY <2>4, <2>5
<1> QED
  BY <1>1, <1>2, <1>3, <1>4

LEMMA StartCommitsLateCredits ==
  ASSUME IInv, CInv, OrderlyStep, StartCommitsLate
  PROVE  CInv'
<1> USE PartyAssumption DEF lifeVars, startVars, closeVars, writeVars, linkVars, runVars, memberVars,
        claimVars, dbVars
<1> USE DEF IInv, TInv, TypeOK, LifeType, StartType, CloseType, WriteType, MemberType, OutsideType, CInv, StartCommitsLate, Register, Registrable, EndClaims
<1>1. PlayerInv'
  BY DEF PlayerInv, MemberInv, LifeInv
<1>2. RosterInv'
  BY DEF RosterInv, PlayerInv, MatchInv, LifeInv, MemberInv, SeatInv, GivenUp, Left, Whole, RosterParties, Ready, ReadyIn
<1>3. ControllerMatchesConnection'
  BY DEF ControllerMatchesConnection, PlayerInv, RosterInv, MatchInv, LifeInv, MemberInv, SeatInv
<1>4. WriteInv' /\ OwnerInv' /\ SavedIsDurable'
  <2>1. CASE ~Registrable
    <3>1. \A v \in Players : report'[v] = "saved" => report[v] = "saved" /\ v \in over'
      BY DEF PlayerInv
    <3> QED
      BY <2>1, <3>1, WriteFrame
  <2>2. CASE Registrable
    <3>1. /\ issued \in Matches /\ late = issued /\ Registered(issued) = {} /\ boundary = issued
          /\ inflight = {} /\ ops = {} /\ phase # "live" /\ start = "none"
      BY DEF MatchInv, LifeInv, Matches, RosterInv
    <3>2. Register(issued) /\ UNCHANGED <<issued, roster>>
      BY <2>2, <3>1
    <3>3. /\ \A m \in Matches : m # issued => ledger'[m] = ledger[m]
          /\ \A v \in Players : ledger'[issued][v] = (IF v \in roster THEN "active" ELSE "none")
          /\ \A v \in Players : ledger[issued][v] = "none"
      BY <3>1, <3>2, RegisterLedger
    <3>4. WriteInv'
      BY <3>1, <3>3 DEF WriteInv, Outcomes, Reasons
    <3>5. roster \cap present \subseteq abort /\ aborted /\ retiring
      BY <2>2, <3>1 DEF RosterInv, GivenUp, LifeInv, Matches
    <3>6. OwnerInv'
      BY <3>1, <3>2, <3>3, <3>5 DEF OwnerInv, Active, LeftAborted, Owned
    <3>7. SavedIsDurable'
      BY <3>3 DEF SavedIsDurable, Reasons
    <3> QED
      BY <3>4, <3>6, <3>7
  <2> QED
    BY <2>1, <2>2
<1> QED
  BY <1>1, <1>2, <1>3, <1>4

LEMMA GoLiveCredits ==
  ASSUME IInv, CInv, OrderlyStep, GoLive
  PROVE  CInv'
<1> USE PartyAssumption DEF lifeVars, startVars, closeVars, writeVars, linkVars, runVars, memberVars,
        claimVars, dbVars
<1> USE DEF IInv, TInv, TypeOK, LifeType, StartType, CloseType, WriteType, MemberType, OutsideType, CInv, GoLive, ControllerAtSpawn
<1>1. /\ matchId = issued /\ issued \in Matches /\ issued # 0 /\ inflight = {} /\ ops = {} /\ Whole
      /\ abort = {} /\ phase = "countdown"
  BY DEF MatchInv, LifeInv, RosterInv, Matches
<1> DEFINE T == {p \in roster : ControllerAtSpawn(p) = "ai"}
<1>2. /\ eligible' = (eligible \cup roster) \ T
      /\ matchOutcomes' = [p \in Players |-> IF p \in T THEN "disconnected" ELSE matchOutcomes[p]]
      /\ inflight' = [match: {issued}, player: T, outcome: {"disconnected"}]
  BY <1>1
<1>3. \A p \in roster : p \in present \/ p \in T
  BY <1>1 DEF Whole, Left, MemberInv
<1>4. PlayerInv'
  <2>1. queued' \subseteq eligible' /\ eligible' \subseteq present' /\ queued' \cap inRun' = {}
    BY <1>2, <1>3 DEF PlayerInv
  <2> QED
    BY <2>1 DEF PlayerInv
<1>5. RosterInv'
  BY DEF RosterInv, PlayerInv, MatchInv, LifeInv, MemberInv, SeatInv, GivenUp, Left, Whole, RosterParties, Ready, ReadyIn
<1>6. ControllerMatchesConnection'
  BY DEF ControllerMatchesConnection, PlayerInv, RosterInv, MatchInv, LifeInv, MemberInv, SeatInv
<1> HIDE DEF T
<1>7. WriteInv'
  <2>1. \A w \in inflight' : w.player \in T /\ w.outcome = "disconnected"
    BY <1>2
  <2>2. T \subseteq Players /\ T \cap eligible' = {} /\ start' = "none" /\ abort' = {} /\ ops' = {}
        /\ UNCHANGED <<ledger, issued>>
    BY <1>1, <1>2 DEF T
  <2>3. \A p \in Players : ledger[issued][p] \in {"none", "active"}
    BY DEF WriteInv
  <2>4. inRun' \subseteq Players /\ T \cap (inRun' \cap eligible') = {}
    BY <2>2
  <2>5. \A w \in (inflight \cup ops)' : /\ w.outcome = "disconnected" /\ w.outcome = matchOutcomes'[w.player]
                                        /\ w.outcome \notin Reasons /\ w.player \in T
    BY ONLY <1>2, <2>1, <2>2 DEF Reasons
  <2>6. \A p \in Players : ledger'[issued'][p] \in {"none", "active"} /\ ledger'[issued'][p] \notin Outcomes
    BY ONLY <2>2, <2>3 DEF Outcomes, Reasons
  <2> QED
    BY ONLY <2>2, <2>4, <2>5, <2>6 DEF WriteInv, Unwritten
<1>8. OwnerInv'
  <2>1. ASSUME NEW p \in Players, ledger[issued][p] = "active" PROVE Owned(issued, p)'
    <3>1. p \in roster
      BY <2>1 DEF WriteInv
    <3>2. CASE p \in T
      <4>1. [match |-> issued, player |-> p, outcome |-> "disconnected"] \in inflight'
        BY <1>2, <3>2
      <4> QED
        BY <4>1 DEF Owned
    <3>3. CASE p \notin T
      BY <1>1, <1>2, <1>3, <3>1, <3>3 DEF Owned
    <3> QED
      BY <3>2, <3>3
  <2> QED
    BY <1>1, <2>1 DEF OwnerInv, Active
<1>9. SavedIsDurable'
  BY DEF SavedIsDurable, PlayerInv
<1> QED
  BY <1>4, <1>5, <1>6, <1>7, <1>8, <1>9

LEMMA StartAbortsCredits ==
  ASSUME IInv, CInv, OrderlyStep, StartAborts
  PROVE  CInv'
<1> USE PartyAssumption DEF lifeVars, startVars, closeVars, writeVars, linkVars, runVars, memberVars,
        claimVars, dbVars
<1> USE DEF IInv, TInv, TypeOK, LifeType, StartType, CloseType, WriteType, MemberType, OutsideType, CInv, StartAborts, FailStart
<1>1. PlayerInv'
  BY DEF PlayerInv, MemberInv, LifeInv
<1>2. RosterInv'
  BY DEF RosterInv, PlayerInv, MatchInv, LifeInv, MemberInv, SeatInv, GivenUp, Left, Whole, RosterParties, Ready, ReadyIn
<1>3. ControllerMatchesConnection'
  BY DEF ControllerMatchesConnection, PlayerInv, RosterInv, MatchInv, LifeInv, MemberInv, SeatInv
<1>4. WriteInv' /\ OwnerInv' /\ SavedIsDurable'
  <2>1. /\ dbOpen' \subseteq {issued} /\ UNCHANGED <<issued, roster, present, inflight, ops, report, over, ledger>>
        /\ FailStart /\ Whole
        /\ \A p \in Players : ledger[issued][p] \in {"none", "active"}
        /\ \A p \in Players : ledger[issued][p] = "active" => p \in roster
    BY DEF MatchInv, RosterInv, WriteInv
  <2>2. issued' = issued /\ ledger' = ledger
    BY <2>1
  <2> QED
    BY ONLY IInv, CInv, start = "reading", <2>1, <2>2, FailStartWrites
<1> QED
  BY <1>1, <1>2, <1>3, <1>4

LEMMA CloseRunCredits ==
  ASSUME IInv, CInv, NEW c \in closing, CloseRun(c)
  PROVE  CInv'
<1> USE PartyAssumption DEF lifeVars, startVars, closeVars, writeVars, linkVars, runVars, memberVars,
        claimVars, dbVars
<1> USE DEF IInv, TInv, TypeOK, LifeType, StartType, CloseType, WriteType, MemberType, OutsideType, CInv, CloseRun, DroppedTimer, DroppedReport, Forget, RetiresAfterRun
<1>8. /\ c = [run |-> issued, match |-> issued] /\ closing \ {c} = {} /\ issued # 0
      /\ start = "none" /\ boundary = 0 /\ late = 0 /\ phase # "live"
  BY ONLY c \in closing, LifeInv DEF LifeInv
<1>9. c.match = issued /\ c.run = issued /\ issued \in Matches
  BY <1>8 DEF Matches
<1>10. inflight = {}
  BY <1>9 DEF MatchInv, Matches
<1>1. /\ c.match = issued /\ closing' = {} /\ issued \in Matches /\ start = "none" /\ boundary = 0 /\ late = 0
      /\ inflight = {} /\ phase # "live" /\ phase' # "live" /\ abort = {}
  BY <1>8, <1>9, <1>10 DEF RosterInv
<1>2. SettleSucceeds(issued, FALSE) \/ SettleFails(issued, FALSE)
  <2>1. c.match # 0
    BY <1>9 DEF Matches
  <2>2. SettleSucceeds(c.match, FALSE) \/ SettleFails(c.match, FALSE)
    BY ONLY CloseRun(c), <2>1 DEF CloseRun
  <2> QED
    BY ONLY <1>9, <2>2
<1>3. PlayerInv'
  BY DEF PlayerInv, MemberInv, LifeInv
<1>4. RosterInv'
  <2>1. late' = 0 /\ start' = "none" /\ abort' = {}
    BY <1>1, <1>2 DEF SettleSucceeds, SettleFails
  <2> QED
    BY <2>1 DEF RosterInv
<1>5. ControllerMatchesConnection'
  BY DEF ControllerMatchesConnection, PlayerInv, RosterInv, MatchInv, LifeInv, MemberInv, SeatInv
<1>6. WriteInv' /\ OwnerInv' /\ SavedIsDurable'
  <2>1. \A v \in Players : report'[v] = "saved" => report[v] = "saved" /\ v \in over'
    BY DEF PlayerInv
  <2>2. UNCHANGED <<issued, abort, matchOutcomes, inflight, start>>
    OBVIOUS
  <2> QED
    BY ONLY IInv, CInv, <1>1, <1>2, <2>1, <2>2, SettleCredits
<1> QED
  BY <1>3, <1>4, <1>5, <1>6

LEMMA RetrySettlementCredits ==
  ASSUME IInv, CInv, OrderlyStep, RetrySettlement
  PROVE  CInv'
<1> USE PartyAssumption DEF lifeVars, startVars, closeVars, writeVars, linkVars, runVars, memberVars,
        claimVars, dbVars
<1> USE DEF IInv, TInv, TypeOK, LifeType, StartType, CloseType, WriteType, MemberType, OutsideType, CInv, RetrySettlement
<1>1. /\ boundary = issued /\ issued \in Matches /\ start = "none" /\ closing = {}
      /\ inflight = {} /\ phase # "live" /\ retiring /\ (aborted => ops = {})
  BY DEF MatchInv, LifeInv, Matches
<1>2. SettleSucceeds(issued, aborted) \/ SettleFails(issued, aborted)
  BY <1>1
<1>3. PlayerInv'
  BY DEF PlayerInv, MemberInv, LifeInv
<1>4. RosterInv'
  <2>1. late' = late /\ aborted' = aborted
    BY ONLY <1>2, Zenon DEF SettleSucceeds, SettleFails
  <2>2. GivenUp' = GivenUp
    BY DEF GivenUp, RosterParties
  <2> QED
    BY <1>1, <2>1, <2>2 DEF RosterInv
<1>5. ControllerMatchesConnection'
  BY DEF ControllerMatchesConnection, PlayerInv, RosterInv, MatchInv, LifeInv, MemberInv, SeatInv
<1>6. WriteInv' /\ OwnerInv' /\ SavedIsDurable'
  <2>1. \A v \in Players : report'[v] = "saved" => report[v] = "saved" /\ v \in over'
    BY DEF PlayerInv
  <2>2. UNCHANGED <<issued, abort, matchOutcomes, inflight, start, phase, retiring, present>>
    OBVIOUS
  <2>3. phase' # "live"
    BY <1>1
  <2> QED
    BY ONLY IInv, CInv, <1>1, <1>2, <2>1, <2>2, <2>3, SettleCredits
<1> QED
  BY <1>3, <1>4, <1>5, <1>6

LEMMA RetireCredits ==
  ASSUME IInv, CInv, OrderlyStep, Retire
  PROVE  CInv'
<1> USE PartyAssumption DEF lifeVars, startVars, closeVars, writeVars, linkVars, runVars, memberVars,
        claimVars, dbVars
<1> USE DEF IInv, TInv, TypeOK, LifeType, StartType, CloseType, WriteType, MemberType, OutsideType, CInv, Retire
<1>1. PlayerInv'
  BY DEF PlayerInv, MemberInv, LifeInv
<1>2. RosterInv'
  BY DEF RosterInv, PlayerInv, MatchInv, LifeInv, MemberInv, SeatInv, GivenUp, Left, Whole, RosterParties, Ready, ReadyIn
<1>3. ControllerMatchesConnection'
  BY DEF ControllerMatchesConnection, PlayerInv, RosterInv, MatchInv, LifeInv, MemberInv, SeatInv
<1>4. WriteInv' /\ OwnerInv' /\ SavedIsDurable'
  <2>1. \A v \in Players : report'[v] = "saved" => report[v] = "saved" /\ v \in over'
    BY DEF PlayerInv
  <2> QED
    BY <2>1, WriteFrame DEF LifeInv, SeatInv
<1> QED
  BY <1>1, <1>2, <1>3, <1>4

LEMMA DisposeRetiredCredits ==
  ASSUME IInv, CInv, OrderlyStep, DisposeRetired
  PROVE  CInv'
<1> USE PartyAssumption DEF lifeVars, startVars, closeVars, writeVars, linkVars, runVars, memberVars,
        claimVars, dbVars
<1> USE DEF IInv, TInv, TypeOK, LifeType, StartType, CloseType, WriteType, MemberType, OutsideType, CInv, DisposeRetired
<1>1. PlayerInv'
  BY DEF PlayerInv, MemberInv, LifeInv
<1>2. RosterInv'
  BY DEF RosterInv, PlayerInv, MatchInv, LifeInv, MemberInv, SeatInv, GivenUp, Left, Whole, RosterParties, Ready, ReadyIn
<1>3. ControllerMatchesConnection'
  BY DEF ControllerMatchesConnection, PlayerInv, RosterInv, MatchInv, LifeInv, MemberInv, SeatInv
<1>4. WriteInv' /\ OwnerInv' /\ SavedIsDurable'
  <2>1. \A v \in Players : report'[v] = "saved" => report[v] = "saved" /\ v \in over'
    BY DEF PlayerInv
  <2> QED
    BY <2>1, WriteFrame DEF LifeInv, SeatInv
<1> QED
  BY <1>1, <1>2, <1>3, <1>4

LEMMA DisposeEmptyCredits ==
  ASSUME IInv, CInv, OrderlyStep, DisposeEmpty
  PROVE  CInv'
<1> USE PartyAssumption DEF lifeVars, startVars, closeVars, writeVars, linkVars, runVars, memberVars,
        claimVars, dbVars
<1> USE DEF IInv, TInv, TypeOK, LifeType, StartType, CloseType, WriteType, MemberType, OutsideType, CInv, DisposeEmpty
<1>1. PlayerInv'
  BY DEF PlayerInv, MemberInv, LifeInv
<1>2. RosterInv'
  BY DEF RosterInv, PlayerInv, MatchInv, LifeInv, MemberInv, SeatInv, GivenUp, Left, Whole, RosterParties, Ready, ReadyIn
<1>3. ControllerMatchesConnection'
  BY DEF ControllerMatchesConnection, PlayerInv, RosterInv, MatchInv, LifeInv, MemberInv, SeatInv
<1>4. WriteInv' /\ OwnerInv' /\ SavedIsDurable'
  <2>1. \A v \in Players : report'[v] = "saved" => report[v] = "saved" /\ v \in over'
    BY DEF PlayerInv
  <2> QED
    BY <2>1, WriteFrame DEF LifeInv, SeatInv
<1> QED
  BY <1>1, <1>2, <1>3, <1>4

LEMMA WriteSucceedsCredits ==
  ASSUME IInv, CInv, OrderlyStep, NEW w \in inflight, WriteSucceeds(w)
  PROVE  CInv'
<1> USE PartyAssumption DEF lifeVars, startVars, closeVars, writeVars, linkVars, runVars, memberVars,
        claimVars, dbVars
<1> USE DEF IInv, TInv, TypeOK, LifeType, StartType, CloseType, WriteType, MemberType, OutsideType, CInv, WriteSucceeds, Dropped, Told
<1>1. PlayerInv'
  BY DEF PlayerInv, MemberInv, LifeInv
<1>2. RosterInv'
  BY DEF RosterInv, PlayerInv, MatchInv, LifeInv, MemberInv, SeatInv, GivenUp, Left, Whole, RosterParties, Ready, ReadyIn
<1>3. ControllerMatchesConnection'
  BY DEF ControllerMatchesConnection, PlayerInv, RosterInv, MatchInv, LifeInv, MemberInv, SeatInv
<1>4. w \in Writes /\ w.match = issued /\ issued \in Matches /\ w.player \in Players /\ w.outcome \in Outcomes
      /\ w.outcome = matchOutcomes[w.player] /\ w.outcome # "active" /\ start = "none" /\ boundary = 0
  BY DEF Writes, MatchInv, LifeInv, Clear, WriteInv, Outcomes, Reasons
<1>5. \/ ledger' = ledger
      \/ /\ \A m \in Matches, p \in Players :
            \/ m = issued /\ p = w.player /\ ledger'[m][p] = w.outcome
            \/ ledger'[m][p] = ledger[m][p] /\ ~(m = issued /\ p = w.player)
         /\ \A m \in Matches, p \in Players : ledger[m][p] \in Outcomes => ledger'[m][p] = ledger[m][p]
  <2>1. CASE ledger' = Recorded({w}) /\ CanRecord(w)
    <3>1. {w} \in SUBSET Writes /\ \A v \in {w} : CanRecord(v)
      BY <1>4, <2>1
    <3>2. \A m \in Matches, p \in Players :
        /\ \/ \E v \in {w} : v.match = m /\ v.player = p /\ Recorded({w})[m][p] = v.outcome
           \/ Recorded({w})[m][p] = ledger[m][p] /\ ~\E v \in {w} : v.match = m /\ v.player = p
        /\ ledger[m][p] \in Outcomes => Recorded({w})[m][p] = ledger[m][p]
      BY ONLY TypeOK, <3>1, RecordedBy
    <3>3. \A m \in Matches, p \in Players :
            (\E v \in {w} : v.match = m /\ v.player = p) <=> (m = issued /\ p = w.player)
      BY ONLY <1>4
    <3>4. ASSUME NEW m \in Matches, NEW p \in Players
          PROVE  \/ m = issued /\ p = w.player /\ Recorded({w})[m][p] = w.outcome
                 \/ Recorded({w})[m][p] = ledger[m][p] /\ ~(m = issued /\ p = w.player)
      <4> DEFINE x == Recorded({w})[m][p]
      <4>1. \/ \E v \in {w} : v.match = m /\ v.player = p /\ x = v.outcome
            \/ x = ledger[m][p] /\ ~\E v \in {w} : v.match = m /\ v.player = p
        BY ONLY <3>2, m \in Matches, p \in Players
      <4> HIDE DEF x
      <4>2. \/ m = issued /\ p = w.player /\ x = w.outcome
            \/ x = ledger[m][p] /\ ~(m = issued /\ p = w.player)
        BY ONLY <1>4, <4>1
      <4> QED
        BY <4>2 DEF x
    <3> QED
      BY ONLY <2>1, <3>2, <3>4
  <2> QED
    BY <2>1
<1>6. (inflight \cup ops)' \subseteq inflight \cup ops
  OBVIOUS
<1>7. UNCHANGED <<phase, start, roster, matchOutcomes, abort, dbOpen, issued, boundary, matchId, inRun, eligible, present>>
  OBVIOUS
<1>8. \A p \in Players : p # w.player =>
        (ledger'[issued][p] = ledger[issued][p])
  BY ONLY <1>4, <1>5
<1>9. ledger'[issued][w.player] \in {ledger[issued][w.player], w.outcome}
  BY ONLY <1>4, <1>5
<1>10. WriteInv'
  <2>1. \A p \in Players : ledger'[issued][p] \in Outcomes => ledger'[issued][p] = matchOutcomes[p]
    BY ONLY WriteInv, <1>4, <1>8, <1>9 DEF WriteInv, Matches
  <2>2. \A p \in inRun \cap eligible : phase = "live" => p # w.player
    BY DEF WriteInv, Unwritten
  <2>3. inRun \subseteq Players
    OBVIOUS
  <2> QED
    BY ONLY WriteInv, <1>4, <1>6, <1>7, <1>8, <2>1, <2>2, <2>3 DEF WriteInv, Unwritten
<1>11. OwnerInv'
  <2>1. ledger'[issued][w.player] # "active"
    <3>1. \E v \in {w} : v.match = issued /\ v.player = w.player
      BY <1>4
    <3>2. ledger'[issued][w.player] = w.outcome
      BY <1>4, <3>1 DEF Recorded
    <3> QED
      BY <1>4, <3>2
  <2>2. boundary # issued
    BY <1>4 DEF Matches
  <2>3. ASSUME NEW p \in Players, issued \in dbOpen, ledger'[issued][p] = "active"
        PROVE  Owned(issued, p)' \/ matchOutcomes'[p] = "disconnected"
    <3>1. CASE p = w.player
      BY <1>4, <2>1, <2>3, <3>1 DEF Owned
    <3>2. CASE p # w.player
      <4>1. ledger[issued][p] = "active"
        BY <1>8, <2>3, <3>2
      <4>2. Owned(issued, p) \/ matchOutcomes[p] = "disconnected"
        BY <2>2, <2>3, <4>1 DEF OwnerInv, Active, LeftAborted
      <4>3. \A v \in inflight \cup ops : v.player = p => v \in (inflight \cup ops)'
        BY <3>2
      <4> QED
        BY <1>7, <2>2, <4>2, <4>3 DEF Owned
    <3> QED
      BY <3>1, <3>2
  <2> QED
    BY ONLY <1>7, <2>3 DEF OwnerInv, Active
<1>12. SavedIsDurable'
  <2>1. \A m \in Matches, p \in Players : ledger[m][p] \in Outcomes => ledger'[m][p] = ledger[m][p]
    BY <1>5
  <2>2. ledger'[issued][w.player] = w.outcome
    <3>1. \E v \in {w} : v.match = issued /\ v.player = w.player
      BY <1>4
    <3> QED
      BY <1>4, <3>1 DEF Recorded
  <2>3. ASSUME NEW p \in Players, report'[p] = "saved"
        PROVE  p \in over' /\ \E m \in Matches : ledger'[m][p] \in Reasons
    <3>1. CASE p = w.player /\ w.outcome \in Reasons /\ report[p] = "pending"
      BY <1>4, <2>2, <3>1 DEF PlayerInv
    <3>2. CASE report[p] = "saved"
      <4>1. p \in over /\ \E m \in Matches : ledger[m][p] \in Reasons
        BY <3>2 DEF SavedIsDurable
      <4> QED
        BY ONLY <2>1, <4>1, over' = over DEF Outcomes
    <3>3. report'[p] = report[p] \/ (p = w.player /\ w.outcome \in Reasons /\ report[p] = "pending")
      BY <1>4
    <3> QED
      BY <2>3, <3>1, <3>2, <3>3
  <2> QED
    BY <2>3 DEF SavedIsDurable
<1> QED
  BY <1>1, <1>2, <1>3, <1>10, <1>11, <1>12

LEMMA WriteFailsCredits ==
  ASSUME IInv, CInv, OrderlyStep, NEW w \in inflight, WriteFails(w)
  PROVE  CInv'
<1> USE PartyAssumption DEF lifeVars, startVars, closeVars, writeVars, linkVars, runVars, memberVars,
        claimVars, dbVars
<1> USE DEF IInv, TInv, TypeOK, LifeType, StartType, CloseType, WriteType, MemberType, OutsideType, CInv, WriteFails, Kept, Dropped, Told
<1>1. PlayerInv'
  BY DEF PlayerInv, MemberInv, LifeInv
<1>2. RosterInv'
  BY DEF RosterInv, PlayerInv, MatchInv, LifeInv, MemberInv, SeatInv, GivenUp, Left, Whole, RosterParties, Ready, ReadyIn
<1>3. ControllerMatchesConnection'
  BY DEF ControllerMatchesConnection, PlayerInv, RosterInv, MatchInv, LifeInv, MemberInv, SeatInv
<1>4. w \in Writes /\ w.match = issued /\ issued \in Matches /\ w.player \in Players /\ w.outcome \in Outcomes
      /\ w.outcome = matchOutcomes[w.player] /\ w.outcome # "active" /\ start = "none" /\ boundary = 0
  BY DEF Writes, MatchInv, LifeInv, Clear, WriteInv, Outcomes, Reasons
<1>5. \/ ledger' = ledger
      \/ /\ \A m \in Matches, p \in Players :
            \/ m = issued /\ p = w.player /\ ledger'[m][p] = w.outcome
            \/ ledger'[m][p] = ledger[m][p] /\ ~(m = issued /\ p = w.player)
         /\ \A m \in Matches, p \in Players : ledger[m][p] \in Outcomes => ledger'[m][p] = ledger[m][p]
  <2>1. CASE ledger' = Recorded({w}) /\ CanRecord(w)
    <3>1. {w} \in SUBSET Writes /\ \A v \in {w} : CanRecord(v)
      BY <1>4, <2>1
    <3>2. \A m \in Matches, p \in Players :
        /\ \/ \E v \in {w} : v.match = m /\ v.player = p /\ Recorded({w})[m][p] = v.outcome
           \/ Recorded({w})[m][p] = ledger[m][p] /\ ~\E v \in {w} : v.match = m /\ v.player = p
        /\ ledger[m][p] \in Outcomes => Recorded({w})[m][p] = ledger[m][p]
      BY ONLY TypeOK, <3>1, RecordedBy
    <3>3. \A m \in Matches, p \in Players :
            (\E v \in {w} : v.match = m /\ v.player = p) <=> (m = issued /\ p = w.player)
      BY ONLY <1>4
    <3>4. ASSUME NEW m \in Matches, NEW p \in Players
          PROVE  \/ m = issued /\ p = w.player /\ Recorded({w})[m][p] = w.outcome
                 \/ Recorded({w})[m][p] = ledger[m][p] /\ ~(m = issued /\ p = w.player)
      <4> DEFINE x == Recorded({w})[m][p]
      <4>1. \/ \E v \in {w} : v.match = m /\ v.player = p /\ x = v.outcome
            \/ x = ledger[m][p] /\ ~\E v \in {w} : v.match = m /\ v.player = p
        BY ONLY <3>2, m \in Matches, p \in Players
      <4> HIDE DEF x
      <4>2. \/ m = issued /\ p = w.player /\ x = w.outcome
            \/ x = ledger[m][p] /\ ~(m = issued /\ p = w.player)
        BY ONLY <1>4, <4>1
      <4> QED
        BY <4>2 DEF x
    <3> QED
      BY ONLY <2>1, <3>2, <3>4
  <2> QED
    BY <2>1
<1>6. (inflight \cup ops)' \subseteq inflight \cup ops
  OBVIOUS
<1>7. UNCHANGED <<phase, start, roster, matchOutcomes, abort, dbOpen, issued, boundary, matchId, inRun, eligible, present>>
  OBVIOUS
<1>8. \A p \in Players : p # w.player =>
        (ledger'[issued][p] = ledger[issued][p])
  BY ONLY <1>4, <1>5
<1>9. ledger'[issued][w.player] \in {ledger[issued][w.player], w.outcome}
  BY ONLY <1>4, <1>5
<1>10. WriteInv'
  <2>1. \A p \in Players : ledger'[issued][p] \in Outcomes => ledger'[issued][p] = matchOutcomes[p]
    BY ONLY WriteInv, <1>4, <1>8, <1>9 DEF WriteInv, Matches
  <2>2. \A p \in inRun \cap eligible : phase = "live" => p # w.player
    BY DEF WriteInv, Unwritten
  <2>3. inRun \subseteq Players
    OBVIOUS
  <2> QED
    BY ONLY WriteInv, <1>4, <1>6, <1>7, <1>8, <2>1, <2>2, <2>3 DEF WriteInv, Unwritten
<1>11. OwnerInv'
  <2>1. w \in ops'
    OBVIOUS
  <2>2. boundary # issued
    BY <1>4 DEF Matches
  <2>3. ASSUME NEW p \in Players, issued \in dbOpen, ledger'[issued][p] = "active"
        PROVE  Owned(issued, p)' \/ matchOutcomes'[p] = "disconnected"
    <3>1. CASE p = w.player
      BY <1>4, <2>1, <2>3, <3>1 DEF Owned
    <3>2. CASE p # w.player
      <4>1. ledger[issued][p] = "active"
        BY <1>8, <2>3, <3>2
      <4>2. Owned(issued, p) \/ matchOutcomes[p] = "disconnected"
        BY <2>2, <2>3, <4>1 DEF OwnerInv, Active, LeftAborted
      <4>3. \A v \in inflight \cup ops : v.player = p => v \in (inflight \cup ops)'
        BY <3>2
      <4> QED
        BY <1>7, <2>2, <4>2, <4>3 DEF Owned
    <3> QED
      BY <3>1, <3>2
  <2> QED
    BY ONLY <1>7, <2>3 DEF OwnerInv, Active
<1>12. SavedIsDurable'
  <2>1. \A m \in Matches, p \in Players : ledger[m][p] \in Outcomes => ledger'[m][p] = ledger[m][p]
    BY <1>5
  <2>2. \A p \in Players : report'[p] = "saved" => report[p] = "saved"
    BY <1>4
  <2> QED
    BY <2>1, <2>2 DEF SavedIsDurable, Outcomes
<1> QED
  BY <1>1, <1>2, <1>3, <1>10, <1>11, <1>12

-----------------------------------------------------------------------------
(* Every step keeps the invariant. *)
LEMMA CreditStep ==
  ASSUME IInv, CInv, [OrderlyStep]_vars, [Next]_vars
  PROVE  CInv'
<1>1. CASE UNCHANGED vars \/ Ended
  <2>1. UNCHANGED vars
    BY <1>1 DEF Ended
  <2> USE <2>1 DEF vars, lifeVars, startVars, closeVars, writeVars, memberVars, linkVars, runVars, claimVars, dbVars
  <2>2. PlayerInv' /\ ControllerMatchesConnection' /\ SavedIsDurable'
    BY DEF CInv, PlayerInv, ControllerMatchesConnection, SavedIsDurable
  <2>3. RosterInv'
    BY DEF CInv, RosterInv, GivenUp, Whole, Left, RosterParties
  <2>4. WriteInv' /\ OwnerInv'
    BY DEF CInv, WriteInv, Unwritten, OwnerInv, Active, LeftAborted, Owned
  <2> QED
    BY <2>2, <2>3, <2>4 DEF CInv
<1> QED
  BY <1>1, ReserveCredits, CancelQueueCredits, JoinPartyCredits, ReleasePartyCredits,
       DropReservationCredits, ReconnectCredits, DisconnectCredits,
       ExpireHandoffCredits, LeaveDownedCredits, LeaveRunCredits, ExtractCredits,
       TimeoutRunCredits, AbandonAssemblyCredits, OpenWindowCredits,
       EnterCountdownCredits, BeginStartCredits, SimulationReadyCredits,
       SimulationThrowsCredits, StartRegisteredCredits, StartRefusedCredits,
       StartCommitsLateCredits, GoLiveCredits, StartAbortsCredits, CloseRunCredits,
       RetrySettlementCredits, RetireCredits, DisposeRetiredCredits,
       DisposeEmptyCredits, WriteSucceedsCredits, WriteFailsCredits
  DEF Next

(* Nothing is registered, written or reported in the beginning. *)
LEMMA CreditInit == Init => CInv
<1> SUFFICES ASSUME Init PROVE CInv
  OBVIOUS
<1>1. PlayerInv /\ RosterInv /\ WriteInv
  BY DEF Init, PlayerInv, RosterInv, WriteInv
<1>2. ControllerMatchesConnection /\ OwnerInv /\ SavedIsDurable
  BY DEF Init, ControllerMatchesConnection, OwnerInv, Active, SavedIsDurable
<1> QED
  BY <1>1, <1>2 DEF CInv

(* Closing a match writes the outcome that the arena noted for every       *)
(* participant that has none yet. *)
LEMMA SettleCloses ==
  ASSUME IInv, CInv, issued \in Matches, issued' = issued,
         NEW ab, ab => ops = {}, SettleSucceeds(issued, ab) \/ SettleFails(issued, ab),
         NEW m \in dbOpen \ dbOpen', NEW p \in Players, ledger[m][p] # "none"
  PROVE  ledger'[m][p] = matchOutcomes[p]
<1> USE DEF IInv, TInv, TypeOK, OutsideType, CInv
<1>1. m = issued /\ dbOpen' # dbOpen
  BY DEF MatchInv
<1>2. PICK W \in SUBSET Owed(issued, ab) :
        /\ \A w \in W : CanRecord(w)
        /\ ledger' = Recorded(W)
        /\ Closable(issued, ab) /\ W = Owed(issued, ab)
  BY <1>1, SettleWrites
<1>3. W \in SUBSET Writes
  BY OwedType
<1>4. \A w \in W : w.outcome = matchOutcomes[w.player]
  BY DEF Owed, WriteInv
<1>5. \/ \E w \in W : w.match = issued /\ w.player = p /\ Recorded(W)[issued][p] = w.outcome
      \/ Recorded(W)[issued][p] = ledger[issued][p] /\ ~\E w \in W : w.match = issued /\ w.player = p
  BY <1>2, <1>3, RecordedBy
<1>6. Recorded(W)[issued][p] # "active"
  BY <1>2 DEF Closable
<1>7. CASE Recorded(W)[issued][p] = ledger[issued][p]
  <2>1. ledger[issued][p] \in Outcomes /\ issued # 0
    BY <1>1, <1>6, <1>7 DEF Matches
  <2> QED
    BY <1>1, <1>2, <1>7, <2>1 DEF WriteInv
<1> QED
  BY <1>1, <1>2, <1>4, <1>5, <1>7

(***************************************************************************)
(* The theorems.                                                           *)
(***************************************************************************)

(* In an orderly course, the arena loses no outcome but a disconnection:   *)
(* a participant without an outcome that is still a member is owned,       *)
(* unless it was counted as disconnected, whatever fails, drops, leaves or *)
(* is cancelled meanwhile.                                                 *)
THEOREM OutcomesAreOwned ==
  Spec /\ Orderly => []OnlyDisconnectionsAreLost
<1>1. IInv /\ [Next]_vars /\ [OrderlyStep]_vars => IInv'
  BY InvStep
<1>2. IInv /\ CInv /\ [Next]_vars /\ [OrderlyStep]_vars => CInv'
  BY CreditStep
<1>3. IInv /\ CInv => OnlyDisconnectionsAreLost
  BY DEF IInv, MatchInv, CInv, OwnerInv, Active, LeftAborted, OnlyDisconnectionsAreLost, Orphans
<1> QED
  BY <1>1, <1>2, <1>3, InvInit, CreditInit, PTL DEF Spec, Orderly

(* In an orderly course, a player told "saved" has an extraction or a loss *)
(* of its own in the database, which no later write or retry changes.      *)
THEOREM SavedStaysSaved ==
  Spec /\ Orderly => []SavedIsDurable
<1>1. IInv /\ [Next]_vars /\ [OrderlyStep]_vars => IInv'
  BY InvStep
<1>2. IInv /\ CInv /\ [Next]_vars /\ [OrderlyStep]_vars => CInv'
  BY CreditStep
<1>3. CInv => SavedIsDurable
  BY DEF CInv
<1> QED
  BY <1>1, <1>2, <1>3, InvInit, CreditInit, PTL DEF Spec, Orderly

(* In an orderly course, the bots of a live run follow their humans        *)
(* through drops, grace, expiry and reconnection, also during the start.   *)
THEOREM BotsFollowHumans ==
  Spec /\ Orderly => []ControllerMatchesConnection
<1>1. IInv /\ [Next]_vars /\ [OrderlyStep]_vars => IInv'
  BY InvStep
<1>2. IInv /\ CInv /\ [Next]_vars /\ [OrderlyStep]_vars => CInv'
  BY CreditStep
<1>3. CInv => ControllerMatchesConnection
  BY DEF CInv
<1> QED
  BY <1>1, <1>2, <1>3, InvInit, CreditInit, PTL DEF Spec, Orderly

(* In an orderly course, finishMatch finds the outcomes that the arena     *)
(* noted for its participants, whatever was lost or retried before.        *)
THEOREM MatchesCloseAsPlayed ==
  Spec /\ Orderly => ClosedAsPlayed
<1>1. ASSUME IInv, CInv, [Next]_vars, NEW m \in dbOpen \ dbOpen', NEW p \in Players, ledger[m][p] # "none"
      PROVE  ledger'[m][p] = matchOutcomes[p]
  <2>1. (\E c \in closing : CloseRun(c)) \/ RetrySettlement
    BY <1>1 DEF Next, vars, startVars, closeVars, writeVars, memberVars, linkVars, runVars, claimVars, dbVars, lifeVars,
       Reserve, CancelQueue, JoinParty, ReleaseParty, DropReservation, Reconnect, Disconnect,
       ExpireHandoff, LeaveDowned, LeaveRun, Extract, TimeoutRun, WriteSucceeds, WriteFails,
       AbandonAssembly, OpenWindow, EnterCountdown, BeginStart, SimulationReady, SimulationThrows,
       StartRegistered, StartRefused, StartCommitsLate, Register, GoLive, StartAborts,
       Retire, DisposeRetired, DisposeEmpty, Ended
  <2>2. /\ issued' = issued /\ issued \in Matches
        /\ \E ab \in BOOLEAN : (ab => ops = {}) /\ (SettleSucceeds(issued, ab) \/ SettleFails(issued, ab))
    <3>1. ASSUME NEW c \in closing, CloseRun(c)
          PROVE  /\ issued' = issued /\ issued \in Matches
                 /\ SettleSucceeds(issued, FALSE) \/ SettleFails(issued, FALSE)
      <4>1. c = [run |-> issued, match |-> issued] /\ issued # 0
        BY ONLY <1>1, <3>1 DEF IInv, LifeInv
      <4>2. issued \in Matches /\ c.match = issued /\ issued # 0
        BY <1>1, <4>1 DEF IInv, TInv, TypeOK, StartType, Matches
      <4>3. issued' = issued /\ (SettleSucceeds(c.match, FALSE) \/ SettleFails(c.match, FALSE))
        BY <3>1, <4>2 DEF CloseRun, startVars
      <4> QED
        BY ONLY <4>2, <4>3
    <3>2. CASE RetrySettlement
      BY <1>1, <3>2 DEF RetrySettlement, startVars, closeVars, IInv, TInv, TypeOK, StartType, CloseType, MatchInv, LifeInv, Matches
    <3> QED
      BY <2>1, <3>1, <3>2
  <2> QED
    BY <1>1, <2>2, SettleCloses
<1>2. IInv /\ [Next]_vars /\ [OrderlyStep]_vars => IInv'
  BY InvStep
<1>3. IInv /\ CInv /\ [Next]_vars /\ [OrderlyStep]_vars => CInv'
  BY CreditStep
<1>4. IInv /\ CInv /\ [Next]_vars =>
        [\A m \in dbOpen \ dbOpen', p \in Players : ledger[m][p] # "none" => ledger'[m][p] = matchOutcomes[p]]_vars
  BY <1>1
<1> QED
  BY <1>2, <1>3, <1>4, InvInit, CreditInit, PTL DEF Spec, Orderly, ClosedAsPlayed
=============================================================================
