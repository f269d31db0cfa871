# A verification development for dotbot

dotbot is a server-authoritative squad extraction game. Players meet in a public
arena, play a run of up to eighteen roles (humans and player-role AI), extract
with their items or lose them, and deploy again. This directory models the
parts of the servers on which players' items, their places in an arena and the
fleet's safe shutdown depend, checks them with TLC, and proves the central
promises with TLAPS.

Paths below are relative to the repository; `Room.ts` and
`app.ts` are in `apps/server/src/`, `PostgresPersistence.ts` in
`apps/server/src/db/`, `handler.ts` in `apps/matchmaker/src/`, `simulation.ts` in
`packages/game/src/`.

## The system

| component | state | operations | talks to |
|---|---|---|---|
| Public arena (`Room.ts`, hot-arena mode) | phase, retirement, members and tokens, the match in progress, pending writes, the settlement still owed | join, reconnect, disconnect, grace expiry, leave, tick, start, end, settle, retire, dispose | database, simulation, peers, registry |
| Room registry (`RoomManager.ts`) | rooms by code, "session ending" | tick, assign, dispose, end the process | arenas, GameLift |
| Match tables (`PostgresPersistence.ts` 1233-1483) | matches, participants with outcomes, consumed claims | startMatch, recordExtraction, recordOutcome, finishMatch | arena (directly or over a relay) |
| Durable parties and queue claims (`PostgresPersistence.ts` 403-827) | parties with versions, members, invites, active claims | invite, accept, leave, disband, transfer, claim, cancel, complete cancellation | matchmaker, match tables |
| Atomic admission (`app.ts` 940-1440) | staged parties, active player sessions, removals under way | stage, commit, cancel, reconcile a release | GameLift gate, arena |
| GameLift gate and adapter (`GameLiftSessionGate.ts`, `apps/gamelift-adapter`) | bound game session, accepted player sessions, process state | inspect, accept as a batch, remove, drain, end | app, GameLift |
| Matchmaker (`apps/matchmaker`) | tickets, party allocations, arena directory | create, poll, cancel | database, GameLift, arenas |
| Arena directory (`ArenaDirectory.ts`) | leased entries of open arenas | heartbeat, list | arena, matchmaker |
| Role assignment (`hotArena.ts`) | none | pack parties into six squads of three | arena |
| Input queue (`Room.ts` 900-1010) and client prediction | frames by sequence number, acknowledgement | enqueue, consume, trim; predict, reconcile | client, simulation |
| Base tutorial (`BaseTutorialAuthority.ts`) | revisioned progress per player | advance, skip | database, client |
| Accounts and identity | players, links, friends, guests merged into accounts | register, link, merge, delete | database |
| Simulation (`packages/game`) | bodies, inventories, Dots, mines, channels | apply inputs, step, hand over, remove | arena |
| Client | renderer, UI, quick-play state machine, studio | | server |

### What is hard

The server is one JavaScript thread: nothing is preempted, but everything may
happen between two awaits. `startMatch` has three kinds of awaits with the arena
open to every message, timer and tick between them. Closing a match overlaps
with players who queue again, drop and expire. Every database call may fail, may
succeed without its answer arriving, and a start may commit after its caller has
given up. Retirement may be requested at any moment, and a process that says it
is safe to terminate is killed. The adapter of GameLift is another process, whose
calls take effect when they want to. The matchmaker is a set of Lambda
invocations that share two DynamoDB items, each of which may die anywhere. The
party tables are shared by transactions that choose which rows to lock from
what they read before they locked. In the simulation several players act on the
same items within one tick. The hazards are listed, with their lines, in
`PROJECT.json`.

### What makes each component correct

* **Arena.** Safe to terminate means that nothing is owed to the database. A
  registered participant gets one outcome, the one it earned. A bot
  follows its human. An arena that failed to close a match begins no other. A queued
  member deploys, a registered match closes, a retiring arena becomes safe. (That
  runs do not overlap is intended as well, and not so: see the known disagreements.)
* **Registry.** A process ends only when its arena is safe.
* **Match tables.** A finished match has an outcome for every participant; a
  claim is consumed at most once.
* **Parties and claims.** A party that is queued does not change; a claim is
  active, consumed or cancelled, and a cancellation is final.
* **Admission.** A party enters whole or not at all; no GameLift slot is held by
  nobody for ever; nobody plays on a slot that is being given away.
* **Matchmaker.** A claim is placed once, its seats stay reserved until somebody
  cancels, and whatever was made for it in GameLift can be found from its record. (That a
  finished cancellation leaves nothing behind is intended as well, and not so.)
* **Simulation.** Items are neither copied nor lost; a swap exchanges what was
  chosen; mines stay with their owner's squad; squads stay within their cap;
  progress is never inherited.
* **Role assignment.** Every admissible set of parties fits, and no party is split.
* **Input queue and prediction.** A frame is applied at most once and in order;
  the acknowledgement passes only what left the queue from its front, what the
  server may still apply the client can still replay, and a kill cam that gates the input is released.
* **Tutorial.** A revision is applied once; a stale action changes nothing.

## Plan

1. **HotArena**, **InputStream**: the arena with the match tables, and the input
   stream (done, with proofs).
2. **AdmissionGate** with the abstract **PartySeats**: atomic admission (done).
3. **PartyAllocation** with the abstract **ClaimLife**: the matchmaker's
   allocation and cancellation of a claim (done).
4. **DurableParty**: parties and queue claims, with row locks (done).
5. **Simulation**: the rules of a tick (done; ambient bots and geometry left out).
6. Proofs: the types, safety and refinements of AdmissionGate and PartyAllocation, the
   types and safety of DurableParty, and every invariant of Simulation (done).
7. Left out for now: the tutorial, the client's quick-play machine, the
   publisher of an arena's admission (`Room.publishPublicAdmission`).

Runs stay at two or three actors of a kind and one fault at a time where faults
are counted; every theorem is for all values.

## The modules

| module | what it is |
|---|---|
| `HotArena` | the arena, its members, its claims and its part of the database |
| `HotArenaProperties` | the type invariant, safety, action and liveness properties, the fairness |
| `MCHotArena` | party shapes and the symmetry for TLC |
| `HotArenaSafety` | the types; and of an arena whose runs do not overlap: safe termination, outcomes that reach the database, controllers, matches closed as played; for all constants |
| `InputStream` | one player's input and kill cams: client, connection, jitter buffer and gate |
| `InputStreamProperties` | the type invariant, safety, action and liveness properties, and two documented claims |
| `InputLoops` | Room's loops over the array of queued frames, to compare with the operators on the set |
| `InputStreamSafety` | the types, frames applied once and in order, copies that are fresh, replays that cover, a shut gate with a keeper, and sets that match the loops over the array, for all constants |
| `AdmissionGate` | the public server's door: handshakes, batches, removals, reconciliation |
| `PartySeats` | what admission promises: a claim is open, admitted whole, or dissolved |
| `AdmissionProperties` | types, safety, the refinement of PartySeats, fairness and liveness |
| `AdmissionProofs` | the inductive invariant of the gate, its types and bindings, no slot lost, the refinement of PartySeats, and that a newcomer keeps its binding in the step that seats it, for all constants |
| `PartyAllocation` | the matchmaker's requests and cancellations of one claim |
| `ClaimLife` | what the matchmaker promises: one placement, held until cancelled, never again |
| `AllocationProperties` | types, safety, the refinement of ClaimLife, liveness |
| `AllocationProofs` | the inductive invariant of the allocation, its types and seats, the refinement of ClaimLife, for all constants |
| `AllocationCleanup` | every game session is named and every player session can be found from the claim's record, for all constants |
| `DurableParty` | parties, invitations and queue claims as transactions with row locks |
| `DurablePartyProperties` | what the tables hold, and the claims' properties |
| `PartyRosters` | rosters that are sound and frozen while queued, and claims that are apart and end once, for all constants |
| `Simulation` | one tick of a run, phase by phase |
| `SimulationProperties` | types and the rules of items, swaps, mines, squads and progress |
| `SimulationWorlds` | what the operators of a tick do to a world: folds, inventories, intents, hits, mines, swaps, for all constants |
| `SimulationSafety` | channels, extraction and removal, the inductive invariant of a run, and the six rules of SimulationProperties, for all constants |
| `MCAdmission`, `MCAllocation`, `MCDurableParty`, `MCSimulation` | symmetry, initial tables and scenes for TLC |

### How HotArena corresponds to the code

An action is what runs between two awaits: a message handler, a timer, one way
through the tick, or the continuation of an await. Variables carry the names of
the fields they stand for; the comment beside each says so where the name
differs. Some fields are represented by less:

* A member object is spread over functions and sets by player: `present` is
  membership in `members`, `token` in `memberByToken`, `peer` a socket,
  `handoff` the reconnection timer. The timer has a third value, "stale":
  `releasePublicMember` and `leaveRun` clear a timer without setting the field
  to null, and a start in progress still reads it.
* `start` is where `startMatch` waits: for the simulation ("creating"), for the
  database ("registering"), or for the players' preferences ("reading"). "none"
  is `matchStartPromise === null`. `roster` is its local `runMembers`.
* `closing` has one element for each call of `endHotRun` that waits for its writes and
  has not reached its finalizer: the run it ended and its local `completedMatchId`.
  There can be several, because `tickPublicAssembly` starts the next run without
  waiting for the last one's.
* `inflight` is `pendingPersistence` together with what each write says; `ops`
  is `pendingPersistenceOperations`; `boundary` the match of
  `pendingPersistenceSettlement`; `aborted` says that this settlement is
  `failPublicStart`'s, and `abort` which players it records as disconnected.
* `ctrl` is the controller the simulation has for the member's bot.
* `ledger` and `dbOpen` are the participants' outcomes and the unfinished matches
  in the database; `late` is a start that may still commit although its caller
  was told that it failed.
* `seat` and `fenced` are a party's queue claim as this arena and the database
  see it: reserved here, joined, consumed or cancelled (both "none" again), and
  whether it is being cancelled.

| code | actions |
|---|---|
| claimPartyQueue, cancelPartyQueue, the gate's cancellation | Reserve, CancelQueue, DropReservation |
| joinPublicParty (with replaceableCompletedMembers, activateFreshPublicClaim) | JoinParty |
| releasePublicReservations | ReleaseParty |
| join with a known token, disconnect, expireHandoff | Reconnect, Disconnect, ExpireHandoff |
| leaveRun, processRunEvents, timeoutRun (with completeIfNoActiveMembers, endHotRun up to its await) | LeaveDowned, LeaveRun, Extract, TimeoutRun |
| answers of recordOutcome and recordExtraction | WriteSucceeds, WriteFails |
| tickPublicAssembly | AbandonAssembly, OpenWindow, EnterCountdown, BeginStart |
| startMatch, failPublicStart | SimulationReady, SimulationThrows, StartRegistered, StartRefused, StartCommitsLate, GoLive, StartAborts |
| endHotRun after its writes, retryPersistenceSettlement | CloseRun, RetrySettlement |
| requestRetirement, RoomManager.tick | Retire, DisposeRetired, DisposeEmpty |

Abstractions, beyond those in the module's header: squads and names are left out
(a party fits when its players do); a re-sent hello that replaces a living
socket is a disconnection followed by a reconnection; "died" and "timeout" are
both "lost", because the arena treats them alike. An answer to an awaited call
comes in one step with the effect of the call, except where the model has a
fault for the difference. The settlement of a boundary is one step with the
outcomes any interruption of it can leave.

`MaxMatches` bounds the match ids, `MaxFaults` the failed calls. `MaxRuns` is the
program's own limit and not a bound of the model. `Faults` chooses which
failures are possible; timing is never restricted: players leave during a start,
members are released from an earlier run, and a run may begin before the last is closed.

### How InputStream corresponds to the code

The client is `NetSession` (`apps/client/src/game/session/NetSession.ts`) with
the render loop of `useDotBotGame.ts`; the server is one member of `Room`. They
are joined by one ordered WebSocket, `up` and `down`. An action is one message
handled, one turn of the render loop, or one server tick.

| code | actions and operators |
|---|---|
| render loop 372-428, resetForNewRun, sendInput, advancePrediction, emitInputFrame, flushInputFrames, drainKillCams | RenderFrame |
| setReplayActive, replaySafeInput | StartReplay, Done, ReplaySafeInput, EndReplay |
| the socket's close and timeout handlers, clearInputsForHandoff | Lose, Close; a reloaded page is Reload |
| NetSession.receive (welcome, matchStart, snap, killCam), resetRunTransportState, dropAcknowledgedInputs | ClientReceive |
| Room.receive (input, killCamDone), enqueueInputFrames | ServerReceive, EnqueueInputFrames, Shed, AckOf |
| tick, trimStandingBacklog, consumeInputFrame, processKillCamEvents, processRunEvents, broadcastSnapshot | Tick, Trimmed, ConsumeInputFrame, StepEvent |
| disconnect, join of a known member, sendMatchStart | Disconnect, Rejoin, ResetStream, MatchStart |

A frame is its number and its one-shot edges. `inputQueue` is an array sorted by
number without duplicates and here the set of its frames; shedding, which the
code does by repeatedly cutting the first frame without an edge or else the
first frame, is `Shed`, and the acknowledgement it leaves is `AckOf`. That these
are what the loops compute is not assumed: `InputLoops` has the loops, and
`SheddingMatchesLoops` compares them in every reachable state, for the message
that arrives next and for trims of every size.

`link` is the connection as the client sees it: closed, joining (hello sent,
welcome not read: `handshakeReady` is false and `send` drops), open. `peer` is
the connection as the server sees it, which learns of a loss later and may
first read what was already sent. `newGeneration` says that `runGeneration` has
advanced since the render loop last looked; `drainable` is the queued clip,
`playing` the playback. `applied`, `arrived` and `baseline` are history. Time is
left out: a tick or a display frame happens at any moment, so that every delay,
burst and starvation is a behaviour. What a simulation step does to the player
(nothing, downed, revived, extracted) is chosen.

`MaxSeq`, `MaxUp`, `MaxDown`, `MaxCloses` and `MaxDowns` bound frames, messages
in flight, connection losses and downs. Full channels stop the client's display
frames, the end of a playback, and the server's ticks; reading frees them.

### How AdmissionGate corresponds to the code

`createGameServer` in `app.ts` with atomic party allocation on, from a socket's
hello to the removal of its GameLift session, with `GameLiftSessionGate.ts`,
the adapter `main.go` behind it, and what the arena does to the members it is
given. `entry` is `activePlayerSessions`, `batch` the staged parties,
`pending` is `pendingAtomicParties`, `conn` a socket and how far its hello has come,
`room` the arena's members, `gl` GameLift's own view of a session, `rec` the
cancellation being reconciled.

| code | actions |
|---|---|
| the socket's message handler, prepareAndStage | Hello, InspectReturns, PrepareFails, Stages, StagesLast |
| commitPendingAtomicParty, acceptPublicPartySessions and the adapter's handler | AdapterAccepts, AdapterRefuses, CommitAccepted, CommitFails, CommitMissesMember, JoinRefused, PartyJoins, DeliveryFails |
| releasePendingAtomicParty, the batch's timer | BatchTimeout, and the operators Release, RefuseAll, Forget |
| removePlayerSession, finishPlayerSessionRemoval | ReconnectExpires, RemovalSucceeds, RemovalFails, RemovalRecovers |
| close and reconnection of a socket, releasePublicMember and its callback | SocketClosing, SocketCloses, Rejoins, RejoinFails, RoomReleases, RoomForgets |
| reconcilePublicPartyRelease, releasePartyReservations | ReleaseRequested, VerifyFails, VerifySucceeds, Drained, DirectRemoval |
| CreatePlayerSessions, a reservation that expires (GameLift) | CreateSessions, ReservationExpires |

The adapter performs a call that the server has stopped waiting for. Signature
checks are one refusal that may happen; the non-atomic handshake, which is the
rollback path without parties, is left out. `AllOrNobody` says that the gate
implements `PartySeats`: `seated` is read off the arena's members, `phase` off
`admitted` and off the sessions. A claim is dissolved once one of its sessions is
being removed, or is gone from GameLift while no hello holds it inspected
(`Held`): a member whose reservation lapses between its inspection and the
acceptance of its party is found out by the acceptance.

### How PartyAllocation corresponds to the code

`allocateAtomicParty` and `cancelAtomicQuickPlay` in `handler.ts`. Every request
is a Lambda invocation; an action is one conditional write or one call, or a
read together with the conditional write it feeds, where the condition notices
every change that matters between the two. The cancellation's mark does not (it tests the
record's status and keys), so there the reads (`FindUncancelled`, `ReadPointer`) and
the mark are separate actions. `rec` is the claim's
allocation record, `dir` the directory's arena pointer, `gs` and `batch` are
GameLift's game and player sessions, `claim` the claim in the control plane's
database, `job` the requests' local state.

| code | actions |
|---|---|
| the loop of allocateAtomicParty | Start, FindAnswer, Own, Fence, FindStranded, Forget, ForgetIntent |
| allocatePartyIntoArena, createAtomicArena | Pack, RemovePointer, GiveUp, Point, RetainIntent, LaunchAnswered, LaunchRefused, LaunchUncertain |
| retainCleanup, preflightParty, createPartyPlayerSessions | Retain, Widen, PreflightRejected, CreateSessions, GameLiftReserves, Answered, Incomplete |
| publication of pointer and record, activation | PublishPointer, PublishRecord, Activate |
| the catch blocks, compensatePartyAllocation | Unpoint, Keep, Close, ReleaseSessions, Unpack, TerminateSession |
| cancelAtomicQuickPlay, releaseExpiredAllocationDirectoryClaim | Ask, Tombstone, FindUncancelled, FindCancelling, Mark, MarkRefused, ReadPointer, Replay, Kill, KillRefused, Finish, Complete |
| leases, deadlines, updateArenaAdmission, timeouts of an invocation | LeaseExpires, PointerAges, ArenaReopens, CleanupFails, Die |
| other parties in the arena | OtherJoins, OtherLeaves |

A lost answer of CreatePlayerSessions may still be performed later (`flying`).
The sessions of one call are one batch. Three constants choose conditions:
`SlowCleaner` (several requests work off the same stale evidence), `Lingers` (the server of
a terminated game session still answers releases), `CleanupFaults` (compensation
fails or is cut off). `published` and `stray` are history: the arenas the directory has
offered, and those a cancellation asked for again although only the pointer named
them. `LifeSpec` says that the whole implements `ClaimLife`: a
claim's state is its record's status, its placement the session batch the
record names.

### How DurableParty corresponds to the code

Every call of `PostgresPersistence.ts` that writes parties, members, invitations
or queue claims, as the transaction it is. `Begin` locks the caller's row and
reads its party as a hint; `Lock` takes the next row it wants, which may wait;
`Decide` reads everything again under the locks and commits or refuses;
`BreakDeadlock` fails one transaction of a cycle, which `TryAgain` repeats if the
code wraps it in `retryConcurrentPartyTransaction`. `tx[w].wants` are the rows still to
be locked, in the code's order.

| code | operators (guard, effect) |
|---|---|
| createDurablePartyInvite, revokeDurablePartyInvites, acceptDurablePartyInvite | MayInvite, Invite, MayRevoke, Revoke, MayAccept, Accept |
| leaveParty, disbandParty, transferPartyLeader, removePartyMember | MayLeave, Leave, MayDisband, Disband, MayTransfer, Transfer, Successor, LeaderAfter |
| claimPartyQueue, lockQueueLoadoutSnapshots, cancelPartyQueue, completePartyQueueCancellation | MayQueue, Queue, MayQueueSolo, QueueSolo, Snapshot, MayCancel, Cancel, MayComplete, Complete |
| startMatch's consumption of claims, setLoadout | MayStart, Start, MayChangeLoadout, ChangeLoadout |
| linkAccount, mergePartyMembership, deleteLinkedAccount | MayLink, Link, MayMerge, Merge, MergeSplit, MayDelete, Delete |
| expiry of claims and invitations | ExpireClaim, ExpireInvite |

Of a queue's loadout snapshot the model keeps which players' loadouts have
changed since: revisions only grow, so this is exact. Locks on claim rows are
not modelled, because every writer of a claim holds the party's or the
player's row and they add no cycle. A guest has one device, a new guest is not
registered, and an expected version is a refusal that may happen. `startMatch`
without claims, `consumeLoadout` and presets change a loadout like `setLoadout`.

### How Simulation corresponds to the code

A tick is `step()`: the actions `Intents`, `EscortHeals`, `Walk`, `Detonate`, `Engage`,
`Hit` and `Channels` are its phases in the code's order, with `phase` saying
which comes next; `Channels` is Dots, bodies, extraction and swaps, in that order. Between
ticks `Press` is applyInput, `HandOver` setController and `Leave` removeBot for a
player who leaves. A *world* (bodies, Dots, mines and where items went) is what the
operators of a phase transform one after another, as the loops do.

| code | operators |
|---|---|
| updateHumanIntents, dropItem, takeFromBody, fireBay, pleaFor | Intent and the operators above it in the module |
| resolveMines, damageBot, putBotDown | Detonate, Struck, PutDown, Hit |
| resolveDotCapture | Capturer, DotAfter, Captured |
| resolveDownedCoverage, canReviveBody, reviveBot | Coverer, Verb, Covered, CanRecruit, Revived |
| resolveExtraction, resolveSwaps, removeBot | Extracted, SwapAfter, Exchanged, Removed |

Geometry is abstract: what is in reach is at the same place, alive bodies walk
anywhere, and which attack lands is open, so that every outcome that dashing,
ramming and parrying can have is a behaviour (and some that they cannot).
Cooldowns end at any tick; durations are small numbers of ticks. An inventory
revision is represented by a flag of the swap that remembers it (`fresh`), which
is exact because revisions only grow. `chosen` and `stay` are history. Ambient
bots are left out, and the AI is an arbitrary player without presses. `does` and
`acts` bound what a scene's bodies do.

## The runs

| run | instance | what it shows |
|---|---|---|
| `arena_faults` | two solo players, one match, two roles, any one fault of eight | TypeOK, SafeMeansClosed, OnlyDisconnectionsAreLost, SavedIsDurable, ClosedAsPlayed hold |
| `arena_reopen` | one player, three runs, two matches that may overlap, any one fault, fair | ControllerMatchesConnection, NoMatchAfterFailure, QueuedDeploys hold |
| `arena_progress` | one party of two, one match, any one fault, fair | RegisteredCloses, RetirementCompletesIfClosable hold |
| `arena_overlap` | two solo players, two matches, no fault | OneMatchAtATime fails |
| `input_stream` | three frames, bursts of three, queue limit two, redundancy two, one loss or reload, one down, fair | TypeOK, AppliedInOrder, FirstCopyIsFresh, ReplayCoversServer, GateHasKeeper, SheddingMatchesLoops, NoFrameWaits, GateReopens hold |
| `admission` | a party of two, three sockets, one claim, one try per removal | TypeOK, NoUnownedSeat, SeatedSocketIsBound, NewcomersAreBound, AllOrNobody (PartySeats) hold |
| `admission_live` | one player, two sockets, two tries per removal, fair | SlotIsUsedOrFreed holds |
| `allocation` | two requests, one canceller, two arenas, failing cleanup | TypeOK, ActiveIsReserved, SessionsAreFound, LaunchedIsNamed, LifeSpec (ClaimLife) hold |
| `allocation_live` | one request, one canceller, two arenas, cleanup that works, fair | CancellationCompletesIfEndable holds |
| `party` | three players, two parties, two claims, two connections, any three calls, four initial tables | RosterIsSound (with the types), QueuedRosterIsFrozen, OneLiveClaim, OneEnd hold |
| `party_double_claim` | the same with SoloMixes | OneLiveClaim fails |
| `simulation` | four scenes of two to four bodies | TypeOK, ItemsAreConserved, SwapIsAsChosen, MinesFollowTheirOwner, SquadsAreCapped, ProgressIsEarned hold |

**Bounds.** Two players suffice to have one playing and one leaving, dropping or
extracting; two solo parties to have one playing and one joining, being
cancelled or released; one party of two to have a claim whose roster is
incomplete. One match exercises the whole life of a match including its
repeated settlement. `arena_faults` and `arena_progress` have no second one, and
that is a restriction: once a run begins before the last is closed, the
finalizer of the first takes the match id and the simulation of the second, and what
these two runs check can fail (`arena_overlap_unsafe`). For courses in which runs do
not overlap the theorems say the same of any number of matches. `arena_reopen` has a second
match and lets it overlap: there a finalizer reopens the assembly around a queued
player, and what is checked survives that. One fault is enough for each
kind of failure to meet every interleaving; a settlement is retried as often as
it fails, and it fails without a fault whenever the database would refuse it. The
theorems do not depend on any of these numbers.

For the input stream, the program's numbers (redundancy 4, bursts of 15, a queue
of 6, trims to 2 after 60 ticks) are scaled to 2, 3, 2, 1 and 2: a burst exceeds
the redundancy, fills the queue beyond its limit, and a window of a standing
backlog ends, all within three frames. One loss gives a handoff or a reload with
frames, snapshots and clips on the way; a second adds no new kind of state,
since a handoff resets what the first left. One edge is enough, because all
edges are treated alike except plea, which `ReplaySafe` distinguishes and the
theorems cover. Safety and liveness are asked of one instance; every safety
property is also proved for all values.

The admission needs two members (one staged while the other fails), a third
socket for a reconnection that races the old one, and one claim. A second claim of
the same players is too large with these; it is in `admission_claims.cfg`
(one player, two sockets; 924,000 states, about a minute), where NewcomersAreBound holds,
and in its theorem. One try per removal
reaches the failed removal and its recovery; two tries, the repetition, is in
the live run.

The allocation needs two requests (one that dies and one that finds its traces),
a canceller, which comes back until it is told, and two arenas: one that fills up
and one that is created, or an abandoned creation and its replacement.

Three calls on two connections are the shortest histories in which two
transactions interleave after a third has prepared the tables; the initial
tables supply what longer histories would build (a full party, a guest older
than the next account, a queued party). A longer instance was not needed to break
any property by a mutant.

Each scene of `simulation` is a question: *Raid* (a body is looted while its
owner drops and its looter swaps), *Ambush* (the owner of one mine too many is put
down, pleads and is recruited), *Muster* (two recruits, room for one), *Rush* (a player
and a rival's escort after one Dot and the way out). One plate, one bay, one hold
slot and one mine reach every limit.

**Symmetry** is used only where no liveness property is checked: for players that
are parties of their own, for members and sockets, requests and arenas,
connections and claims. Players of DurableParty are numbers, whose order the
locks follow, and are not permuted. **Deadlock** is checked for the
input stream and the simulation, where every state has a step. The other systems
really stop: when all sessions are gone, all requests have ended, or all calls
are made; and an arena when a finalizer retires it during the countdown of the next run,
after which the tick neither starts that run nor disposes the arena. (A deadlock of database transactions is not such a stop:
PostgreSQL breaks it, by an action of the model.)

**Fairness.** Weak fairness of grace timers, the tick's branches, the end of a
run by timeout, answers of awaited calls, the finalizer and the settlement
retry: timers fire and the tick loop runs every few milliseconds while the
process lives, and every awaited call ends in an answer or an error. Nothing is
assumed of players, of the allocator, of retirement, or of a late commit. For
the input stream: the server ticks, both ends read what arrives, the render loop
runs (with no input from the player), and a playback ends. A player who left
need not come back: GateReopens speaks of connected players.
RetirementCompletesIfClosable excludes an arena that owes the closing of a match
which is not registered or has an orphan (`Unclosable`: the database refuses it at every
retry) and one that was retired in a countdown (`StuckCountdown`); RegisteredCloses excludes
matches with an orphan, a participant without an outcome to whom nothing leads. For
the admission: continuations and timers run,
because every await has a timeout, a closing socket closes, and (strong fairness)
a removal that is tried for ever succeeds once, that is, the adapter comes back.
For the allocation: an invocation that has begun goes on or is timed out, GameLift
performs or drops a call, clocks advance, and a member that cancels asks again
until it is told. Nobody has to start an allocation. CancellationCompletesIfEndable
excludes a record that names a creation which has been ended already (`Unendable`).

### Known disagreements

`arena_overlap` and `party_double_claim` are checked with the rest. The other
configurations of this table reproduce what else was met while modelling; TLC finds
each property violated (`tlc -config X.cfg M`), most within seconds. The passing runs
check weaker properties, or instances without these conditions, as the sections above say
for each.

| configuration (module) | property | what the code does |
|---|---|---|
| `party_double_claim` (MCDurableParty) | OneLiveClaim | createDurablePartyInvite founds a party for a player who is queued alone, which acceptDurablePartyInvite refuses; the founder then queues with the party (`SoloMixes`; the same constant excludes mergePartyMembership's early return, which looks only at the guest's own claim) |
| `arena_overlap` (MCHotArena) | OneMatchAtATime | tickPublicAssembly (Room.ts:1114-1143) does not look at the closing of the last run: with a settlement slower than the assembly window an expiring grace resets the phase, and the next run starts before the last is closed; `docs/public-hot-arena-foundation.md:53` says it cannot |
| `arena_overlap_unsafe` (MCHotArena) | SafeMeansClosed | in such an overlap the finalizer of the first run clears the match id and the simulation of the second and sets persistenceSettled (Room.ts:1159, 2053), while the second match is open |
| `arena_lost_takeover` (MCHotArena) | TakeoverIsRecorded | the disconnection of an expired grace fails and is kept; the end of the AI's run drops what was kept (Room.ts:1869), nothing is written, and finishMatch is refused for ever |
| `arena_left_start` (MCHotArena) | NoOrphan | leaveRun is accepted while startMatch awaits (Room.ts:704), and an aborted start records only players who are still members (Room.ts:1149) |
| `arena_save_failed` (MCHotArena) | FailedIsNotCredited | a lost answer to recordExtraction is reported as "No extracted items were credited" (Room.ts:1893) and credited by the retry |
| `arena_empty_dispose` (MCHotArena) | EndedSafely | the empty-room rule (RoomManager.ts:485) ends the process without looking at persistenceSettled |
| `arena_refused_start` (MCHotArena) | RetirementCompletes | a claim cancelled during a start makes the database refuse the match and its settlement for ever |
| `input_lost_press` (InputLoops) | PressIsSent | a display stall longer than the redundancy cuts more frames than a message repeats (NetSession.ts:753), and the press is in the oldest |
| `input_early_done` (InputLoops) | GateShutDuringReplay | a reconnect while downed answers the resent kill cam before it plays (useDotBotGame.ts:335) |
| `admission_fresh_claim` (MCAdmission) | AdmittedAreBound | a fresh claim replaces the members of a completed run, and the callback of that release, which looks bindings up by player (app.ts:904), throws the new admission out |
| `allocation_stale_evidence` (MCAllocation) | CancelledIsClean | a cancellation reads the record (handler.ts:1945) and marks it under a condition that does not test the evidence (1974-1986); it compensates what it read, not what was written in between, and finishes the claim (2022-2024) |
| `allocation_lost_pointer` (MCAllocation) | NoOrphanArena | a cancellation replays a creation that only the pointer names (handler.ts:1650); the pointer expires after two minutes (1034-1036), and if the invocation dies before it ends the session nothing names it, although the comment at 1666-1668 relies on the replay to find it |
| `allocation_dead_creation` (MCAllocation) | CancellationCompletes | a cancellation ends a replayed creation with a plain TerminateGameSession (handler.ts:1681), not with the tolerant helper at 1602-1615, so if it has ended already every retry throws |
| `allocation_lost_packing` (MCAllocation) | CancelledIsUnpacked | an invocation that ends between the packing reservation (handler.ts:816) and the first evidence leaves seats packed that nobody releases; `docs/durable-party-allocation-foundation.md:49` promises the release |
| `allocation_stale_cleanup` (MCAllocation) | ActiveIsReserved | stranded evidence is compensated without fencing the record (handler.ts:312): the slower of two cleaners releases the sessions of the active claim (`SlowCleaner`) |

Further weaknesses the models show and no property states: with `Lingers` FALSE,
a cancellation that falls between CreatePlayerSessions and the publication of the
pointer terminates the arena and then asks a dead server to release, which fails until
the record's six hours are over (so does a crash between the termination and the
tombstone); a failed admission releases by player id (app.ts:1023), also members of a run
that is still going on; a press of "take" alone is not cleared when a bot goes
down (simulation.ts:1107) and is carried out when it is up again.

## The proofs

`HotArenaSafety` proves `TypeCorrect == Spec => []TypeOK`. TypeOK is not
inductive alone: `startMatch` checks that an id may be issued before its first
await and issues it after; `StartBound` carries the check across.

The other theorems have a premise, `Orderly`: a run begins only when no closing is pending
(`closing = {}`), and an admission that fails half way has no members here from an
earlier run. The code enforces neither; without the first the finalizer of one
run clears the match id and the simulation of the next, and `SafeMeansClosed`,
`OnlyDisconnectionsAreLost` and `ClosedAsPlayed` can all fail (`arena_overlap_unsafe`). The
theorems say that nothing else breaks them: for any players, parties,
sizes, numbers of matches and faults, whoever drops, leaves (also during a start) or is cancelled:

* `SafeToTerminateIsSafe == Spec /\ Orderly => []SafeMeansClosed`

`safeToTerminate` looks at two fields, and neither says anything about the
database. The inductive invariant `IInv` says what they stand for:

* `MatchInv`: open matches, unanswered and kept writes and a late start all belong
  to the id issued last, and nothing is registered above it.
* `LifeInv`: which of start, closing, boundary and live exclude each other, that
  `settled` is false exactly while a closing or a boundary is owed, and that an
  idle arena, or one that has not registered yet, owes nothing.
* `SeatInv`: the subtle part. A cancelled party may reset the phase to
  "assembling", a phase that counts as safe, while a start is going on. The
  invariant ties claims to rosters: whoever is present with an active claim is in
  the roster, so a release that resets the phase gives up a claim that the start
  needs; the database refuses that start, and nothing is registered. Once a
  start is registered its claims are consumed and nothing can reset the phase.
* `MemberInv`: sockets and tokens belong to members, and nobody plays outside a
  live run.

Each action has a lemma with one step per part. `RecordedElsewhere` and
`SettleEffect` say what recording outcomes and an attempt to close a match change;
in particular, that a match which never reached the database is never closed by
mistake. The assumptions of the module (disjoint, nonempty parties; numbers that
are natural) are checked by TLC in every run.

The rest of `HotArenaSafety` proves, also from `Orderly`, what becomes of the players:

* `OutcomesAreOwned == Spec /\ Orderly => []OnlyDisconnectionsAreLost`
* `SavedStaysSaved == Spec /\ Orderly => []SavedIsDurable`
* `BotsFollowHumans == Spec /\ Orderly => []ControllerMatchesConnection`
* `MatchesCloseAsPlayed == Spec /\ Orderly => ClosedAsPlayed`

The outcome of a player is decided in one place (`matchOutcomes`), written in another
and finally read by `finishMatch`, and between them lie lost answers, kept writes,
retries and commits nobody waits for. The invariant `CInv` adds to `IInv`:

* `WriteInv`: every write that is unanswered or kept, and every outcome in the database,
  is the one in `matchOutcomes`; and a player in the run that may still be credited has
  none of either. So a player gets at most one outcome, and repeating it does no harm.
* `RosterInv`: until a start is registered its roster stays whole, but for who left on
  purpose, or a party of it has given up its claim and the database refuses the start; a
  start that may still commit late has its whole roster in the closing that is owed.
* `PlayerInv`: whoever is queued may be credited and is not in a run, and grace periods
  belong to the disconnected; this is what makes the controllers right at the spawn.
* `OwnerInv`: a participant without an outcome is on its way to one, or was counted as
  disconnected by a takeover, or left a start that was aborted. The last two are the
  participants the code does lose (`arena_lost_takeover`, `arena_left_start`); the
  theorem is that there are no others.

Most actions write nothing (`WriteFrame`). `Decides` describes the five that end
somebody's run, `FailStartWrites` the aborted starts and `SettleWrites` every attempt to
close a match, in which `RecordedBy` is the point: writes the database accepts never
change an outcome.

`InputStreamSafety` proves `StreamTypeCorrect == Spec => []TypeOK`, which is
inductive with the facts that the oldest and newest frame of a set exist, and
`AppliedOnceInOrder == Spec => []AppliedInOrder`. The
obvious argument, that frames up to the acknowledgement are refused, fails at a
handoff, which sets the acknowledgement to zero while the same page goes on. The
invariant `OrderInv` says why nothing old comes back: numbers are unique
wherever frames are kept (`UniqueInv`); no frame is newer than the page's counter
(`BoundInv`); what is queued, and what the acknowledgement would let in, is newer
than everything applied (`FreshInv`); what a closed client keeps is newer than
all the server got or will still get (`ClosedInv`, which rests on
clearInputsForHandoff); and a reloaded page that has reconnected starts from
nothing (`ReloadInv`). The proof does not depend on what is shed, nor on any limit.

It also proves `GateIsKept == Spec => []GateHasKeeper`. Three things can
make the client forget a clip: a matchStart, another clip, and a display frame
or playback end while the connection cannot carry the answer. `KeeperInv` says
that the first two are always followed by the clip that gates (the order within
sendMatchStart and the order of the channel), and that a client which is still
joining has the clip to come. `HandoffInv` says that the welcome comes first.

`FirstCopiesAreFresh == Spec => []FirstCopyIsFresh` and `ServerIsReplayed == Spec =>
[]ReplayCoversServer` share the invariant `FlowInv`. The client's memory has no gap
(`ContiguousInv`), so the newest k frames are those with a number above the last minus k
(`NewestByNumber`, by a bijection onto an interval), and a message repeats everything an
earlier one held, down to what the redundancy gives up (`Repeated`). The queue sheds
its oldest frames first as far as the acknowledgement goes (`ShedIsOldest`; movement is
shed before edges, and only a frame before every edge is acknowledged), so the
acknowledgement stays behind the queue, and snapshots behind the acknowledgement
(`AckInv`). Hence whatever it passes had arrived (`ReachInv`), and the client forgets a
frame only if it was passed, fell out of the memory or was cut before the last
matchStart (`CoverInv`).

`LoopsAreMatched == Spec => []SheddingMatchesLoops` says that the set of queued frames
is a faithful picture of the array. A set ordered by a relation has each place
from 0 up taken once (`Placed`), so `BySeq` is an array (`BySeqIs`) and the only one in
order with these frames (`BySeqOnly`). One splice of the array is then one
frame more or less in the set (`InsertFrameIs`, `RemovedIs`). `NthShed` names the frame
that the nth round of shedding takes, `DropStep` shows that the loop's search finds
it, and that it is the array's first exactly when `AckOf` counts it. The loops are
recursive functions; their closed form is shown round by round, by the least round at
which it would fail (`InsertFramesIs`, `DropFramesIs`). The loop of the burst sets the
acknowledgement and the loop of the trim only raises it: because the
acknowledgement is behind the queue (`AckInv`) there is no difference.

`AdmissionProofs` is about the door. From the assumptions of
the module (a nonempty roster; at least one removal attempt; nulls outside the sets
they stand beside), for any roster, sockets, claims and any order of answers:

* `TypeCorrect == Spec => []TypeOK` and `SeatsAreBound == Spec => []SeatedSocketIsBound`
* `SlotsAreOwned == Spec => []NoUnownedSeat`
* `PartiesEnterWhole == Spec => AllOrNobody`, the refinement of PartySeats
* `NewcomersAreWelcomed == Spec => NewcomersAreBound`

That a seated socket is bound rests on the whole way in. The invariant `GateInv`
follows a session: its binding (`Bindings`: of a socket that said hello with it, and
with a timer or an attempt that will end it), its sockets (`Hellos`: one waiting
hello for a session, and none for a session that has had its answer), its batch
(`BatchesOf`: while the party waits, each member has a staged socket and none has a
binding; between the accepted call and the arena every open socket has one;
afterwards each session is bound or given up), the pending batch of a claim
(`PendingOf`), the seat (`Seated`) and the claim (`AdmittedOnce`). Most handlers fail
in ways that look alike, so one description, `GivesUp`, covers them: bindings turn
into removals, batches settle, staged sockets are refused, seats empty. One lemma
shows that it keeps the invariant, and each failing handler is shown to be such a
step.

Of the refinement the hard half is that a dissolved claim never seats anybody
again: nothing takes back what dissolved it (`StaysUndone`), and a step that admits
needs every session of the claim neither removing nor gone. `StaysOwned` does the
same for slots. `NewcomersAreWelcomed` holds however many
claims the same players have had. The step that seats a party releases the members it
replaces, and a release hits bindings by player or by socket (`Hit`). A newcomer is none of the
replaced players, and its staged socket is nobody's seat (`JoinWelcomes`). "Newcomer" is
needed: who still sat there for an earlier claim is hit by the release of its own old
seat, which is what `admission_fresh_claim` shows.

`AllocationProofs` and `AllocationCleanup` are about the matchmaker. For any number of requests, cancellers
and arenas and whatever fails:

* `TypeCorrect == Spec => []TypeOK`
* `PlacedIsReserved`: if `~SlowCleaner`, then `Spec => []ActiveIsReserved`
* `ImplementsClaimLife`: if `~SlowCleaner`, then `Spec => LifeSpec`
* `GameSessionsAreNamed` (in `AllocationCleanup`): if `~SlowCleaner`, then `Spec => []LaunchedIsNamed`
* `SessionsAreNeverLost` (in `AllocationCleanup`): if `~SlowCleaner`, then `Spec => []SessionsAreFound`

The danger is always another request: that it takes the record over, cleans up what
is still being made, or empties the arena. The invariant says why it cannot.
`RecordSound`: a lease has expired only if its owner is dead, so nobody loses the
record while running. `OneWorks`: of the requests between taking the record and the
end of their compensation there is one. `Titles`: while nobody has cancelled, that
one is entitled by the lease, by the evidence it works off (nobody else changes it),
or by an activation of its own whose answer was lost. `BatchesSound`: evidence and
plans know only batches that were made in the arena they name. `PointerSound`: the
pointers, the offered arenas and the game sessions agree. `SeatsSound`: from the
answer to CreatePlayerSessions on the seats are reserved, and the arena they are in
lists the claim, so that another party that leaves does not end it. The lemmas
`PackedStays` and `ReservedStays` say which steps could take either away.
`~SlowCleaner` cannot be dropped from `PlacedIsReserved`: `allocation_stale_cleanup` is
the counterexample.

`GameSessionsAreNamed` is about money: a game session that nothing names runs until
somebody finds it by hand. The names that count are those that outlive a Lambda: the
list of offered arenas and the claim's record. The record's creation intent changes only
while nobody has begun to cancel (`Open`), and the invariant `Names` says of those states
that it is given up only when its arena was offered or has ended. `BareSound`:
until a request has left evidence the record has none and names what it creates.
`WriterSound`: evidence is always written about the arena that the record is about
already. `EvidenceSound`, `OfferedSound` and `PlanSound`: a cleanup that does not end its
arena is about one that was offered. `CloseSound`: a request that gives up without evidence
has made nothing that runs. `LaunchSound` holds even after a cancellation has begun: what is
being created is what the record names.

`SessionsAreNeverLost` says the same of the seats. `Covered` is a chain of custody.
`RecordCovers`: the evidence in the record leads to every player session that is held or may
still be made, by id, by the discovery window or because it has the arena ended.
`SoleHolder` and `OwnCovers`: who writes new evidence over the old is the only one who
holds sessions, and writes what leads to them. `PlanCovers`: while nobody cancels, a compensation leads
to all of them as well, and one that ends without an error leaves none, so that the
evidence may be forgotten. A cancellation never forgets it: the finished record keeps the
evidence, whatever was compensated.

Neither theorem says that a cancelled claim is clean. A session that a cancellation did not
compensate is still named by the record, but nobody reads a cancelled record again
(`allocation_stale_evidence`). And a creation that only the pointer names (`stray`)
is left out of `LaunchedIsNamed`: it can be lost (`allocation_lost_pointer`).

`PartyRosters` is about the party tables. For any players, parties, claims and number
of sessions, from any founded tables that the schema allows (disjoint rosters of at
most three, led by linked players):

* `RostersAreSound == Spec => []RosterIsSound`
* `QueuedRostersAreFrozen == Spec => []QueuedRosterIsFrozen`
* `LiveClaimsAreApart`: if `~SoloMixes`, then `Spec => []OneLiveClaim`
* `ClaimsEndOnce == Spec => OneEnd`

Nothing here is atomic but the decision: a transaction chooses its locks from a hint
that may be stale when it has them. What is left to rely on is who holds which row, and
`Sound` says what that is enough for. A transaction holds its caller's row to its end, a
merge also that of the linked account or the account is gone (`TxLocks`). Whoever joins
a party holds the row of the one who joins, so a caller who was read as being in no
party stays out of every party until the transaction ends, and the roster a
queueing transaction read under the party's lock stays unqueued until it decides (`TxReads`). A
party's row is sound by itself (`PartySound`), nobody is in two (`OneParty`), and a claim
that lives names the roster its party has.

Some thirty kinds of step differ in what they decide and agree in what they may do.
`Step(w)` describes that: other transactions keep their rows; an account goes only under
its own lock and out of every party (`AccountStep`); one party's row is written, under
its lock and unqueued, and who is added is held, in no party and not queued alone
(`Rewrites`, `Joins`); claims fade, or one is made by a transaction that may (`Fades`,
`Makes`). `SoundKept` shows once that such a step keeps `Sound` whatever the other sessions
are in the middle of; `EveryStep` shows that each action is one. `Apart` adds what
`OneLiveClaim` needs: who is queued alone is in no party, and a founder is not queued alone.
The last is where `SoloMixes` breaks it. Rosters are sequences: `RosterGrown`,
`RosterShrunk` and `RosterRenamed` say that they stay without repetitions, `AscendingRows`
that the order of locking is an order of all the rows (by ranks, and a cardinality argument), and
`LeastOf` that the successor exists.

`SimulationWorlds` and `SimulationSafety` are about the rules of a tick. For any number
of bots, squads, items, slots and ticks, and any scene that has no item twice and no
squad over its cap (`SceneAssumption`):

* `TypeCorrect == Spec => []TypeOK`
* `ItemsConserved == Spec => []ItemsAreConserved`
* `SwapsAreAsChosen == Spec => []SwapIsAsChosen`
* `MinesFollow == Spec => []MinesFollowTheirOwner`
* `SquadsCapped == Spec => []SquadsAreCapped`
* `ProgressEarned`: if `CoverTicks > 1`, then `Spec => []ProgressIsEarned`

None of the six is inductive, and one invariant, `Inv`, carries them. Its first half,
`Run`, says that the world is `Sound` in every phase of a tick. An item is carried by one
bot in one slot, lies on the floor, is a mine, or is gone (`Apart`, `Tidy`): looting,
dropping and swapping are only sound together with the claim that nobody else has the
item. A mine's owner is in the run, and its squad is the owner's (`Allied`), which
recruitment and removal must both clear. A swap that its inventory's revision still
allows names what is in the two slots (`AsChosen`): whatever changes a slot of a bot
with a swap must raise the revision. A squad is counted over everybody who is present,
down or not (`Capped`), so the room that a first recruitment uses is gone for the second.

The other half, `Due`, is about progress. Between ticks all of it is earned (`Settled`):
who works on a Dot or covers a body is beside it, on its feet and has stayed as long. In
the middle of a tick that is false: bots have moved and fallen, and the channels that
they have lost are only taken away in `Channels`. Until then no more is owed than
`Earned`: who is still there has stayed as long. `Channels` must turn this into
`Settled` again, and adds a tick to everybody who stayed before (`Stayed`), so one tick
of progress may be added and no more. `ProgressEarned` needs its hypothesis: with
`CoverTicks = 1` a bot that is put down and picked up in the same tick would keep
the progress that it had at the extraction point. In the code covering takes 1850 ms
(`config.ts:109`), many ticks.

A phase goes over all bots, Dots or bodies one by one, so most steps are folds. The
community module defines a fold by a CHOOSE over functions; `FoldExists`, `FoldKeeps` and
`FoldReaches` derive from it, by the least index at which it would fail, that there is
such a function, that the fold keeps what each of its steps keeps, and that it reaches
every index. One lemma for each
operator says what it does to one world (`DroppedKeeps`, `PlacedKeeps`, `TakenKeeps`,
`SwapAfterStands`, `CapturedIs`, `RevivedIs`, `RemovedIs`), always as the same relation
between worlds: who is present stays so, items move between the places where the
operator names them, and the rest is as it was (`Steady`, `Keeps`, `Standing`).
`SlotsDecide` reduces what a bot carries to its slots, and `CopiesAre` turns the count that
ItemsAreConserved makes into the statement that an item is in one place. TLC finds
`Inv` an invariant of the run `simulation` as well.

Checked by TLC only are liveness (`SlotIsUsedOrFreed`, `CancellationCompletesIfEndable` and
the other leads-to properties) and `NoMatchAfterFailure`. Every other property of a
passing run has a theorem.

## What is not modelled

Rendering, UI, audio, the map studio, deployment and the playtest probes:
together they are the larger part of the repository's lines, and have no state
that several actors share. Of the simulation: geometry, kinematics, navigation, doors,
noise, radar, pings and the planning of AI bots. Encoding and parsing of
messages; inventory, contracts and crafting rows behind an outcome. Of the input
stream: movement and the view tick, the predictor's numbers, watching a kill cam
again, downs without a clip (they put no gate), the expiry of the reconnection
grace (an action of HotArena), and leaving the run.

The assignment of roles (`hotArena.ts`) is a pure function whose test compares it
with a reference for every mix of party sizes. The base tutorial is one player's
revisioned progress. Legacy rooms, the matchmaker's legacy routes and its status
route, and the publisher's side of the arena directory, which numbers its calls so
that a late one is ignored, are not modelled. Neither are, in the allocation: an
arena that dies on its own, a batch that is released in part, the expiry of
records (6 h) and of unused player sessions (60 s), and a second failure while a
pointer's removal fails. Known hazards without a property are
listed in `PROJECT.json` with the reason.
