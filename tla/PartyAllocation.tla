--------------------------- MODULE PartyAllocation ---------------------------
(***************************************************************************)
(* The matchmaker's allocation of one queue claim: allocateAtomicParty and *)
(* cancelAtomicQuickPlay in apps/matchmaker/src/handler.ts.                *)
(*                                                                         *)
(* Every member of the party sends requests, and each request is a Lambda  *)
(* invocation of its own that may die anywhere.  They meet in two DynamoDB *)
(* items, the claim's allocation record and the directory's arena pointer, *)
(* and in GameLift.  The record's owner lease (45 s) outlasts an           *)
(* invocation (30 s), so an expired lease means a dead owner.  Whatever a  *)
(* request is about to make in GameLift it first writes into the record:   *)
(* the creation intent (the arena's idempotency token) or the cleanup      *)
(* evidence (the game session, the player sessions and whether they must   *)
(* be discovered).  Others clean up from there.                            *)
(*                                                                         *)
(* An action is one conditional write or one call, or a read with the      *)
(* conditional write it feeds, where the condition makes the code read     *)
(* again whenever the item changed between the two in a way that matters.  *)
(* Where it does not (the cancellation's mark tests the record's status    *)
(* only), the read is an action of its own.                                *)
(*                                                                         *)
(* Simplifications.  One claim; the parties sharing the arena are one      *)
(* other reservation.  The player sessions of one CreatePlayerSessions     *)
(* call are one batch, released or not as a whole.  Records outlive the    *)
(* run (6 h), and unused player sessions do not expire (60 s).  An arena   *)
(* ends only when the matchmaker terminates it.  Lost answers of record    *)
(* reads are failures of the request before it changed anything.           *)
(*                                                                         *)
(* An operator named X_bug or X_bug2 is X with a plausible bug; the        *)
(* specification does not use it.                                          *)
(***************************************************************************)
EXTENDS Naturals, FiniteSets

CONSTANTS
  Worker,         \* allocation requests; each also names its batch of sessions
  Canceller,      \* members that cancel, retrying until they are told
  Arena,          \* identities of game sessions (creation tokens)
  None,           \* null and undefined
  SlowCleaner,    \* several requests may work off the same stale evidence
  Lingers,        \* the server of a terminated session still answers releases
  CleanupFaults   \* compensation may fail or be cut off, cancellers may die

Agent == Worker \union Canceller

ASSUME AllocationAssumption ==
  /\ Worker \intersect Canceller = {}
  /\ None \notin Agent \union Arena
  /\ {SlowCleaner, Lingers, CleanupFaults} \subseteq BOOLEAN

VARIABLES
  rec,       \* the claim's allocation record
  dir,       \* the directory's pointer to the arena that fills up
  gs,        \* GameLift: each game session
  batch,     \* GameLift: the player sessions each request created
  claim,     \* the claim in the control plane's database
  job,       \* each request's progress and local variables
  published, \* history: arenas the directory has offered
  stray      \* history: arenas replayed off the pointer, the record naming none

vars == <<rec, dir, gs, batch, claim, job, published, stray>>

(* known: cleanupPlayerSessionIds; window: cleanupDiscoveryUntil is set;   *)
(* terminate: nobody else can be in that game session.  arena is None when *)
(* the record holds no allocations attribute.                              *)
Evidence == [arena: Arena \union {None}, known: SUBSET Worker,
             window: BOOLEAN, terminate: BOOLEAN]
Sees(a, ids, window, terminate) ==
  [arena |-> a, known |-> ids, window |-> window, terminate |-> terminate]
NoEvidence == Sees(None, {}, FALSE, FALSE)

Records == [status: {"none", "allocating", "active", "cancelling", "cancelled"},
            owner: Worker \union {None}, lease: {"none", "held", "expired"},
            intent: Arena \union {None}, ev: Evidence]
NoRecord == [status |-> "none", owner |-> None, lease |-> "none",
             intent |-> None, ev |-> NoEvidence]

(* open: the admission deadline lies ahead, or a creating pointer has not  *)
(* expired.  packed: partyReservations.                                    *)
Pointers == [status: {"none", "creating", "active", "terminating"}, open: BOOLEAN,
             arena: Arena \union {None}, creator: Worker \union {None},
             packed: SUBSET {"claim", "other"}]
NoPointer == [status |-> "none", open |-> FALSE, arena |-> None,
              creator |-> None, packed |-> {}]

Places == {"idle", "read", "place", "intent", "launch", "retain", "widen", "create",
           "await", "point", "write", "activate", "unpoint", "keep", "replay", "kill",
           "forgetIntent", "release", "unpack", "terminate", "close", "forget",
           "mark", "pointer", "expire", "finish", "complete", "told", "failed", "done", "dead"}

(* flying: GameLift has the call and has not performed it; over: refused,  *)
(* removed or ended with the game session.                                 *)
Batches == [state: {"none", "flying", "live", "over"}, arena: Arena \union {None}]
In(a, states) == {w \in Worker : batch[w].arena = a /\ batch[w].state \in states}
Ends(W) == [w \in Worker |-> IF w \in W THEN [batch[w] EXCEPT !.state = "over"] ELSE batch[w]]

(* plan: the evidence being compensated; after: what follows it; made: it  *)
(* created the arena.  A request that read the record keeps the owner it   *)
(* saw (a record that is active has none), the evidence as its plan and    *)
(* the creation intent as its arena.                                       *)
Jobs == [pc: Places, arena: Arena \union {None}, made: BOOLEAN, plan: Evidence,
         after: Places, seen: Worker \union {None},
         err: {"no", "release", "directory"}, emptied: BOOLEAN]
Fresh == [pc |-> "idle", arena |-> None, made |-> FALSE, plan |-> NoEvidence,
          after |-> "idle", seen |-> None, err |-> "no", emptied |-> FALSE]

Init ==
  /\ rec = NoRecord
  /\ batch = [w \in Worker |-> [state |-> "none", arena |-> None]]
  /\ claim = "active"
  /\ job = [x \in Agent |-> Fresh]
  /\ stray = {}
  /\ \/ dir = NoPointer /\ gs = [a \in Arena |-> "none"] /\ published = {}
     \/ \E a \in Arena :
          /\ dir = [status |-> "active", open |-> TRUE, arena |-> a, creator |-> None,
                    packed |-> {"other"}]
          /\ gs = [b \in Arena |-> IF b = a THEN "up" ELSE "none"]
          /\ published = {a}

At(x, place) == job[x].pc = place
Go(x, place) == job' = [job EXCEPT ![x].pc = place]
Fails(x) == IF x \in Worker THEN [Fresh EXCEPT !.pc = "failed"] ELSE Fresh
Ended(w) == job[w].pc \in {"failed", "done", "dead"}
HasEvidence == rec.ev.arena # None

(***************************************************************************)
(* The loop of allocateAtomicParty, up to owning the record.               *)
(***************************************************************************)
Owning(w) == [rec EXCEPT !.status = "allocating", !.owner = w, !.lease = "held"]

(* The control plane signs the roster only while the claim is active. *)
Start(w) ==
  /\ At(w, "idle") /\ claim = "active"
  /\ Go(w, "read")
  /\ UNCHANGED <<rec, dir, gs, batch, claim, published, stray>>

FindAnswer(w) ==
  /\ At(w, "read")
  /\ \/ rec.status = "active" /\ Go(w, "done")
     \/ rec.status \in {"cancelling", "cancelled"} /\ Go(w, "failed")
  /\ UNCHANGED <<rec, dir, gs, batch, claim, published, stray>>

Stranded(w) == At(w, "read") /\ rec.status = "allocating" /\ rec.lease = "expired"

(* A record without evidence and without a creation intent changes hands. *)
Own(w) ==
  /\ \/ At(w, "read") /\ rec.status = "none"
     \/ Stranded(w) /\ ~HasEvidence /\ rec.intent = None
  /\ rec' = Owning(w)
  /\ Go(w, "place")
  /\ UNCHANGED <<dir, gs, batch, claim, published, stray>>

(* claimStrandedAtomicArenaCreationRequest: a stranded creation is fenced  *)
(* before it is replayed ...                                               *)
Fence(w) ==
  /\ Stranded(w) /\ ~HasEvidence /\ rec.intent # None
  /\ rec' = Owning(w)
  /\ job' = [job EXCEPT ![w].pc = "replay", ![w].arena = rec.intent]
  /\ UNCHANGED <<dir, gs, batch, claim, published, stray>>

(* ... but stranded evidence is worked off by whoever reads it. *)
FindStranded(w) ==
  /\ Stranded(w) /\ HasEvidence
  /\ ~SlowCleaner => \A v \in Worker : job[v].after # "forget"
  /\ job' = [job EXCEPT ![w].pc = "release", ![w].plan = rec.ev,
                        ![w].after = "forget", ![w].seen = rec.owner]
  /\ UNCHANGED <<rec, dir, gs, batch, claim, published, stray>>

(* strandedAtomicAllocationDeleteRequest *)
Forget(w) ==
  /\ At(w, "forget")
  /\ rec' = IF /\ rec.status = "allocating" /\ rec.owner = job[w].seen
               /\ rec.ev.arena = job[w].plan.arena
            THEN NoRecord ELSE rec
  /\ job' = [job EXCEPT ![w] = [Fresh EXCEPT !.pc = "read"]]
  /\ UNCHANGED <<dir, gs, batch, claim, published, stray>>

(* strandedAtomicArenaCreationDeleteRequest *)
ForgetIntent(w) ==
  /\ At(w, "forgetIntent")
  /\ rec' = IF rec.status = "allocating" /\ rec.owner = w /\ ~HasEvidence
            THEN NoRecord ELSE rec
  /\ job' = [job EXCEPT ![w] = [Fresh EXCEPT !.pc = "read"]]
  /\ UNCHANGED <<dir, gs, batch, claim, published, stray>>

(***************************************************************************)
(* allocatePartyIntoArena and createAtomicArena.                           *)
(***************************************************************************)
Available == dir.status = "active" /\ dir.open

Pack_bug(w) ==   \* the reservation is filed under the request
  /\ At(w, "place") /\ Available /\ gs[dir.arena] = "up"
  /\ dir' = [dir EXCEPT !.packed = @ \union {w}]
  /\ job' = [job EXCEPT ![w].pc = "retain", ![w].arena = dir.arena]
  /\ UNCHANGED <<rec, gs, batch, claim, published, stray>>

(* The arena accepts the roster and the packing reservation is written. *)
Pack(w) ==
  /\ At(w, "place") /\ Available /\ gs[dir.arena] = "up"
  /\ dir' = [dir EXCEPT !.packed = @ \union {"claim"}]
  /\ job' = [job EXCEPT ![w].pc = "retain", ![w].arena = dir.arena]
  /\ UNCHANGED <<rec, gs, batch, claim, published, stray>>

(* The arena is full, closed or gone: its pointer is deleted. *)
RemovePointer(w) ==
  /\ At(w, "place") /\ Available
  /\ dir' = NoPointer
  /\ UNCHANGED <<rec, gs, batch, claim, job, published, stray>>

(* The arena rejects the roster for good, or eight attempts found nothing. *)
GiveUp(w) ==
  /\ At(w, "place")
  /\ Go(w, "close")
  /\ UNCHANGED <<rec, dir, gs, batch, claim, published, stray>>

(* A creating pointer of this claim is taken over with its identity. *)
Point(w) ==
  /\ At(w, "place") /\ ~Available
  /\ \E a \in Arena :
       /\ \/ dir.status = "creating" /\ a = dir.arena
          \/ ~dir.open /\ dir.status # "creating" /\ gs[a] = "none" /\ rec.intent # a
       /\ dir' = [status |-> "creating", open |-> TRUE, arena |-> a, creator |-> w,
                  packed |-> {}]
       /\ job' = [job EXCEPT ![w].pc = "intent", ![w].arena = a, ![w].made = TRUE]
  /\ UNCHANGED <<rec, gs, batch, claim, published, stray>>

Owns(w) == rec.status = "allocating" /\ rec.owner = w
Unpointed(w) ==
  IF dir.status = "creating" /\ dir.creator = w THEN NoPointer ELSE dir

(* retainAtomicArenaCreationIntentRequest *)
RetainIntent(w) ==
  /\ At(w, "intent")
  /\ IF Owns(w)
     THEN rec' = [rec EXCEPT !.intent = job[w].arena] /\ Go(w, "launch") /\ UNCHANGED dir
     ELSE Go(w, "close") /\ dir' = Unpointed(w) /\ UNCHANGED rec
  /\ UNCHANGED <<gs, batch, claim, published, stray>>

Created(a) == [gs EXCEPT ![a] = IF @ = "none" THEN "up" ELSE @]
LaunchAnswered(w) ==
  /\ At(w, "launch")
  /\ gs' = Created(job[w].arena)
  /\ Go(w, "retain")
  /\ UNCHANGED <<rec, dir, batch, claim, published, stray>>

(* GameLift refuses, or the new session has no endpoint and is terminated. *)
LaunchRefused(w) ==
  /\ At(w, "launch")
  /\ gs' \in {gs, [gs EXCEPT ![job[w].arena] = "terminated"]}
  /\ dir' = Unpointed(w)
  /\ Go(w, "close")
  /\ UNCHANGED <<rec, batch, claim, published, stray>>

LaunchUncertain_bug(w) ==   \* an uncertain creation counts as refused
  /\ At(w, "launch")
  /\ gs' \in {gs, Created(job[w].arena)}
  /\ dir' = Unpointed(w)
  /\ Go(w, "close")
  /\ UNCHANGED <<rec, batch, claim, published, stray>>

(* AtomicArenaCreationUncertainError: the session may or may not exist, and *)
(* record and pointer stay for whoever replays the creation.               *)
LaunchUncertain(w) ==
  /\ At(w, "launch")
  /\ gs' \in {gs, Created(job[w].arena)}
  /\ job' = [job EXCEPT ![w] = Fails(w)]
  /\ UNCHANGED <<rec, dir, batch, claim, published, stray>>

(***************************************************************************)
(* Evidence before reservations: retainCleanup without and then with the   *)
(* discovery window, the preflight of a new arena between the two.  The    *)
(* condition lets a claim that is being cancelled pass, so that the        *)
(* cancellation finds the evidence.                                        *)
(***************************************************************************)
MayRetain(w) == Owns(w) \/ rec.status = "cancelling"
Retained(w, e) == IF MayRetain(w) THEN [rec EXCEPT !.ev = e] ELSE rec
CleanUp(w, place, e) ==
  job' = [job EXCEPT ![w].pc = place, ![w].plan = e, ![w].after = "close"]

(* createAtomicArena's catch, or releaseDirectoryReservation. *)
RetainRefused(w) ==
  /\ ~MayRetain(w)
  /\ CleanUp(w, IF job[w].made THEN "unpoint" ELSE "unpack",
             Sees(job[w].arena, {}, FALSE, job[w].made))
  /\ UNCHANGED rec

Retain(w) ==
  /\ At(w, "retain")
  /\ \/ RetainRefused(w)
     \/ /\ MayRetain(w)
        /\ rec' = Retained(w, Sees(job[w].arena, {}, FALSE, job[w].made))
        /\ Go(w, "widen")
  /\ UNCHANGED <<dir, gs, batch, claim, published, stray>>

Widen(w) ==
  /\ At(w, "widen")
  /\ \/ RetainRefused(w)
     \/ /\ MayRetain(w)
        /\ rec' = Retained(w, Sees(job[w].arena, {}, TRUE, job[w].made))
        /\ Go(w, "create")
  /\ UNCHANGED <<dir, gs, batch, claim, published, stray>>

PreflightRejected(w) ==
  /\ At(w, "widen") /\ job[w].made
  /\ CleanUp(w, "unpoint", Sees(job[w].arena, {}, FALSE, TRUE))
  /\ UNCHANGED <<rec, dir, gs, batch, claim, published, stray>>

(***************************************************************************)
(* createPartyPlayerSessions, and GameLift performing the call late.       *)
(***************************************************************************)
CreateSessions(w) ==
  /\ At(w, "create")
  /\ batch' = [batch EXCEPT ![w] = [state |-> "flying", arena |-> job[w].arena]]
  /\ Go(w, "await")
  /\ UNCHANGED <<rec, dir, gs, claim, published, stray>>

GameLiftReserves(w) ==
  /\ batch[w].state = "flying"
  /\ \/ gs[batch[w].arena] = "up" /\ batch' = [batch EXCEPT ![w].state = "live"]
     \/ batch' = Ends({w})
  /\ UNCHANGED <<rec, dir, gs, claim, job, published, stray>>

Answered(w) ==
  /\ At(w, "await") /\ batch[w].state = "live"
  /\ Go(w, IF job[w].made THEN "point" ELSE "write")
  /\ UNCHANGED <<rec, dir, gs, batch, claim, published, stray>>

Incomplete_bug(w) ==   \* a lost answer leaves no discovery window
  /\ At(w, "await")
  /\ \E ids \in {{w}, {}} :
       /\ ids = {} \/ batch[w].state = "live"
       /\ CleanUp(w, IF job[w].made THEN "unpoint" ELSE "keep",
                  Sees(job[w].arena, ids, FALSE, job[w].made))
  /\ UNCHANGED <<rec, dir, gs, batch, claim, published, stray>>

(* IncompletePartyPlayerSessionsError: the response fails the validation   *)
(* (its session ids are known), or it is lost.                             *)
Incomplete(w) ==
  /\ At(w, "await")
  /\ \E e \in {Sees(job[w].arena, {w}, FALSE, job[w].made),
               Sees(job[w].arena, {}, TRUE, job[w].made)} :
       /\ e.window \/ batch[w].state = "live"
       /\ CleanUp(w, IF job[w].made THEN "unpoint" ELSE "keep", e)
  /\ UNCHANGED <<rec, dir, gs, batch, claim, published, stray>>

(***************************************************************************)
(* Publication: the pointer of a new arena, the record's connection data,  *)
(* its activation.  A write may commit although its answer is lost.        *)
(***************************************************************************)
PublishPointer(w) ==
  /\ At(w, "point")
  /\ \/ /\ dir.status = "creating" /\ dir.creator = w
        /\ dir' = [dir EXCEPT !.status = "active", !.open = TRUE, !.creator = None,
                              !.packed = {"claim"}]
        /\ published' = published \union {job[w].arena}
        /\ \/ Go(w, "write")
           \/ CleanUp(w, "unpoint", Sees(job[w].arena, {w}, FALSE, TRUE))
     \/ /\ CleanUp(w, "unpoint", Sees(job[w].arena, {w}, FALSE, TRUE))
        /\ UNCHANGED <<dir, published>>
  /\ UNCHANGED <<rec, gs, batch, claim, stray>>

Allocation(w) == Sees(job[w].arena, {w}, FALSE, FALSE)

PublishRecord(w) ==
  /\ At(w, "write")
  /\ \/ /\ Owns(w)
        /\ rec' = [rec EXCEPT !.ev = Allocation(w)]
        /\ Go(w, "activate") \/ CleanUp(w, "keep", Allocation(w))
     \/ CleanUp(w, "keep", Allocation(w)) /\ UNCHANGED rec
  /\ UNCHANGED <<dir, gs, batch, claim, published, stray>>

Activate_bug(w) ==   \* attribute_not_exists(cancelRequestedAt) is dropped
  /\ At(w, "activate")
  /\ rec' = [rec EXCEPT !.status = "active", !.owner = None, !.lease = "none"]
  /\ Go(w, "done")
  /\ UNCHANGED <<dir, gs, batch, claim, published, stray>>

Activate(w) ==
  /\ At(w, "activate")
  /\ \/ /\ Owns(w)
        /\ rec' = [rec EXCEPT !.status = "active", !.owner = None, !.lease = "none"]
        /\ Go(w, "done") \/ CleanUp(w, "keep", Allocation(w))
     \/ CleanUp(w, "keep", Allocation(w)) /\ UNCHANGED rec
  /\ UNCHANGED <<dir, gs, batch, claim, published, stray>>

(***************************************************************************)
(* The two catch blocks.  The inner one gives the pointer up; the arena is *)
(* terminated unless the pointer shows it published, also when it cannot   *)
(* be read.  The outer one keeps the evidence and compensates, unless it   *)
(* finds its own activation committed.                                     *)
(***************************************************************************)
Unpoint(w) ==
  /\ At(w, "unpoint")
  /\ LET mine == dir.status = "active" /\ dir.arena = job[w].arena /\ "claim" \in dir.packed
     IN \E unread \in {FALSE, CleanupFaults} :
          LET e == [job[w].plan EXCEPT !.terminate = unread \/ ~mine]
          IN /\ rec' = Retained(w, e)
             /\ dir' = Unpointed(w)
             /\ CleanUp(w, "keep", e)
  /\ UNCHANGED <<gs, batch, claim, published, stray>>

Keep_bug(w) ==   \* its own committed activation is compensated
  /\ At(w, "keep")
  /\ rec' = Retained(w, job[w].plan)
  /\ Go(w, "release")
  /\ UNCHANGED <<dir, gs, batch, claim, published, stray>>

Keep(w) ==
  /\ At(w, "keep")
  /\ rec' = Retained(w, job[w].plan)
  /\ IF rec.status = "active" /\ rec.ev = job[w].plan
     THEN Go(w, "done")
     ELSE Go(w, "release")
  /\ UNCHANGED <<dir, gs, batch, claim, published, stray>>

(* The tombstone becomes terminal, or the record goes away. *)
Close(w) ==
  /\ At(w, "close")
  /\ rec' = IF rec.status = "cancelling"
            THEN [rec EXCEPT !.status = "cancelled", !.owner = None, !.lease = "none"]
            ELSE IF Owns(w) THEN NoRecord ELSE rec
  /\ Go(w, "failed")
  /\ UNCHANGED <<dir, gs, batch, claim, published, stray>>

(***************************************************************************)
(* compensatePartyAllocation, by workers and cancellers alike.             *)
(***************************************************************************)
Conclude(x, e) ==
  job' = [job EXCEPT ![x] = IF e = "no" THEN [@ EXCEPT !.pc = job[x].after, !.err = "no"]
                            ELSE Fails(x)]

Settling_bug(e) == e.window /\ In(e.arena, {"live"}) = {}   \* the window never ends

(* Within the two minutes of the discovery window a session that is not    *)
(* found may still appear.                                                 *)
Settling(e) ==
  /\ e.window
  /\ \/ In(e.arena, {"flying"}) # {}
     \/ \E w \in Worker : job[w].arena = e.arena /\ job[w].pc \in {"create", "await"}

Targets(e) == e.known \union IF e.window THEN In(e.arena, {"live"}) ELSE {}

(* The arena's server releases the sessions it is told, unless it cannot   *)
(* be reached.                                                             *)
Answers(a) == gs[a] = "up" \/ Lingers
ReleaseSessions(x) ==
  /\ At(x, "release")
  /\ LET e == job[x].plan
     IN \E W \in SUBSET Targets(e), answered \in BOOLEAN :
          /\ answered => W = Targets(e) /\ (Targets(e) = {} \/ Answers(e.arena))
          /\ ~answered => CleanupFaults \/ ~Answers(e.arena)
          /\ batch' = Ends(W)
          /\ job' = [job EXCEPT ![x].pc = "unpack",
                 ![x].err = IF answered /\ ~Settling(e) THEN "no" ELSE "release"]
  /\ UNCHANGED <<rec, dir, gs, claim, published, stray>>

(* releaseDirectoryReservation: the arena whose last party leaves is       *)
(* marked terminating before GameLift is told.                             *)
Unpack(x) ==
  /\ At(x, "unpack")
  /\ LET e == job[x].plan
         ours == dir.arena = e.arena /\ dir.status = "active" /\ "claim" \in dir.packed
         rest == dir.packed \ {"claim"}
         again == dir.arena = e.arena /\ dir.status = "terminating"
         emptied == again \/ (ours /\ rest = {})
     IN /\ dir' = IF ours
                  THEN [dir EXCEPT !.packed = rest,
                                   !.status = IF rest = {} THEN "terminating" ELSE @]
                  ELSE dir
        /\ IF emptied \/ e.terminate
           THEN job' = [job EXCEPT ![x].pc = "terminate", ![x].emptied = emptied]
           ELSE Conclude(x, job[x].err)
  /\ UNCHANGED <<rec, gs, batch, claim, published, stray>>

Terminated(a) == [gs EXCEPT ![a] = "terminated"]

(* The end of an arena of its own outweighs a failed release. *)
TerminateSession(x) ==
  /\ At(x, "terminate")
  /\ gs' = Terminated(job[x].plan.arena)
  /\ batch' = Ends(In(job[x].plan.arena, {"live"}))
  /\ Conclude(x, IF job[x].emptied THEN job[x].err ELSE "no")
  /\ UNCHANGED <<rec, dir, claim, published, stray>>

(***************************************************************************)
(* releaseExpiredAllocationDirectoryClaim: replaying a creation under its  *)
(* token finds the game session or makes it, and then ends it.             *)
(***************************************************************************)
Replay(x) ==
  /\ At(x, "replay")
  /\ gs' = Created(job[x].arena)
  /\ stray' = IF gs[job[x].arena] = "none" /\ rec.intent # job[x].arena
              THEN stray \union {job[x].arena} ELSE stray
  /\ Go(x, "kill")
  /\ UNCHANGED <<rec, dir, batch, claim, published>>

Kill(x) ==
  /\ At(x, "kill") /\ gs[job[x].arena] # "terminated"
  /\ gs' = Terminated(job[x].arena)
  /\ batch' = Ends(In(job[x].arena, {"live"}))
  /\ dir' = IF dir.status = "creating" /\ dir.arena = job[x].arena THEN NoPointer ELSE dir
  /\ Go(x, IF x \in Worker THEN "forgetIntent" ELSE "expire")
  /\ UNCHANGED <<rec, claim, published, stray>>

(* TerminateGameSession refuses a session that has ended, and here nobody  *)
(* asks whether it has: the request throws.                                *)
KillRefused(x) ==
  /\ At(x, "kill") /\ gs[job[x].arena] = "terminated"
  /\ job' = [job EXCEPT ![x] = Fails(x)]
  /\ UNCHANGED <<rec, dir, gs, batch, claim, published, stray>>

(* GameLift or the table does not answer: the request ends with an error. *)
CleanupFails(x) ==
  /\ CleanupFaults
  /\ job[x].pc \in {"unpack", "terminate", "replay", "kill"}
  /\ job' = [job EXCEPT ![x] = Fails(x)]
  /\ UNCHANGED <<rec, dir, gs, batch, claim, published, stray>>

(***************************************************************************)
(* cancelAtomicQuickPlay.  The control plane's claim is cancelling before  *)
(* the record is read, and cancelled after the record is.                  *)
(***************************************************************************)
Ask(c) ==
  /\ At(c, "idle") /\ claim \in {"active", "cancelling"}
  /\ claim' = "cancelling"
  /\ Go(c, "read")
  /\ UNCHANGED <<rec, dir, gs, batch, published, stray>>

Tombstone(c) ==
  /\ At(c, "read") /\ rec.status \in {"none", "cancelled"}
  /\ rec' = [rec EXCEPT !.status = "cancelled"]
  /\ Go(c, "complete")
  /\ UNCHANGED <<dir, gs, batch, claim, published, stray>>

SeenIntent == IF HasEvidence THEN None ELSE rec.intent

(* The canceller's read of a record it may have to mark.                   *)
FindUncancelled(c) ==
  /\ At(c, "read") /\ rec.status \in {"allocating", "active"}
  /\ job' = [job EXCEPT ![c].pc = "mark", ![c].plan = rec.ev,
                        ![c].arena = SeenIntent, ![c].seen = rec.owner]
  /\ UNCHANGED <<rec, dir, gs, batch, claim, published, stray>>

(* ... and of one that is marked.  Without evidence the canceller waits    *)
(* for the owner to leave some, or for its lease to expire.                *)
FindCancelling(c) ==
  /\ At(c, "read") /\ rec.status = "cancelling"
  /\ HasEvidence \/ rec.lease = "expired"
  /\ job' = [job EXCEPT ![c].pc = IF HasEvidence THEN "release" ELSE "pointer",
                        ![c].plan = rec.ev, ![c].arena = SeenIntent, ![c].seen = rec.owner,
                        ![c].after = IF HasEvidence THEN "finish" ELSE "expire"]
  /\ UNCHANGED <<rec, dir, gs, batch, claim, published, stray>>

SeenStatus(c) == IF job[c].seen = None THEN "active" ELSE "allocating"

(* The lease in the record the canceller read.  An owner that was replaced *)
(* has let it expire, or gave the record up before.                        *)
SeenLeaseExpired(c) ==
  IF rec.owner = job[c].seen THEN {rec.lease = "expired"} ELSE {FALSE, Ended(job[c].seen)}

(* The mark tests that the status is the one read, and nothing else of the *)
(* record.  What is compensated is the evidence that was read.             *)
Mark(c) ==
  /\ At(c, "mark") /\ rec.status = SeenStatus(c)
  /\ rec' = [rec EXCEPT !.status = "cancelling"]
  /\ \/ /\ job[c].plan.arena # None
        /\ job' = [job EXCEPT ![c].pc = "release", ![c].after = "finish"]
     \/ /\ job[c].plan.arena = None /\ TRUE \in SeenLeaseExpired(c)
        /\ job' = [job EXCEPT ![c].pc = "pointer", ![c].after = "expire"]
     \/ /\ job[c].plan.arena = None /\ FALSE \in SeenLeaseExpired(c)
        /\ job' = [job EXCEPT ![c] = [Fresh EXCEPT !.pc = "read"]]
  /\ UNCHANGED <<dir, gs, batch, claim, published, stray>>

MarkRefused(c) ==
  /\ At(c, "mark") /\ rec.status # SeenStatus(c)
  /\ job' = [job EXCEPT ![c] = [Fresh EXCEPT !.pc = "read"]]
  /\ UNCHANGED <<rec, dir, gs, batch, claim, published, stray>>

(* releaseExpiredAllocationDirectoryClaim reads the pointer: the creation  *)
(* the record names is replayed, or else the one the pointer names.        *)
ReadPointer(c) ==
  /\ At(c, "pointer")
  /\ LET creation == IF job[c].arena # None THEN job[c].arena
                     ELSE IF dir.status = "creating" THEN dir.arena ELSE None
         to == IF creation # None THEN "replay"
               ELSE IF "claim" \in dir.packed THEN "unpack" ELSE "expire"
     IN job' = [job EXCEPT ![c].pc = to, ![c].arena = creation,
                          ![c].plan = Sees(dir.arena, {}, FALSE, FALSE)]
  /\ UNCHANGED <<rec, dir, gs, batch, claim, published, stray>>

EndWhen(c, condition) ==
  IF condition
  THEN /\ rec' = [rec EXCEPT !.status = "cancelled", !.owner = None, !.lease = "none"]
       /\ job' = [job EXCEPT ![c] = [Fresh EXCEPT !.pc = "complete"]]
  ELSE /\ job' = [job EXCEPT ![c] = [Fresh EXCEPT !.pc = "read"]]
       /\ UNCHANGED rec

Finish(c) ==
  /\ \/ At(c, "finish") /\ EndWhen(c, rec.status = "cancelling")
     \/ /\ At(c, "expire")
        /\ EndWhen(c, rec.status = "cancelling" /\ rec.owner = job[c].seen /\ ~HasEvidence)
  /\ UNCHANGED <<dir, gs, batch, claim, published, stray>>

Complete(c) ==
  /\ At(c, "complete")
  /\ claim' = "cancelled"
  /\ Go(c, "told")
  /\ UNCHANGED <<rec, dir, gs, batch, published, stray>>

(***************************************************************************)
(* Crashes and clocks.                                                     *)
(***************************************************************************)
InCleanup(x) ==
  \/ x \in Canceller
  \/ job[x].after # "idle" /\ job[x].pc \in {"release", "unpack", "terminate", "close"}

Die(x) ==
  /\ job[x].pc \notin {"idle", "failed", "done", "dead", "told"}
  /\ ~CleanupFaults => ~InCleanup(x)
  /\ job' = [job EXCEPT ![x] = IF x \in Worker THEN [Fresh EXCEPT !.pc = "dead"] ELSE Fresh]
  /\ UNCHANGED <<rec, dir, gs, batch, claim, published, stray>>

LeaseExpires ==
  /\ rec.lease = "held" /\ Ended(rec.owner)
  /\ rec' = [rec EXCEPT !.lease = "expired"]
  /\ UNCHANGED <<dir, gs, batch, claim, job, published, stray>>

(* The admission deadline passes; later the pointer expires, a creating    *)
(* one after two minutes.                                                  *)
PointerAges ==
  /\ dir.status # "none"
  /\ dir' = IF dir.open THEN [dir EXCEPT !.open = FALSE] ELSE NoPointer
  /\ UNCHANGED <<rec, gs, batch, claim, job, published, stray>>

(* setAdmission: the arena opens its door again after a run.  Its call, or *)
(* a repetition of it, may arrive at any time; the pointer of another      *)
(* session and one that is not active are left alone.                      *)
ArenaReopens ==
  /\ dir.status = "active" /\ ~dir.open
  /\ dir' = [dir EXCEPT !.open = TRUE]
  /\ UNCHANGED <<rec, gs, batch, claim, job, published, stray>>

(* Another party packs into the arena, or cancels and leaves it. *)
OtherJoins ==
  /\ Available
  /\ dir' = [dir EXCEPT !.packed = @ \union {"other"}]
  /\ UNCHANGED <<rec, gs, batch, claim, job, published, stray>>

OtherLeaves ==
  /\ dir.status = "active" /\ "other" \in dir.packed
  /\ LET rest == dir.packed \ {"other"}
     IN /\ dir' = [dir EXCEPT !.packed = rest,
                              !.status = IF rest = {} THEN "terminating" ELSE @]
        /\ gs' = IF rest = {} THEN Terminated(dir.arena) ELSE gs
        /\ batch' = IF rest = {} THEN Ends(In(dir.arena, {"live"})) ELSE batch
  /\ UNCHANGED <<rec, claim, job, published, stray>>

WorkerStep(w) ==
  \/ FindAnswer(w) \/ Own(w) \/ Fence(w) \/ FindStranded(w) \/ Forget(w) \/ ForgetIntent(w)
  \/ Pack(w) \/ GiveUp(w) \/ Point(w) \/ RetainIntent(w)
  \/ LaunchAnswered(w) \/ LaunchRefused(w) \/ LaunchUncertain(w)
  \/ Retain(w) \/ Widen(w) \/ PreflightRejected(w) \/ CreateSessions(w)
  \/ Answered(w) \/ Incomplete(w) \/ PublishPointer(w) \/ PublishRecord(w) \/ Activate(w)
  \/ Unpoint(w) \/ Keep(w) \/ Close(w)

CancellerStep(c) ==
  \/ Ask(c) \/ Tombstone(c) \/ FindUncancelled(c) \/ Mark(c) \/ MarkRefused(c)
  \/ FindCancelling(c) \/ ReadPointer(c) \/ Finish(c) \/ Complete(c)

Compensate(x) == ReleaseSessions(x) \/ Unpack(x) \/ TerminateSession(x) \/ Replay(x) \/ Kill(x)

Throws(x) == KillRefused(x) \/ CleanupFails(x)

Next ==
  \/ \E w \in Worker : Start(w) \/ WorkerStep(w) \/ RemovePointer(w) \/ GameLiftReserves(w)
  \/ \E c \in Canceller : CancellerStep(c)
  \/ \E x \in Agent : Compensate(x) \/ Throws(x) \/ Die(x)
  \/ LeaseExpires \/ PointerAges \/ ArenaReopens \/ OtherJoins \/ OtherLeaves

Spec == Init /\ [][Next]_vars

(* An invocation that has begun goes on or times out, GameLift performs or *)
(* drops a call, clocks advance, and the client of a member that cancels   *)
(* asks again until it is told.  Nobody has to start an allocation.        *)
FairSpec ==
  /\ Spec
  /\ \A w \in Worker : /\ WF_vars(WorkerStep(w) \/ Compensate(w) \/ KillRefused(w))
                       /\ WF_vars(GameLiftReserves(w))
  /\ \A c \in Canceller : WF_vars(CancellerStep(c) \/ Compensate(c) \/ KillRefused(c))
  /\ WF_vars(LeaseExpires) /\ WF_vars(PointerAges)
=============================================================================
