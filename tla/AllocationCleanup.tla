-------------------------- MODULE AllocationCleanup --------------------------
(***************************************************************************)
(* What is made for a claim can be found: its game sessions are named by   *)
(* its record, and its player sessions are led to by the record's          *)
(* evidence.  For any number of requests, cancellers and arenas, whoever   *)
(* dies, fails or cancels meanwhile, and whatever the record's status.     *)
(*                                                                         *)
(* The record's intent changes only while nobody has begun to cancel       *)
(* (Open), and then one request works and the cancellers only look         *)
(* (Titles).  That it is given up only once its arena has ended or was     *)
(* offered follows from four facts, of those states: before it leaves      *)
(* evidence a request works for a record that has none (BareSound);        *)
(* whoever writes evidence writes about the arena the record is about      *)
(* (WriterSound); evidence that does not end its arena is about one that   *)
(* others were offered (EvidenceSound, OfferedSound, PlanSound); and a     *)
(* request that gives up without evidence has made nothing that runs       *)
(* (CloseSound).                                                           *)
(*                                                                         *)
(* Covered adds the player sessions.  The record leads to every one that   *)
(* is held or may still be made (RecordCovers).  Its evidence may be       *)
(* written over because who writes it is the only one who holds anything   *)
(* (SoleHolder) and writes what leads to it (OwnCovers); and it is         *)
(* forgotten only after a compensation that led to all of it and got       *)
(* through (PlanCovers).  A cancellation keeps the evidence when it        *)
(* finishes the record, whether or not it compensated that evidence.       *)
(*                                                                         *)
(* The proofs rest on ~SlowCleaner, as Sound does.                         *)
(***************************************************************************)
EXTENDS AllocationProofs

(***************************************************************************)
(* Every game session is named.                                            *)
(***************************************************************************)

(* A request that has left no evidence yet works for a record without, and *)
(* the record names the creation it is about to make or to undo.           *)
Bare == {"place", "intent", "launch", "retain"} \union Replaying
BareSound(w) ==
  job[w].pc \in Bare =>
    /\ ~HasEvidence
    /\ job[w].pc \in {"place", "intent"} \/ (job[w].pc = "retain" /\ ~job[w].made) => rec.intent = None
    /\ job[w].pc \in {"launch"} \union Replaying \/ (job[w].pc = "retain" /\ job[w].made) =>
         rec.intent = job[w].arena
    /\ job[w].pc = "launch" => gs[job[w].arena] # "up"
    /\ job[w].pc = "forgetIntent" => gs[job[w].arena] = "terminated"

(* Whoever may still write evidence writes about the arena that the record *)
(* is about already. *)
Writing(w) == Working(w) /\ ~Cleaning(w)
WriterSound(w) ==
  Writing(w) /\ job[w].pc \notin Bare => /\ rec.intent \in {None, job[w].arena}
                                         /\ HasEvidence => rec.ev.arena = job[w].arena

(* An arena that the cleanup need not end was offered to others before. *)
EvidenceSound ==
  HasEvidence => /\ rec.intent \in {None, rec.ev.arena}
                 /\ rec.ev.terminate \/ rec.ev.arena \in published
(* Once a request has written its sessions into an arena, or joins one it  *)
(* did not make, that arena was offered. *)
Entered == {"write", "activate"}
OfferedSound(w) ==
  job[w].pc \in Entered \/ (job[w].pc \in Joining /\ ~job[w].made) => job[w].arena \in published

(* The plan of a request's cleanup does as much as the evidence it was     *)
(* read from: it ends its arena, and has ended it once it is through,      *)
(* unless the arena was offered. *)
Through(w) == job[w].pc = "forget" \/ (job[w].pc = "close" /\ job[w].after = "close")
PlanSound(w) ==
  /\ job[w].after \in {"close", "forget"} /\ ~Ended(w) =>
       job[w].plan.terminate \/ job[w].plan.arena \in published
  /\ Through(w) /\ job[w].plan.terminate => gs[job[w].plan.arena] = "terminated"

(* A request that gives up closes its record only after the arena it named *)
(* has ended. *)
CloseSound(w) ==
  job[w].pc = "close" /\ job[w].after = "idle" => rec.intent = None \/ gs[rec.intent] # "up"

(* All that is known of one request before anybody has begun to cancel.    *)
RequestSound(w) == BareSound(w) /\ WriterSound(w) /\ OfferedSound(w) /\ PlanSound(w) /\ CloseSound(w)

(* Whatever the status, a creation that is being asked for is the record's. *)
LaunchSound(w) == job[w].pc = "launch" => rec.intent = job[w].arena

(* Something that survives the requests names every arena that is up.      *)
Named(a) == gs[a] = "up" => a \in published \union stray \union {rec.intent}

(* The inductive invariant, together with Sound. *)
Names ==
  /\ Open => stray = {} /\ EvidenceSound /\ \A w \in Worker : RequestSound(w)
  /\ \A w \in Worker : LaunchSound(w)
  /\ \A a \in Arena : Named(a)

(* What the shape of a request says of where it is.                        *)
LEMMA ClosingShape ==
  ASSUME Typed, NEW w \in Worker
  PROVE  /\ job[w].after \in {"idle", "forget", "close"}
         /\ job[w].pc \in Bare => job[w].after = "idle"
         /\ Working(w) => ~Ended(w)
         /\ job[w].made /\ ~Ended(w) => Writing(w)
         /\ job[w].after = "close" => job[w].plan.arena # None /\ job[w].plan.arena = job[w].arena
         /\ job[w].pc \in {"widen", "create", "await", "unpoint", "keep", "close"} \union Publishing =>
              Writing(w) /\ job[w].pc \notin Bare
         /\ job[w].pc \in Bare => Writing(w)
  BY DEF Typed, Shapes, WorkerShape, Working, Cleaning, Writing, Ended, Outside, Bare, Replaying, Compensating, Publishing

(* An arena once offered stays offered.                                    *)
LEMMA OfferedGrows ==
  ASSUME Typed, Next
  PROVE  published \subseteq published'
  BY PointerHow

(* A request writes evidence about its own arena, which ends with the      *)
(* request unless others were offered it.                                  *)
LEMMA EvidenceWritten ==
  ASSUME Typed, PointerSound, NEW w \in Worker, OfferedSound(w), PlanSound(w), Evidences(w)
  PROVE  \/ rec' = rec
         \/ \E e : /\ MayRetain(w) /\ rec' = [rec EXCEPT !.ev = e] /\ e.arena = job[w].arena
                   /\ e.terminate \/ job[w].arena \in published
  <1>1. TypeOK /\ w \in Agent /\ job[w] \in Jobs /\ WorkerShape(job[w]) /\ rec \in Records
    BY AgentKinds, JobFields DEF Typed, Shapes, TypeOK
  <1>2. CASE (Retain(w) \/ Widen(w)) /\ ~RetainRefused(w)
    <2>1. PICK b : /\ MayRetain(w)
                  /\ rec' = [rec EXCEPT !.ev = Sees(job[w].arena, {}, b, job[w].made)]
      <3>1. Widen(w) => MayRetain(w) /\ rec' = [rec EXCEPT !.ev = Sees(job[w].arena, {}, TRUE, job[w].made)]
        BY <1>1, <1>2, Retaining
      <3>2. Retain(w) => /\ MayRetain(w)
                         /\ \E b : rec' = [rec EXCEPT !.ev = Sees(job[w].arena, {}, b, job[w].made)]
        BY <1>1, <1>2, Retaining
      <3> QED
        BY <1>2, <3>1, <3>2
    <2>2. job[w].pc \in {"retain", "widen"}
      BY <1>2 DEF Retain, Widen, At
    <2>3. /\ Sees(job[w].arena, {}, b, job[w].made).arena = job[w].arena
          /\ Sees(job[w].arena, {}, b, job[w].made).terminate = job[w].made
      BY DEF Sees
    <2> QED
      BY <2>1, <2>2, <2>3 DEF OfferedSound, Joining
  <1>3. CASE RetainRefused(w)
    BY <1>3 DEF RetainRefused
  <1>4. CASE PublishRecord(w)
    <2>1. job[w].pc = "write" /\ (rec' = rec \/ (MayRetain(w) /\ rec' = [rec EXCEPT !.ev = Allocation(w)]))
      BY <1>4 DEF PublishRecord, At, MayRetain
    <2>2. Allocation(w).arena = job[w].arena
      BY DEF Allocation, Sees
    <2> QED
      BY <2>1, <2>2 DEF OfferedSound, Entered
  <1>5. CASE Unpoint(w)
    <2>1. PICK t \in BOOLEAN :
            /\ rec' = Retained(w, [job[w].plan EXCEPT !.terminate = t])
            /\ t \/ (dir.status = "active" /\ dir.arena = job[w].arena /\ "claim" \in dir.packed)
      BY <1>1, <1>5, Planning
    <2>2. job[w].pc = "unpoint" /\ job[w].plan.arena = job[w].arena
      BY <1>1, <1>5 DEF Unpoint, At, WorkerShape, Compensating
    <2>3. /\ [job[w].plan EXCEPT !.terminate = t].terminate = t
          /\ [job[w].plan EXCEPT !.terminate = t].arena = job[w].arena
          /\ [job[w].plan EXCEPT !.terminate = t] \in Evidence
      BY <1>1, <2>2, JobFields DEF Evidence
    <2> QED
      BY <2>1, <2>3 DEF Retained, PointerSound
  <1>6. CASE Keep(w)
    <2>1. job[w].pc = "keep" /\ job[w].after = "close" /\ job[w].plan.arena = job[w].arena /\ job[w].plan \in Evidence
      BY <1>1, <1>6, JobFields DEF Keep, At, WorkerShape, Compensating
    <2>2. rec' = Retained(w, job[w].plan)
      BY <1>6 DEF Keep
    <2>3. job[w].plan.terminate \/ job[w].plan.arena \in published
      BY <2>1 DEF PlanSound, Ended
    <2> QED
      BY <2>1, <2>2, <2>3 DEF Retained
  <1> QED
    BY <1>2, <1>3, <1>4, <1>5, <1>6 DEF Evidences

(* OfferedSound is kept by the steps of its request.                       *)
LEMMA OfferedStep ==
  ASSUME Typed, Next, PointerSound, NEW w \in Worker, Works(w), OfferedSound(w)
  PROVE  OfferedSound(w)'
  <1>1. /\ TypeOK /\ w \in Agent /\ job[w] \in Jobs /\ WorkerShape(job[w]) /\ dir \in Pointers
        /\ published \subseteq published'
    BY AgentKinds, JobFields, OfferedGrows DEF Typed, Shapes, TypeOK
  <1>2. CASE job'[w].pc \notin Launching \union Publishing
    BY <1>2 DEF OfferedSound, Launching, Publishing, Joining, Entered
  <1>3. CASE Point(w)
    BY <1>1, <1>3, PointsTo DEF OfferedSound, Entered, Joining
  <1>4. CASE Pack(w) /\ job'[w].pc = "retain" /\ job'[w].arena = dir.arena /\ ~job'[w].made
    BY <1>1, <1>4 DEF Pack, Available, PointerSound, OfferedSound
  <1>5. CASE RetainIntent(w) /\ Goes(w, "intent", {"launch"})
    BY <1>5 DEF Goes, OfferedSound, Entered, Joining
  <1>6. CASE LaunchAnswered(w) /\ Goes(w, "launch", {"retain"})
    BY <1>1, <1>6 DEF Goes, Same, OfferedSound, Entered, WorkerShape
  <1>7. CASE (Retain(w) \/ Widen(w)) /\ (Goes(w, "retain", {"widen", "create"}) \/ Goes(w, "widen", {"create"}))
    BY <1>1, <1>7 DEF Goes, Same, OfferedSound, Entered, Joining
  <1>8. CASE CreateSessions(w) /\ Goes(w, "create", {"await"})
    BY <1>1, <1>8 DEF Goes, Same, OfferedSound, Entered, Joining
  <1>9. CASE Answered(w) /\ Goes(w, "await", {IF job[w].made THEN "point" ELSE "write"})
    BY <1>1, <1>9 DEF Goes, Same, OfferedSound, Entered, Joining
  <1>10. CASE PublishPointer(w) /\ Goes(w, "point", {"write"})
    <2>1. published' = published \union {job[w].arena}
      <3>1. ~CleanUp(w, "unpoint", Sees(job[w].arena, {w}, FALSE, TRUE))
        <4>1. CleanUp(w, "unpoint", Sees(job[w].arena, {w}, FALSE, TRUE)) => job'[w].pc = "unpoint"
          BY <1>1 DEF CleanUp, TypeOK, Jobs
        <4> QED
          BY <1>10, <4>1 DEF Goes
      <3> QED
        BY <1>10, <3>1 DEF PublishPointer
    <2> QED
      BY <1>10, <2>1 DEF Goes, Same, OfferedSound
  <1>11. CASE PublishRecord(w) /\ Goes(w, "write", {"activate"}) /\ rec' = [rec EXCEPT !.ev = Allocation(w)]
    BY <1>1, <1>11 DEF Goes, Same, OfferedSound, Entered, Joining
  <1> QED
    BY <1>2, <1>3, <1>4, <1>5, <1>6, <1>7, <1>8, <1>9, <1>10, <1>11, Advances

(* A game session that has ended stays so.                                 *)
LEMMA TerminatedStays ==
  ASSUME Typed, Next, NEW a, a \in Arena \/ a = None, gs[a] = "terminated", a # None
  PROVE  gs'[a] = "terminated"
  BY SessionsHow

(* Whoever is through with a compensation has ended what had to end.       *)
LEMMA ThroughHow ==
  ASSUME Typed, NEW x \in Agent, ReleaseSessions(x) \/ Unpack(x) \/ TerminateSession(x)
  PROVE  \/ job'[x] = Fails(x)
         \/ Same(x) /\ job'[x].pc \in {"unpack", "terminate"}
         \/ /\ Same(x) /\ job'[x].pc = job[x].after
            /\ job[x].plan.terminate /\ job[x].plan.arena \in Arena => gs'[job[x].plan.arena] = "terminated"
  <1>1. TypeOK /\ job[x] \in Jobs
    BY JobFields DEF Typed
  <1>2. CASE ReleaseSessions(x)
    BY <1>1, <1>2, CompensatesHow DEF Goes
  <1>3. CASE Unpack(x)
    <2>1. CASE \E b \in BOOLEAN : Becomes(x, [job[x] EXCEPT !.pc = "terminate", !.emptied = b])
      <3>1. PICK b \in BOOLEAN : Becomes(x, [job[x] EXCEPT !.pc = "terminate", !.emptied = b])
        BY <2>1
      <3>2. job'[x] = [job[x] EXCEPT !.pc = "terminate", !.emptied = b]
        BY <3>1 DEF Becomes
      <3>3. job'[x].pc = "terminate"
        BY <1>1, <3>2 DEF Jobs
      <3>4. Goes(x, "unpack", {"terminate"}) \/ Goes(x, "unpack", {job[x].after}) \/ job'[x] = Fails(x)
        BY <1>1, <1>3, CompensatesHow
      <3> QED
        BY <3>3, <3>4 DEF Goes
    <2>2. CASE ~job[x].plan.terminate
      BY <1>1, <1>3, <2>2, CompensatesHow DEF Goes
    <2> QED
      BY <1>1, <1>3, <2>1, <2>2, UnpackMoves
  <1>4. CASE TerminateSession(x)
    <2>1. job[x].plan.arena \in Arena => gs'[job[x].plan.arena] = "terminated"
      BY <1>1, <1>4 DEF TerminateSession, Terminated, TypeOK
    <2>2. Goes(x, "terminate", {job[x].after}) \/ job'[x] = Fails(x)
      BY <1>1, <1>4, CompensatesHow
    <2> QED
      BY <2>1, <2>2 DEF Goes
  <1> QED
    BY <1>2, <1>3, <1>4

(* What a request plans, and that it was offered unless it is to end.      *)
LEMMA PlannedHow ==
  ASSUME Typed, PointerSound, EvidenceSound, NEW w \in Worker, Works(w), OfferedSound(w)
  PROVE  \/ job'[w].after = "idle"
         \/ /\ job'[w].after = job[w].after /\ job'[w].plan = job[w].plan
            /\ Through(w)' => /\ ReleaseSessions(w) \/ Unpack(w) \/ TerminateSession(w)
                              /\ job[w].plan.terminate /\ job[w].plan.arena \in Arena =>
                                   gs'[job[w].plan.arena] = "terminated"
         \/ /\ job'[w].pc \in {"release", "unpack", "unpoint", "keep"}
            /\ job'[w].plan.terminate \/ job'[w].plan.arena \in published
  <1>1. TypeOK /\ w \in Agent /\ job[w] \in Jobs /\ WorkerShape(job[w]) /\ rec \in Records
    BY AgentKinds, JobFields DEF Typed, Shapes, TypeOK
  <1>2. CASE \/ Own(w) \/ Fence(w) \/ Pack(w) \/ Point(w) \/ GiveUp(w) \/ RetainIntent(w) \/ LaunchAnswered(w)
             \/ LaunchRefused(w) \/ CreateSessions(w) \/ Answered(w) \/ Replay(w) \/ Kill(w)
    <2>1. job'[w].after = job[w].after /\ job[w].pc \in {"read", "place", "intent", "launch", "create", "await", "replay", "kill"}
      BY <1>1, <1>2, GoesWhere, SetsWhat, PointsTo DEF Goes, Same
    <2> QED
      BY <1>1, <2>1 DEF WorkerShape, Compensating
  <1>3. CASE Forget(w) \/ ForgetIntent(w) \/ LaunchUncertain(w)
    <2>1. \E p \in {"read", "failed"} : job'[w] = [Fresh EXCEPT !.pc = p]
      BY <1>1, <1>3, SetsWhat
    <2> QED
      BY <2>1, FreshPlan
  <1>4. CASE FindStranded(w)
    <2>1. job'[w].pc = "release" /\ job'[w].plan = rec.ev /\ HasEvidence
      BY <1>1, <1>4, SetsWhat DEF FindStranded
    <2> QED
      BY <2>1 DEF EvidenceSound
  <1>5. CASE (Retain(w) \/ Widen(w)) /\ ~RetainRefused(w)
    <2>1. \/ Moves(w, "widen", {"create"})
          \/ Moves(w, "retain", {"widen"})
      BY <1>1, <1>5, Retaining
    <2>2. /\ job[w].pc \in {"widen", "retain"} /\ job'[w].after = job[w].after
      BY <1>1, <2>1, MovesShape
    <2> QED
      BY <1>1, <2>2 DEF WorkerShape, Compensating
  <1>6. CASE (Retain(w) \/ Widen(w)) /\ RetainRefused(w)
    <2>1. job[w].pc \in {"retain", "widen"}
      BY <1>6 DEF Retain, Widen, At
    <2>2. /\ Turns(w, job[w].pc, {"unpoint", "unpack"}) /\ job'[w].plan.terminate = job[w].made
      BY <1>1, <1>6, TurnsWhere
    <2> QED
      BY <2>1, <2>2 DEF Turns, OfferedSound, Joining
  <1>7. CASE PreflightRejected(w) \/ Incomplete(w)
    BY <1>1, <1>7, TurnsWhere DEF Turns, OfferedSound, Joining
  <1>8. CASE PublishPointer(w)
    <2>1. \/ Goes(w, "point", {"write"})
          \/ Turns(w, "point", {"unpoint"}) /\ job'[w].plan.terminate
      BY <1>1, <1>8, TurnsWhere
    <2> QED
      BY <1>1, <2>1 DEF Turns, Goes, Same, WorkerShape, Compensating
  <1>9. CASE PublishRecord(w) \/ Activate(w)
    <2>1. \/ Goes(w, "write", {"activate"}) \/ Goes(w, "activate", {"done"})
          \/ (Turns(w, "write", {"keep"}) \/ Turns(w, "activate", {"keep"}))
      BY <1>1, <1>9, TurnsWhere
    <2> QED
      BY <1>1, <2>1 DEF Turns, Goes, Same, WorkerShape, Compensating, OfferedSound, Entered
  <1>10. CASE Unpoint(w)
    <2>1. PICK t \in BOOLEAN :
            /\ Plans(w, "keep", [job[w].plan EXCEPT !.terminate = t])
            /\ t \/ (dir.status = "active" /\ dir.arena = job[w].arena /\ "claim" \in dir.packed)
      BY <1>1, <1>10, Planning
    <2>2. job[w].pc = "unpoint" /\ job[w].plan.arena = job[w].arena
      BY <1>1, <1>10 DEF Unpoint, At, WorkerShape, Compensating
    <2>3. /\ [job[w].plan EXCEPT !.terminate = t].terminate = t
          /\ [job[w].plan EXCEPT !.terminate = t].arena = job[w].arena
      BY <1>1, <2>2, JobFields DEF Evidence
    <2>4. job'[w].pc = "keep" /\ job'[w].plan = [job[w].plan EXCEPT !.terminate = t]
      BY <1>1, <2>1, PlansShape
    <2> QED
      BY <2>1, <2>3, <2>4 DEF PointerSound
  <1>11. CASE Keep(w) \/ Close(w)
    <2>1. Same(w) /\ job'[w].pc \in {"done", "release", "failed"}
      BY <1>1, <1>11, GoesWhere DEF Goes
    <2> QED
      BY <2>1 DEF Same, Through
  <1>12. CASE ReleaseSessions(w) \/ Unpack(w) \/ TerminateSession(w)
    <2>1. CASE job'[w] = Fails(w)
      BY <2>1, FreshPlan
    <2>2. CASE Same(w) /\ job'[w].pc \in {"unpack", "terminate"}
      BY <2>2 DEF Same, Through
    <2>3. CASE Same(w) /\ (job[w].plan.terminate /\ job[w].plan.arena \in Arena => gs'[job[w].plan.arena] = "terminated")
      BY <1>12, <2>3 DEF Same
    <2> QED
      BY <1>1, <1>12, <2>1, <2>2, <2>3, ThroughHow
  <1> QED
    BY <1>2, <1>3, <1>4, <1>5, <1>6, <1>7, <1>8, <1>9, <1>10, <1>11, <1>12 DEF Works, WorkerStep, Compensate

(* PlanSound is kept by the steps of its request.                          *)
LEMMA PlanWorks ==
  ASSUME Typed, Next, PointerSound, EvidenceSound, NEW w \in Worker, Works(w), PlanSound(w), OfferedSound(w)
  PROVE  PlanSound(w)'
  <1>1. /\ published \subseteq published' /\ job[w].plan.arena \in Arena \union {None}
        /\ job[w].after \in {"close", "forget"} => job[w].plan.arena \in Arena
    BY AgentKinds, OfferedGrows, JobFields DEF Typed, Shapes, WorkerShape, Compensating
  <1>2. WorkerShape(job'[w]) /\ ~Ended(w)
    BY WorksHow
  <1>3. CASE job'[w].after = "idle"
    BY <1>2, <1>3 DEF PlanSound, Through, WorkerShape, Compensating
  <1>4. CASE /\ job'[w].after = job[w].after /\ job'[w].plan = job[w].plan
             /\ Through(w)' => /\ ReleaseSessions(w) \/ Unpack(w) \/ TerminateSession(w)
                               /\ job[w].plan.terminate /\ job[w].plan.arena \in Arena =>
                                    gs'[job[w].plan.arena] = "terminated"
    <2>1. Through(w)' => job'[w].after \in {"close", "forget"}
      BY <1>2 DEF WorkerShape, Compensating, Through
    <2> QED
      BY <1>1, <1>2, <1>4, <2>1 DEF PlanSound, Ended
  <1>5. CASE /\ job'[w].pc \in {"release", "unpack", "unpoint", "keep"}
             /\ job'[w].plan.terminate \/ job'[w].plan.arena \in published
    BY <1>1, <1>5 DEF PlanSound, Through
  <1> QED
    BY <1>3, <1>4, <1>5, PlannedHow

(* What the surroundings do to the record and to the game sessions.        *)
LEMMA AroundRecord ==
  ASSUME Typed, Around
  PROVE  /\ job' = job /\ published' = published
         /\ rec' = rec \/ (/\ rec' = [rec EXCEPT !.lease = "expired"] /\ rec.lease = "held"
                           /\ Ended(rec.owner) /\ dir' = dir)
         /\ \A a \in Arena : gs'[a] = gs[a] \/ gs'[a] = "terminated"
  <1>1. job' = job
    BY AroundKeeps
  <1>2. published' = published
    BY OfferedKept DEF Around
  <1>3. rec' = rec \/ (/\ rec' = [rec EXCEPT !.lease = "expired"] /\ rec.lease = "held"
                       /\ Ended(rec.owner) /\ dir' = dir)
    BY RecordKept DEF Around, LeaseExpires
  <1>4. ASSUME NEW a \in Arena
        PROVE  gs'[a] = gs[a] \/ gs'[a] = "terminated"
    <2>1. CASE OtherLeaves
      BY <2>1 DEF OtherLeaves, Terminated, Typed, TypeOK
    <2>2. CASE ~OtherLeaves
      BY <2>2, SessionsKept DEF Around
    <2> QED
      BY <2>1, <2>2
  <1> QED
    BY <1>1, <1>2, <1>3, <1>4

(* Where the steps lead that may fail. *)
LEMMA PcOut ==
  ASSUME TypeOK, NEW w \in Worker,
         Retain(w) \/ Widen(w) \/ PreflightRejected(w) \/ Incomplete(w) \/ PublishPointer(w)
           \/ PublishRecord(w) \/ Activate(w) \/ Unpoint(w)
  PROVE  /\ job'[w].pc \in {"widen", "create", "write", "activate", "done", "unpoint", "unpack", "keep"}
         /\ job'[w].arena = job[w].arena /\ job'[w].made = job[w].made
  <1>1. \A e : \A p : Plans(w, p, e) => /\ job'[w].pc = p /\ job'[w].arena = job[w].arena
                                        /\ job'[w].made = job[w].made
    BY AgentKinds, PlansShape
  <1>2. \A from, P : Moves(w, from, P) => /\ job'[w].pc \in P /\ job'[w].arena = job[w].arena
                                         /\ job'[w].made = job[w].made
    BY AgentKinds, MovesShape
  <1>3. CASE RetainRefused(w)
    BY <1>1, <1>3, Refusing
  <1>4. CASE (Retain(w) \/ Widen(w)) /\ ~RetainRefused(w)
    <2>1. Moves(w, "widen", {"create"}) \/ Moves(w, "retain", {"widen"})
      BY <1>4, Retaining
    <2> QED
      BY <1>2, <2>1
  <1>5. CASE PreflightRejected(w) \/ Incomplete(w)
    <2>1. PreflightRejected(w) => \E e : Plans(w, "unpoint", e)
      BY Planning
    <2>2. Incomplete(w) => \E e : Plans(w, IF job[w].made THEN "unpoint" ELSE "keep", e)
      BY Planning
    <2>3. (IF job[w].made THEN "unpoint" ELSE "keep") \in {"unpoint", "keep"}
      OBVIOUS
    <2> QED
      BY <1>1, <1>5, <2>1, <2>2, <2>3
  <1>6. CASE PublishPointer(w) \/ PublishRecord(w)
    <2>1. PublishPointer(w) => \/ Moves(w, "point", {"write"})
                              \/ \E e : Plans(w, "unpoint", e)
      BY Planning
    <2>2. PublishRecord(w) => \/ Moves(w, "write", {"activate"})
                             \/ \E e : Plans(w, "keep", e)
      BY Planning
    <2> QED
      BY <1>1, <1>2, <1>6, <2>1, <2>2
  <1>7. CASE Activate(w)
    <2>1. Moves(w, "activate", {"done"}) \/ \E e : Plans(w, "keep", e)
      BY <1>7, Planning
    <2> QED
      BY <1>1, <1>2, <2>1
  <1>8. CASE Unpoint(w)
    <2>1. \E e : Plans(w, "keep", e)
      BY <1>8, Planning
    <2> QED
      BY <1>1, <2>1
  <1> QED
    BY <1>3, <1>4, <1>5, <1>6, <1>7, <1>8

(* The steps into the part of a request that has no evidence yet. *)
LEMMA BareEntered ==
  ASSUME Typed, NEW w \in Worker, Works(w), job'[w].pc \in Bare
  PROVE  \/ Own(w) \/ Fence(w) \/ Pack(w) \/ Point(w)
         \/ RetainIntent(w) /\ Goes(w, "intent", {"launch"})
         \/ LaunchAnswered(w) /\ Goes(w, "launch", {"retain"})
         \/ Replay(w) /\ Goes(w, "replay", {"kill"})
         \/ Kill(w) /\ Goes(w, "kill", {"forgetIntent"})
  <1>1. TypeOK /\ w \in Agent /\ job[w] \in Jobs /\ WorkerShape(job[w])
    BY AgentKinds, JobFields DEF Typed, Shapes
  <1>2. Bare = {"place", "intent", "launch", "retain", "replay", "kill", "forgetIntent"}
    BY DEF Bare, Replaying
  <1>3. CASE job'[w].pc \in {"intent", "launch", "retain"}
    <2>1. \/ Point(w)
          \/ Pack(w) /\ job'[w].pc = "retain" /\ job'[w].arena = dir.arena /\ ~job'[w].made
          \/ RetainIntent(w) /\ Goes(w, "intent", {"launch"})
          \/ LaunchAnswered(w) /\ Goes(w, "launch", {"retain"})
          \/ (Retain(w) \/ Widen(w)) /\ (Goes(w, "retain", {"widen", "create"}) \/ Goes(w, "widen", {"create"}))
          \/ CreateSessions(w) /\ Goes(w, "create", {"await"})
          \/ Answered(w) /\ Goes(w, "await", {IF job[w].made THEN "point" ELSE "write"})
          \/ PublishPointer(w) /\ Goes(w, "point", {"write"})
          \/ PublishRecord(w) /\ Goes(w, "write", {"activate"}) /\ rec' = [rec EXCEPT !.ev = Allocation(w)]
      BY <1>3, Advances DEF Launching
    <2> QED
      BY <1>3, <2>1 DEF Goes
  <1>4. CASE job'[w].pc \in {"place", "replay", "kill", "forgetIntent"}
    <2>1. CASE FindStranded(w) \/ Forget(w) \/ ForgetIntent(w) \/ GiveUp(w) \/ LaunchRefused(w) \/ LaunchUncertain(w)
      <3>1. [Fresh EXCEPT !.pc = "read"].pc = "read" /\ [Fresh EXCEPT !.pc = "failed"].pc = "failed"
        BY FreshPlan
      <3> QED
        BY <1>1, <1>4, <2>1, <3>1, GoesWhere, SetsWhat DEF Goes
    <2>2. CASE RetainIntent(w) \/ LaunchAnswered(w) \/ CreateSessions(w) \/ Answered(w) \/ Keep(w) \/ Close(w)
      BY <1>1, <1>4, <2>2, GoesWhere DEF Goes
    <2>3. CASE Retain(w) \/ Widen(w) \/ PreflightRejected(w) \/ Incomplete(w) \/ PublishPointer(w)
               \/ PublishRecord(w) \/ Activate(w) \/ Unpoint(w)
      BY <1>1, <1>4, <2>3, PcOut
    <2>4. CASE ReleaseSessions(w) \/ Unpack(w) \/ TerminateSession(w)
      <3>1. job'[w].pc \in {"unpack", "terminate", job[w].after} \/ job'[w] = Fails(w)
        BY <1>1, <2>4, CompensatesHow DEF Goes
      <3>2. Fails(w).pc = "failed"
        BY FreshPlan
      <3>3. job[w].after \in {"idle", "forget", "close"}
        BY ClosingShape
      <3> QED
        BY <1>4, <3>1, <3>2, <3>3
    <2>5. Replay(w) => Goes(w, "replay", {"kill"})
      BY <1>1, GoesWhere
    <2>6. Kill(w) => Goes(w, "kill", {"forgetIntent"})
      BY <1>1, GoesWhere
    <2>7. Pack(w) \/ Point(w) => job'[w].pc \in {"retain", "intent"}
      BY <1>1, SetsWhat, PointsTo
    <2> QED
      BY <1>4, <2>1, <2>2, <2>3, <2>4, <2>5, <2>6, <2>7 DEF Works, WorkerStep, Compensate
  <1> QED
    BY <1>2, <1>3, <1>4

(* BareSound is kept by the steps of its request ...                       *)
LEMMA BareWorks ==
  ASSUME Typed, Next, RecordSound, PointerSound, NEW w \in Worker, Works(w), BareSound(w),
         stray = {}, \A a \in Arena : Named(a)
  PROVE  BareSound(w)'
  <1>1. /\ TypeOK /\ w \in Agent /\ job[w] \in Jobs /\ WorkerShape(job[w]) /\ rec \in Records
        /\ WorkerShape(job'[w]) /\ None \notin Arena
    BY AgentKinds, JobFields, WorksHow, AllocationAssumption DEF Typed, Shapes, TypeOK
  <1>2. SUFFICES ASSUME job'[w].pc \in Bare
                 PROVE  BareSound(w)'
    BY DEF BareSound
  <1>3. CASE Own(w)
    <2>1. /\ rec' = Owning(w) /\ job'[w].pc = "place"
      BY <1>1, <1>3, GoesWhere DEF Own, Goes
    <2>2. rec.intent = None /\ ~HasEvidence
      BY <1>3 DEF Own, RecordSound, RecordForm, NoRecord, NoEvidence, Sees, HasEvidence
    <2> QED
      BY <1>1, <2>1, <2>2 DEF BareSound, HasEvidence, Owning, Records, Replaying
  <1>4. CASE Fence(w)
    <2>1. /\ rec' = Owning(w) /\ job'[w].pc = "replay" /\ job'[w].arena = rec.intent /\ ~HasEvidence
      BY <1>1, <1>4, SetsWhat DEF Fence
    <2> QED
      BY <1>1, <2>1 DEF BareSound, HasEvidence, Owning, Records, Replaying
  <1>5. CASE Pack(w) \/ Point(w)
    <2>1. /\ rec' = rec /\ job[w].pc = "place" /\ ~job[w].made
          /\ job'[w].pc = "intent" \/ (job'[w].pc = "retain" /\ ~job'[w].made)
      BY <1>1, <1>5, SetsWhat, PointsTo, RecordKept DEF WorkerShape
    <2>2. job[w].pc \in Bare
      BY <2>1 DEF Bare
    <2> QED
      BY <1>1, <2>1, <2>2 DEF BareSound, HasEvidence, Replaying
  <1>6. CASE RetainIntent(w) /\ Goes(w, "intent", {"launch"})
    <2>1. /\ job[w].pc = "intent" /\ job'[w].pc = "launch" /\ job'[w].arena = job[w].arena /\ job[w].made
          /\ job[w].arena \in Arena
      BY <1>1, <1>6, JobFields DEF Goes, Same, WorkerShape
    <2>2. Owns(w) /\ rec' = [rec EXCEPT !.intent = job[w].arena] /\ gs' = gs
      <3>1. Owns(w) \/ Go(w, "close")
        BY <1>6 DEF RetainIntent
      <3>2. "close" \in Places
        BY PlaceNames
      <3>3. Go(w, "close") => job'[w] = [job[w] EXCEPT !.pc = "close"]
        BY <1>1, <3>2, GoOf
      <3>4. [job[w] EXCEPT !.pc = "close"].pc = "close"
        BY <1>1 DEF Jobs
      <3> QED
        BY <1>6, <2>1, <3>1, <3>3, <3>4 DEF RetainIntent
    <2>3. ~HasEvidence /\ rec.intent = None
      BY <2>1 DEF BareSound, Bare
    <2>4. gs[job[w].arena] # "up"
      <3>1. job[w].arena \notin published
        BY <2>1 DEF PointerSound, Launching
      <3>2. job[w].arena # rec.intent
        BY <1>1, <2>1, <2>3
      <3> QED
        BY <2>1, <3>1, <3>2 DEF Named
    <2> QED
      BY <1>1, <2>1, <2>2, <2>3, <2>4 DEF BareSound, HasEvidence, Replaying, Records
  <1>7. CASE \/ LaunchAnswered(w) /\ Goes(w, "launch", {"retain"})
             \/ Replay(w) /\ Goes(w, "replay", {"kill"})
    <2>1. /\ job[w].pc \in {"launch", "replay"} /\ job'[w].arena = job[w].arena /\ job'[w].made = job[w].made
          /\ job'[w].pc \in {"retain", "kill"}
          /\ job[w].pc = "launch" => job[w].made
          /\ (job'[w].pc = "retain") <=> (job[w].pc = "launch")
      BY <1>1, <1>7 DEF Goes, Same, WorkerShape
    <2>2. rec' = rec
      BY <1>1, <1>7, RecordKept DEF Compensate
    <2>3. job[w].pc \in Bare
      BY <2>1 DEF Bare, Replaying
    <2> QED
      BY <1>1, <2>1, <2>2, <2>3 DEF BareSound, HasEvidence, Replaying
  <1>8. CASE Kill(w) /\ Goes(w, "kill", {"forgetIntent"})
    <2>1. /\ job[w].pc = "kill" /\ job'[w].arena = job[w].arena /\ job'[w].pc = "forgetIntent"
          /\ job[w].arena \in Arena
      BY <1>1, <1>8, JobFields DEF Goes, Same, WorkerShape, Replaying
    <2>2. rec' = rec /\ gs'[job[w].arena] = "terminated"
      BY <1>1, <1>8, <2>1, RecordKept DEF Compensate, Kill, Terminated, TypeOK
    <2>3. job[w].pc \in Bare
      BY <2>1 DEF Bare, Replaying
    <2> QED
      BY <1>1, <2>1, <2>2, <2>3 DEF BareSound, HasEvidence, Replaying
  <1> QED
    BY <1>2, <1>3, <1>4, <1>5, <1>6, <1>7, <1>8, BareEntered

(* The steps with which a request ends or begins again. *)
LEMMA GivesUp ==
  ASSUME TypeOK, NEW w \in Worker, Forget(w) \/ ForgetIntent(w) \/ LaunchUncertain(w) \/ Close(w)
  PROVE  job'[w].pc \in {"read", "failed"}
  <1>1. Close(w) => job'[w].pc = "failed"
    BY GoesWhere DEF Goes
  <1>2. [Fresh EXCEPT !.pc = "read"].pc = "read" /\ [Fresh EXCEPT !.pc = "failed"].pc = "failed"
    BY FreshPlan
  <1>3. /\ LaunchUncertain(w) => job'[w] = [Fresh EXCEPT !.pc = "failed"]
        /\ Forget(w) \/ ForgetIntent(w) => job'[w] = [Fresh EXCEPT !.pc = "read"]
    BY SetsWhat
  <1> QED
    BY <1>1, <1>2, <1>3

(* What a request that goes on does to the record. *)
LEMMA WritingBack ==
  ASSUME Typed, PointerSound, NEW w \in Worker, OfferedSound(w), PlanSound(w), Works(w),
         Writing(w)', job'[w].pc \notin Bare
  PROVE  /\ Writing(w) /\ job'[w].arena = job[w].arena
         /\ \/ rec' = rec
            \/ rec' = [rec EXCEPT !.status = "active", !.owner = None, !.lease = "none"]
            \/ \E e : MayRetain(w) /\ rec' = [rec EXCEPT !.ev = e] /\ e.arena = job[w].arena
  <1>1. /\ TypeOK /\ w \in Agent /\ job[w] \in Jobs /\ WorkerShape(job[w]) /\ rec \in Records
        /\ job'[w].pc \notin Outside /\ job'[w].after # "forget"
    BY AgentKinds, JobFields DEF Typed, Shapes, TypeOK, Writing, Working, Cleaning
  <1>2. CASE Own(w) \/ Fence(w) \/ Pack(w) \/ Point(w) \/ LaunchAnswered(w) \/ Replay(w) \/ Kill(w)
    <2>1. job'[w].pc \in {"place", "replay", "retain", "intent", "kill", "forgetIntent"}
      BY <1>1, <1>2, GoesWhere, SetsWhat, PointsTo DEF Goes
    <2> QED
      BY <2>1 DEF Bare, Replaying
  <1>3. CASE FindStranded(w)
    BY <1>1, <1>3, SetsWhat
  <1>4. CASE Forget(w) \/ ForgetIntent(w) \/ LaunchUncertain(w) \/ Close(w)
    <2>1. job'[w].pc \in {"read", "failed"}
      BY <1>1, <1>4, GivesUp
    <2> QED
      BY <1>1, <2>1 DEF Outside
  <1>5. CASE GiveUp(w) \/ LaunchRefused(w) \/ CreateSessions(w) \/ Answered(w)
    <2>1. Same(w) /\ job[w].pc \in {"place", "launch", "create", "await"}
      BY <1>1, <1>5, GoesWhere DEF Goes
    <2>2. rec' = rec
      BY <1>5, RecordKept
    <2> QED
      BY <1>1, <2>1, <2>2 DEF Same, Writing, Working, Cleaning, Outside
  <1>6. CASE RetainIntent(w)
    <2>1. Same(w) /\ job[w].pc = "intent" /\ job'[w].pc \in {"launch", "close"}
      BY <1>1, <1>6, GoesWhere DEF Goes
    <2>2. job'[w].pc = "close"
      BY <2>1 DEF Bare
    <2>3. rec' = rec
      <3>1. Owns(w) => Go(w, "launch")
        BY <1>6 DEF RetainIntent
      <3>2. "launch" \in Places
        BY PlaceNames
      <3>3. Go(w, "launch") => job'[w] = [job[w] EXCEPT !.pc = "launch"]
        BY <1>1, <3>2, GoOf
      <3>4. [job[w] EXCEPT !.pc = "launch"].pc = "launch"
        BY <1>1 DEF Jobs
      <3> QED
        BY <1>6, <2>2, <3>1, <3>3, <3>4 DEF RetainIntent
    <2> QED
      BY <1>1, <2>1, <2>3 DEF Same, Writing, Working, Cleaning, Outside
  <1>7. CASE PreflightRejected(w) \/ Incomplete(w) \/ PublishPointer(w) \/ Activate(w)
    <2>1. job'[w].arena = job[w].arena
      BY <1>1, <1>7, PcOut
    <2>2. job[w].pc \in {"widen", "await", "point", "activate"}
      BY <1>7 DEF PreflightRejected, Incomplete, PublishPointer, Activate, At
    <2>3. rec' = rec \/ rec' = [rec EXCEPT !.status = "active", !.owner = None, !.lease = "none"]
      BY <1>7, RecordKept DEF Activate
    <2> QED
      BY <2>1, <2>2, <2>3, ClosingShape DEF Publishing
  <1>8. CASE Evidences(w)
    <2>1. job[w].pc \in {"retain", "widen", "write", "unpoint", "keep"}
      BY <1>8 DEF Evidences, Retain, Widen, PublishRecord, Unpoint, Keep, At
    <2>2. Writing(w)
      BY <2>1, ClosingShape DEF Bare, Publishing
    <2>3. job'[w].arena = job[w].arena
      <3>1. CASE Keep(w)
        BY <1>1, <3>1, GoesWhere DEF Goes, Same
      <3> QED
        BY <1>1, <1>8, <3>1, PcOut DEF Evidences
    <2> QED
      BY <1>8, <2>2, <2>3, EvidenceWritten
  <1>9. CASE ReleaseSessions(w) \/ Unpack(w) \/ TerminateSession(w)
    <2>1. job'[w] # Fails(w)
      BY <1>1, FreshPlan DEF Outside
    <2>2. Same(w) /\ job[w].pc \in {"release", "unpack", "terminate"}
      BY <1>1, <1>9, <2>1, CompensatesHow DEF Goes
    <2>3. rec' = rec
      BY <1>1, <1>9, RecordKept DEF Compensate
    <2> QED
      BY <1>1, <2>2, <2>3 DEF Same, Writing, Working, Cleaning, Outside
  <1> QED
    BY <1>2, <1>3, <1>4, <1>5, <1>6, <1>7, <1>8, <1>9 DEF Works, WorkerStep, Compensate, Evidences

(* WriterSound is kept by the steps of its request.                        *)
LEMMA WriterWorks ==
  ASSUME Typed, PointerSound, NEW w \in Worker, Works(w), BareSound(w), WriterSound(w), OfferedSound(w), PlanSound(w)
  PROVE  WriterSound(w)'
  <1>1. rec \in Records
    BY DEF Typed, TypeOK
  <1>2. SUFFICES ASSUME Writing(w)', job'[w].pc \notin Bare
                 PROVE  WriterSound(w)'
    BY DEF WriterSound
  <1>3. /\ Writing(w) /\ job'[w].arena = job[w].arena
        /\ \/ rec' = rec
           \/ rec' = [rec EXCEPT !.status = "active", !.owner = None, !.lease = "none"]
           \/ \E e : MayRetain(w) /\ rec' = [rec EXCEPT !.ev = e] /\ e.arena = job[w].arena
    BY <1>2, WritingBack
  <1>4. /\ rec.intent \in {None, job[w].arena}
        /\ HasEvidence => rec.ev.arena = job[w].arena
    <2>1. CASE job[w].pc \in Bare
      BY <2>1 DEF BareSound, Bare
    <2>2. CASE job[w].pc \notin Bare
      BY <1>3, <2>2 DEF WriterSound
    <2> QED
      BY <2>1, <2>2
  <1>5. CASE rec' = rec \/ rec' = [rec EXCEPT !.status = "active", !.owner = None, !.lease = "none"]
    <2>1. rec'.intent = rec.intent /\ rec'.ev = rec.ev
      BY <1>1, <1>5 DEF Records
    <2> QED
      BY <1>3, <1>4, <2>1 DEF WriterSound, HasEvidence
  <1>6. ASSUME NEW e, rec' = [rec EXCEPT !.ev = e], e.arena = job[w].arena
        PROVE  WriterSound(w)'
    <2>1. rec'.intent = rec.intent /\ rec'.ev.arena = job[w].arena
      BY <1>1, <1>6 DEF Records
    <2> QED
      BY <1>3, <1>4, <2>1 DEF WriterSound, HasEvidence
  <1> QED
    BY <1>3, <1>5, <1>6

(* CloseSound is kept by the steps of its request.                         *)
LEMMA CloseWorks ==
  ASSUME Typed, Next, NEW w \in Worker, Works(w), BareSound(w)
  PROVE  CloseSound(w)'
  <1>1. /\ TypeOK /\ w \in Agent /\ job[w] \in Jobs /\ WorkerShape(job[w]) /\ rec \in Records
    BY AgentKinds, JobFields DEF Typed, Shapes, TypeOK
  <1>2. SUFFICES ASSUME job'[w].pc = "close", job'[w].after = "idle"
                 PROVE  CloseSound(w)'
    BY DEF CloseSound
  <1>3. CASE Own(w) \/ Fence(w) \/ Pack(w) \/ Point(w) \/ LaunchAnswered(w) \/ Replay(w) \/ Kill(w) \/ Keep(w)
             \/ FindStranded(w) \/ CreateSessions(w) \/ Answered(w)
    <2>1. job'[w].pc # "close"
      BY <1>1, <1>3, GoesWhere, SetsWhat, PointsTo DEF Goes
    <2> QED
      BY <1>2, <2>1
  <1>4. CASE Forget(w) \/ ForgetIntent(w) \/ LaunchUncertain(w) \/ Close(w)
    <2>1. job'[w].pc \in {"read", "failed"}
      BY <1>1, <1>4, GivesUp
    <2> QED
      BY <1>2, <2>1
  <1>5. CASE Retain(w) \/ Widen(w) \/ PreflightRejected(w) \/ Incomplete(w) \/ PublishPointer(w)
             \/ PublishRecord(w) \/ Activate(w) \/ Unpoint(w)
    <2>1. job'[w].pc # "close"
      BY <1>1, <1>5, PcOut
    <2> QED
      BY <1>2, <2>1
  <1>6. CASE ReleaseSessions(w) \/ Unpack(w) \/ TerminateSession(w)
    <2>1. job'[w] # Fails(w)
      BY <1>2, FreshPlan
    <2>2. Same(w) /\ job[w].pc \in Compensating
      BY <1>1, <1>6, <2>1, CompensatesHow DEF Goes, Compensating
    <2> QED
      BY <1>1, <1>2, <2>2 DEF Same, WorkerShape
  <1>7. CASE GiveUp(w)
    <2>1. rec' = rec /\ job[w].pc = "place"
      BY <1>1, <1>7, RecordKept, GoesWhere DEF Goes
    <2>2. rec.intent = None
      BY <2>1 DEF BareSound, Bare
    <2> QED
      BY <2>1, <2>2 DEF CloseSound
  <1>8. CASE RetainIntent(w)
    <2>1. job[w].pc = "intent"
      BY <1>8 DEF RetainIntent, At
    <2>2. rec.intent = None
      BY <2>1 DEF BareSound, Bare
    <2>3. rec' = rec
      <3>1. Owns(w) => Go(w, "launch")
        BY <1>8 DEF RetainIntent
      <3>2. "launch" \in Places
        BY PlaceNames
      <3>3. Go(w, "launch") => job'[w] = [job[w] EXCEPT !.pc = "launch"]
        BY <1>1, <3>2, GoOf
      <3>4. [job[w] EXCEPT !.pc = "launch"].pc = "launch"
        BY <1>1 DEF Jobs
      <3> QED
        BY <1>2, <1>8, <3>1, <3>3, <3>4 DEF RetainIntent
    <2> QED
      BY <2>2, <2>3 DEF CloseSound
  <1>9. CASE LaunchRefused(w)
    <2>1. rec' = rec /\ job[w].pc = "launch" /\ job[w].arena \in Arena
      BY <1>1, <1>9, RecordKept, GoesWhere, JobFields DEF Goes, WorkerShape
    <2>2. rec.intent = job[w].arena /\ gs[job[w].arena] # "up"
      BY <2>1 DEF BareSound, Bare
    <2>3. gs'[job[w].arena] # "up"
      BY <1>1, <1>9, <2>1, <2>2 DEF LaunchRefused, TypeOK
    <2> QED
      BY <2>1, <2>2, <2>3 DEF CloseSound
  <1> QED
    BY <1>3, <1>4, <1>5, <1>6, <1>7, <1>8, <1>9 DEF Works, WorkerStep, Compensate

(* Evidence and the names in the record. *)
LEMMA EvidenceSoundStep ==
  ASSUME Typed, Next, RecordSound, PointerSound, EvidenceSound, \A w \in Worker : RequestSound(w)
  PROVE  EvidenceSound'
  <1>1. TypeOK /\ rec \in Records /\ published \subseteq published'
    BY OfferedGrows DEF Typed, TypeOK
  <1>2. CASE rec'.ev = rec.ev /\ rec'.intent = rec.intent
    BY <1>1, <1>2 DEF EvidenceSound, HasEvidence
  <1>3. CASE rec'.ev.arena = None
    BY <1>3 DEF EvidenceSound, HasEvidence
  <1>4. ASSUME NEW w \in Worker, Own(w) \/ Fence(w), rec' = Owning(w)
        PROVE  EvidenceSound'
    <2>1. rec.ev.arena = None
      BY <1>4 DEF Own, Fence, HasEvidence, RecordSound, RecordForm, NoRecord, NoEvidence, Sees
    <2>2. rec'.ev = rec.ev
      BY <1>1, <1>4 DEF Owning, Records
    <2> QED
      BY <1>3, <2>1, <2>2
  <1>5. CASE rec' = NoRecord
    BY <1>3, <1>5 DEF NoRecord, NoEvidence, Sees
  <1>6. ASSUME NEW w \in Worker, RetainIntent(w), rec' = [rec EXCEPT !.intent = job[w].arena]
        PROVE  EvidenceSound'
    <2>1. ~HasEvidence
      BY <1>6 DEF RetainIntent, At, RequestSound, BareSound, Bare
    <2>2. rec'.ev = rec.ev
      BY <1>1, <1>6 DEF Records
    <2> QED
      BY <1>3, <2>1, <2>2 DEF HasEvidence
  <1>7. ASSUME NEW w \in Worker, Evidences(w)
        PROVE  EvidenceSound'
    <2>1. CASE rec' = rec
      BY <1>2, <2>1
    <2>2. ASSUME NEW e, MayRetain(w), rec' = [rec EXCEPT !.ev = e], e.arena = job[w].arena,
                 e.terminate \/ job[w].arena \in published
          PROVE  EvidenceSound'
      <3>1. rec'.intent = rec.intent /\ rec'.ev = e
        BY <1>1, <2>2 DEF Records
      <3>2. rec.intent \in {None, job[w].arena}
        <4>1. job[w].pc \in {"retain", "widen", "write", "unpoint", "keep"}
          BY <1>7 DEF Evidences, Retain, Widen, PublishRecord, Unpoint, Keep, At
        <4>2. Writing(w)
          BY <4>1, ClosingShape DEF Bare, Publishing
        <4>3. CASE job[w].pc = "retain"
          <5>1. job[w].made \in BOOLEAN
            BY <1>1, AgentKinds, JobFields
          <5> QED
            BY <4>3, <5>1 DEF RequestSound, BareSound, Bare
        <4>4. CASE job[w].pc # "retain"
          <5>1. job[w].pc \notin Bare
            BY <4>1, <4>4 DEF Bare, Replaying
          <5> QED
            BY <4>2, <5>1 DEF RequestSound, WriterSound
        <4> QED
          BY <4>3, <4>4
      <3> QED
        BY <1>1, <2>2, <3>1, <3>2 DEF EvidenceSound
    <2> QED
      BY <1>7, <2>1, <2>2, EvidenceWritten DEF RequestSound
  <1>8. CASE \/ rec' = [rec EXCEPT !.status = "active", !.owner = None, !.lease = "none"]
             \/ rec' = Cancelled(rec) \/ rec' = [rec EXCEPT !.status = "cancelled"]
             \/ rec' = [rec EXCEPT !.status = "cancelling"] \/ rec' = [rec EXCEPT !.lease = "expired"]
    BY <1>1, <1>2, <1>8 DEF Cancelled, Records
  <1> QED
    BY <1>2, <1>4, <1>5, <1>6, <1>7, <1>8, RecordHow

(* Whoever closes the record of a request has ended its game session, or   *)
(* others were offered it. *)
LEMMA ClosesNamed ==
  ASSUME Typed, NEW w \in Worker, Close(w), RequestSound(w), rec.intent \in Arena, gs[rec.intent] = "up"
  PROVE  rec.intent \in published
  <1>1. /\ job[w].pc = "close" /\ WorkerShape(job[w]) /\ rec.intent # None
    BY AllocationAssumption DEF Close, At, Typed, Shapes
  <1>2. Writing(w) /\ job[w].pc \notin Bare
    BY <1>1, ClosingShape
  <1>3. job[w].after = "close"
    BY <1>1 DEF WorkerShape, Compensating, RequestSound, CloseSound
  <1>4. rec.intent = job[w].plan.arena
    BY <1>1, <1>2, <1>3 DEF RequestSound, WriterSound, WorkerShape, Compensating
  <1> QED
    BY <1>1, <1>3, <1>4 DEF RequestSound, PlanSound, Through, Ended

(* The record gives up its intent only once the game session has ended or  *)
(* others were offered it.                                                 *)
LEMMA IntentStays ==
  ASSUME Typed, Next, Names, NEW a \in Arena, a = rec.intent, gs[a] = "up"
  PROVE  a \in published \/ a = rec'.intent
  <1>1. /\ TypeOK /\ rec \in Records /\ a # None
    BY AllocationAssumption DEF Typed, TypeOK
  <1>2. SUFFICES ASSUME a \notin published
                 PROVE  a = rec'.intent
    BY <1>1
  <1>3. CASE rec' = rec
    BY <1>3
  <1>4. CASE \/ \E w \in Worker : rec' = Owning(w)
             \/ \E e : rec' = [rec EXCEPT !.ev = e]
             \/ rec' = [rec EXCEPT !.status = "active", !.owner = None, !.lease = "none"]
             \/ rec' = Cancelled(rec) \/ rec' = [rec EXCEPT !.status = "cancelled"]
             \/ rec' = [rec EXCEPT !.status = "cancelling"] \/ rec' = [rec EXCEPT !.lease = "expired"]
    BY <1>1, <1>4 DEF Owning, Cancelled, Records
  <1>5. ASSUME NEW w \in Worker, Retires(w), rec.status = "allocating", rec' = NoRecord
        PROVE  FALSE
    <2>1. rec' # rec /\ EvidenceSound /\ RequestSound(w)
      BY <1>5 DEF NoRecord, Names, Open
    <2>2. CASE Close(w)
      BY <1>2, <2>1, <2>2, ClosesNamed
    <2>3. CASE ForgetIntent(w)
      <3>1. job[w].pc = "forgetIntent"
        BY <2>3 DEF ForgetIntent, At
      <3> QED
        BY <2>1, <3>1 DEF RequestSound, BareSound, Bare, Replaying
    <2>4. CASE Forget(w)
      <3>1. job[w].pc = "forget" /\ rec.ev.arena = job[w].plan.arena
        BY <2>1, <2>4 DEF Forget, At
      <3>2. job[w].after = "forget" /\ job[w].plan.arena # None
        BY <3>1 DEF Typed, Shapes, WorkerShape, Compensating
      <3>3. a = job[w].plan.arena
        BY <1>1, <2>1, <3>1, <3>2 DEF EvidenceSound, HasEvidence
      <3> QED
        BY <1>2, <2>1, <3>1, <3>2, <3>3 DEF RequestSound, PlanSound, Through, Ended
    <2> QED
      BY <1>5, <2>2, <2>3, <2>4 DEF Retires
  <1>6. ASSUME NEW w \in Worker, RetainIntent(w), Owns(w)
        PROVE  FALSE
    <2>1. job[w].pc = "intent" /\ RequestSound(w)
      BY <1>6 DEF RetainIntent, At, Names, Owns, Open
    <2> QED
      BY <1>1, <2>1 DEF RequestSound, BareSound, Bare
  <1> QED
    BY <1>3, <1>4, <1>5, <1>6, RecordHow

(* Every game session keeps a name.                                        *)
LEMMA NamedStep ==
  ASSUME Typed, Next, Names, NEW a \in Arena
  PROVE  Named(a)'
  <1>1. SUFFICES ASSUME gs'[a] = "up"
                 PROVE  a \in published' \union stray' \union {rec'.intent}
    BY DEF Named
  <1>2. published \subseteq published' /\ Named(a) /\ \A w \in Worker : LaunchSound(w)
    BY OfferedGrows DEF Names
  <1>3. stray \subseteq stray'
    BY StrayKept DEF Replay
  <1>4. CASE gs[a] = "up"
    <2>1. a = rec.intent => a \in published \/ a = rec'.intent
      BY <1>4, IntentStays
    <2> QED
      BY <1>2, <1>3, <1>4, <2>1 DEF Named
  <1>5. ASSUME gs[a] = "none", NEW w \in Worker, LaunchAnswered(w) \/ LaunchUncertain(w), a = job[w].arena
        PROVE  a = rec'.intent
    <2>1. rec' = rec
      BY <1>5, RecordKept
    <2>2. job[w].pc = "launch"
      BY <1>5 DEF LaunchAnswered, LaunchUncertain, At
    <2> QED
      BY <1>2, <1>5, <2>1, <2>2 DEF LaunchSound
  <1>6. ASSUME gs[a] = "none", NEW x \in Agent, Replay(x), a = job[x].arena
        PROVE  a \in stray' \union {rec'.intent}
    BY <1>6 DEF Replay
  <1> QED
    BY <1>1, <1>4, <1>5, <1>6, SessionsHow

(* A creation is asked for with its identity in the record. *)
LEMMA LaunchSoundStep ==
  ASSUME ~SlowCleaner, Sound, Next, NEW w \in Worker, LaunchSound(w)
  PROVE  LaunchSound(w)'
  <1>1. /\ Typed /\ TypeOK /\ rec \in Records /\ RecordSound /\ OneWorks /\ Titles
    BY DEF Sound, Typed, TypeOK
  <1>2. SUFFICES ASSUME job'[w].pc = "launch"
                 PROVE  rec'.intent = job'[w].arena
    BY DEF LaunchSound
  <1>3. CASE Works(w)
    <2>1. RetainIntent(w) /\ Goes(w, "intent", {"launch"})
      <3>1. job'[w].pc \in Launching
        BY <1>2 DEF Launching
      <3>2. \/ Point(w)
            \/ Pack(w) /\ job'[w].pc = "retain" /\ job'[w].arena = dir.arena /\ ~job'[w].made
            \/ RetainIntent(w) /\ Goes(w, "intent", {"launch"})
            \/ LaunchAnswered(w) /\ Goes(w, "launch", {"retain"})
            \/ (Retain(w) \/ Widen(w)) /\ (Goes(w, "retain", {"widen", "create"}) \/ Goes(w, "widen", {"create"}))
            \/ CreateSessions(w) /\ Goes(w, "create", {"await"})
            \/ Answered(w) /\ Goes(w, "await", {IF job[w].made THEN "point" ELSE "write"})
            \/ PublishPointer(w) /\ Goes(w, "point", {"write"})
            \/ PublishRecord(w) /\ Goes(w, "write", {"activate"}) /\ rec' = [rec EXCEPT !.ev = Allocation(w)]
        BY <1>1, <1>3, <3>1, Advances
      <3> QED
        BY <1>1, <1>2, <3>2, PointsTo DEF Goes
    <2>2. Owns(w) /\ rec' = [rec EXCEPT !.intent = job[w].arena]
      <3>1. Go(w, "close") => job'[w] = [job[w] EXCEPT !.pc = "close"]
        BY <1>1, AgentKinds, PlaceNames, GoOf
      <3>2. [job[w] EXCEPT !.pc = "close"].pc = "close"
        BY <1>1, AgentKinds, JobFields DEF Jobs
      <3> QED
        BY <1>2, <2>1, <3>1, <3>2 DEF RetainIntent
    <2> QED
      BY <1>1, <2>1, <2>2 DEF Goes, Same, Records
  <1>4. CASE Rests(w)
    BY <1>1, <1>2, <1>4, RestsHow DEF Outside
  <1>5. CASE job'[w] = job[w]
    <2>1. /\ rec.intent = job[w].arena /\ Working(w) /\ job[w].pc = "launch"
      BY <1>2, <1>5 DEF LaunchSound, Working, Outside
    <2>2. \A v \in Worker : Works(v) => v = w
      BY <1>1, <2>1, Alone
    <2>3. ASSUME NEW v \in Worker, Retires(v) \/ RetainIntent(v)
          PROVE  FALSE
      <3>1. job[v].pc \in {"forget", "forgetIntent", "close", "intent"}
        BY <2>3 DEF Retires, Forget, ForgetIntent, Close, RetainIntent, At
      <3>2. Works(v)
        BY <2>3, <3>1 DEF Works, WorkerStep, Retires, FindAnswer, At
      <3> QED
        BY <2>1, <2>2, <3>1, <3>2
    <2>4. rec'.intent = rec.intent
      BY <1>1, <2>3, RecordHow DEF Owning, Cancelled, Records
    <2> QED
      BY <1>5, <2>1, <2>4
  <1> QED
    BY <1>1, <1>3, <1>4, <1>5, ByWhom, AgentKinds, RestsHow, WorksHow, CancellingHow, AroundKeeps DEF OthersStay

(* Names holds initially ...                                               *)
LEMMA NamesInit ==
  ASSUME Init
  PROVE  Names
  <1>1. Typed /\ \A x \in Agent : job[x] = Fresh
    BY TypedInit DEF Init
  <1>2. /\ Fresh.pc = "idle" /\ Fresh.after = "idle" /\ ~Fresh.made
        /\ rec.status = "none" /\ rec.ev.arena = None
    BY DEF Init, Fresh, NoRecord, NoEvidence, Sees
  <1>3. \A w \in Worker : RequestSound(w) /\ LaunchSound(w)
    BY <1>1, <1>2, AgentKinds DEF RequestSound, BareSound, WriterSound, OfferedSound, PlanSound, CloseSound, LaunchSound,
       Through, Bare, Replaying, Writing, Working, Outside, Entered, Joining
  <1>4. EvidenceSound /\ stray = {}
    BY <1>2 DEF EvidenceSound, HasEvidence, Init
  <1>5. \A a \in Arena : Named(a)
    BY DEF Init, Named
  <1> QED
    BY <1>3, <1>4, <1>5 DEF Names

(* What nobody's steps, and those of others, leave of a request. *)
LEMMA RequestKept ==
  ASSUME Typed, Next, NEW w \in Worker, RequestSound(w), job'[w] = job[w],
         rec'.intent = rec.intent, rec'.ev = rec.ev, \A a \in Arena : gs'[a] = gs[a] \/ gs'[a] = "terminated"
  PROVE  RequestSound(w)'
  <1>1. /\ published \subseteq published' /\ WorkerShape(job[w]) /\ TypeOK /\ w \in Agent
        /\ rec.intent \in Arena \union {None} /\ job[w].arena \in Arena \union {None}
        /\ job[w].plan.arena \in Arena \union {None}
    BY OfferedGrows, AgentKinds, JobFields, RecFields DEF Typed, TypeOK, Shapes
  <1>2. BareSound(w)'
    <2>1. job[w].pc \in {"launch", "forgetIntent"} => job[w].arena \in Arena
      BY <1>1 DEF WorkerShape, Replaying
    <2> QED
      BY <1>1, <2>1 DEF RequestSound, BareSound, HasEvidence
  <1>3. WriterSound(w)' /\ OfferedSound(w)'
    BY <1>1 DEF RequestSound, WriterSound, OfferedSound, Writing, Working, Cleaning, HasEvidence
  <1>4. PlanSound(w)'
    <2>1. Through(w) => job[w].plan.arena \in Arena
      BY <1>1 DEF WorkerShape, Compensating, Through
    <2> QED
      BY <1>1, <2>1 DEF RequestSound, PlanSound, Through, Ended
  <1>5. CloseSound(w)'
    BY <1>1 DEF RequestSound, CloseSound
  <1> QED
    BY <1>2, <1>3, <1>4, <1>5 DEF RequestSound

(* What is said of the requests before anybody has begun to cancel is kept *)
(* until somebody does. *)
LEMMA OpenStep ==
  ASSUME ~SlowCleaner, Sound, Next, Names, Open'
  PROVE  stray' = {} /\ EvidenceSound' /\ \A w \in Worker : RequestSound(w)'
  <1>1. /\ Typed /\ TypeOK /\ rec \in Records /\ RecordSound /\ OneWorks /\ Titles /\ PointerSound /\ Typed'
    BY TypedStep DEF Sound, Typed, TypeOK
  <1>2. Open /\ \A c \in Canceller : Cancelling(c) => UNCHANGED <<rec, dir, gs, batch, published>>
    BY <1>1, OpenCancellers
  <1>3. /\ stray = {} /\ EvidenceSound /\ \A w \in Worker : RequestSound(w)
        /\ \A a \in Arena : Named(a)
    BY <1>2 DEF Names
  <1>4. stray' = {}
    <2>1. ASSUME NEW w \in Worker, Replay(w)
          PROVE  stray' = {}
      <3>1. job[w].pc = "replay"
        BY <2>1 DEF Replay, At
      <3>2. rec.intent = job[w].arena
        BY <1>3, <3>1 DEF RequestSound, BareSound, Bare, Replaying
      <3> QED
        BY <1>3, <2>1, <3>2 DEF Replay
    <2>2. \A c \in Canceller : ~Replay(c)
      BY <1>1, <1>2 DEF Titles, Replay, At
    <2> QED
      BY <1>3, <2>1, <2>2, StrayKept, AgentKinds
  <1>5. EvidenceSound'
    BY <1>1, <1>3, EvidenceSoundStep
  <1>6. ASSUME NEW w \in Worker, Works(w)
        PROVE  RequestSound(w)'
    BY <1>1, <1>3, <1>6, BareWorks, WriterWorks, OfferedStep, PlanWorks, CloseWorks DEF RequestSound
  <1>7. ASSUME NEW w \in Worker, ~Working(w)'
        PROVE  RequestSound(w)'
    <2>1. WorkerShape(job'[w]) /\ job'[w].pc \in Outside
      BY <1>1, <1>7 DEF Typed, Shapes, Working
    <2>2. Ended(w)' \/ job'[w].after = "idle"
      BY <2>1 DEF WorkerShape, Outside, Compensating, Ended
    <2> QED
      BY <2>1, <2>2 DEF RequestSound, BareSound, WriterSound, OfferedSound, PlanSound, CloseSound, Through, Bare, Replaying,
         Writing, Working, Outside, Entered, Joining
  <1>8. ASSUME NEW w \in Worker, NEW v \in Worker, v # w, Works(v)
        PROVE  RequestSound(w)'
    <2>1. ~Working(w)'
      BY <1>1, <1>8, Alone DEF Working
    <2> QED
      BY <1>7, <2>1
  <1>9. ASSUME NEW w \in Worker, job'[w] = job[w], UNCHANGED <<rec, dir, gs, batch, published>>
        PROVE  RequestSound(w)'
    BY <1>1, <1>3, <1>9, RequestKept
  <1>10. ASSUME NEW w \in Worker, NEW v \in Worker, Rests(v)
         PROVE  RequestSound(w)'
    <2>1. CASE v = w
      BY <1>1, <1>7, <1>10, <2>1, RestsHow DEF Working
    <2>2. CASE v # w
      BY <1>1, <1>9, <1>10, <2>2, RestsHow, AgentKinds DEF OthersStay
    <2> QED
      BY <2>1, <2>2
  <1>11. ASSUME NEW w \in Worker, NEW c \in Canceller, Cancelling(c)
         PROVE  RequestSound(w)'
    BY <1>1, <1>2, <1>9, <1>11, CancellingHow
  <1>12. ASSUME NEW w \in Worker, Around
         PROVE  RequestSound(w)'
    <2>1. /\ job' = job /\ rec'.intent = rec.intent /\ rec'.ev = rec.ev
          /\ \A a \in Arena : gs'[a] = gs[a] \/ gs'[a] = "terminated"
      BY <1>1, <1>12, AroundRecord DEF Records
    <2> QED
      BY <1>1, <1>3, <2>1, RequestKept
  <1> QED
    BY <1>4, <1>5, <1>6, <1>8, <1>10, <1>11, <1>12, ByWhom

(* ... and is inductive, relative to Sound.                                *)
LEMMA NamesStep ==
  ASSUME ~SlowCleaner, Sound, Names, [Next]_vars
  PROVE  Names'
  <1>1. CASE Next
    <2>1. Typed /\ \A w \in Worker : LaunchSound(w)
      BY DEF Sound, Names
    <2>2. Open' => stray' = {} /\ EvidenceSound' /\ \A w \in Worker : RequestSound(w)'
      BY <1>1, OpenStep
    <2>3. \A w \in Worker : LaunchSound(w)'
      BY <1>1, <2>1, LaunchSoundStep
    <2>4. \A a \in Arena : Named(a)'
      BY <1>1, <2>1, NamedStep
    <2> QED
      BY <2>2, <2>3, <2>4 DEF Names
  <1>2. CASE UNCHANGED vars
    BY <1>2 DEF vars, Names, Open, EvidenceSound, RequestSound, BareSound, WriterSound, OfferedSound, PlanSound, CloseSound,
       LaunchSound, Named, Writing, Working, Cleaning, Through, Ended, HasEvidence
  <1> QED
    BY <1>1, <1>2

(* Every game session that runs was offered to players or is named by the  *)
(* claim's record, whoever died: LaunchedIsNamed for any number of         *)
(* requests, cancellers and arenas.                                        *)
THEOREM GameSessionsAreNamed ==
  ASSUME ~SlowCleaner
  PROVE  Spec => []LaunchedIsNamed
  <1>1. Spec => []Sound
    BY AlwaysSound
  <1>2. Init => Names
    BY NamesInit
  <1>3. Sound /\ Names /\ [Next]_vars => Names'
    BY NamesStep
  <1>4. Names => LaunchedIsNamed
    BY DEF Names, Named, LaunchedIsNamed
  <1> QED
    BY <1>1, <1>2, <1>3, <1>4, PTL DEF Spec

(***************************************************************************)
(* Every player session is led to.                                         *)
(***************************************************************************)

(* Request v has, or may still obtain, player sessions in arena a.         *)
Holds(v, a) == /\ gs[a] = "up"
               /\ \/ At(v, "create") /\ job[v].arena = a
                  \/ v \in In(a, {"flying", "live"})

(* Evidence e leads to them: it names them, has them looked for, or ends   *)
(* their arena.                                                            *)
Covers(e, v, a) == e.arena = a /\ (v \in e.known \/ e.window \/ e.terminate)
Clear == \A v \in Worker, a \in Arena : ~Holds(v, a)

(* The record leads to whatever anybody holds; who writes evidence is the  *)
(* only one who holds anything, and its plan names it or has it looked     *)
(* for, whether or not its arena is ended.                                 *)
RecordCovers == \A v \in Worker, a \in Arena : Holds(v, a) => Covers(rec.ev, v, a)
SoleHolder(w) == Writing(w) => \A v \in Worker, a \in Arena : Holds(v, a) => v = w
OwnCovers(w) ==
  /\ job[w].pc \in {"unpoint", "keep", "release"} /\ job[w].after = "close" =>
       \A a \in Arena : Holds(w, a) => /\ job[w].plan.arena = a
                                       /\ w \in job[w].plan.known \/ job[w].plan.window
  /\ job[w].pc = "close" /\ job[w].after = "idle" => batch[w].state = "none"

(* A request's compensation leads to whatever is held, and when it has     *)
(* gone well nothing is.  So it is until somebody begins to cancel.        *)
Leads(x) == job[x].pc \in Compensating
PlanCovers(x) ==
  /\ Leads(x) => \A v \in Worker, a \in Arena : Holds(v, a) => Covers(job[x].plan, v, a)
  /\ Leads(x) /\ job[x].pc # "release" /\ job[x].err = "no" => job[x].plan.terminate \/ Clear
  /\ Through(x) => Clear

(* The inductive invariant, together with Sound and Names.                 *)
Covered ==
  /\ RecordCovers
  /\ \A w \in Worker : SoleHolder(w) /\ OwnCovers(w)
  /\ Open => \A w \in Worker : PlanCovers(w)

(* Widen, when it goes on, leaves evidence that has all looked for that    *)
(* the request may obtain.                                                 *)
LEMMA WidensHow ==
  ASSUME Typed, NEW w \in Worker, Retain(w) \/ Widen(w), job'[w].pc = "create"
  PROVE  /\ rec'.ev.arena = job[w].arena /\ rec'.ev.window
         /\ job[w].pc = "widen" /\ Same(w)
  <1>1. TypeOK /\ w \in Agent /\ rec \in Records /\ job[w] \in Jobs
    BY AgentKinds, JobFields DEF Typed, TypeOK
  <1>2. ~RetainRefused(w)
    <2>1. RetainRefused(w) => job'[w].pc \in {"unpoint", "unpack"}
      BY <1>1, Refusing, PlansShape
    <2> QED
      BY <2>1
  <1>3. ~Retain(w)
    <2>1. Retain(w) => Moves(w, "retain", {"widen"})
      BY <1>1, <1>2, Retaining
    <2> QED
      BY <1>1, <2>1, MovesShape
  <1>4. Widen(w)
    BY <1>3
  <1> DEFINE e == Sees(job[w].arena, {}, TRUE, job[w].made)
  <1>5. rec' = [rec EXCEPT !.ev = e] /\ Moves(w, "widen", {"create"})
    BY <1>1, <1>2, <1>4, Retaining
  <1>6. rec'.ev = e
    BY <1>1, <1>5 DEF Records
  <1>7. e.arena = job[w].arena /\ e.window = TRUE
    BY DEF Sees
  <1> HIDE DEF e
  <1>8. Same(w) /\ job[w].pc = "widen"
    BY <1>1, <1>5, MovesShape DEF Same
  <1> QED
    BY <1>6, <1>7, <1>8

(* How a request comes to write its evidence, and to make its sessions.    *)
LEMMA CreateBack ==
  ASSUME Typed, NEW w \in Worker, Works(w), job'[w].pc = "create"
  PROVE  Retain(w) \/ Widen(w)
  <1>1. TypeOK /\ w \in Agent /\ job[w] \in Jobs /\ WorkerShape(job[w])
    BY AgentKinds, JobFields DEF Typed, Shapes
  <1>2. ASSUME \/ Own(w) \/ GiveUp(w) \/ RetainIntent(w) \/ LaunchAnswered(w) \/ LaunchRefused(w)
               \/ CreateSessions(w) \/ Answered(w) \/ Keep(w) \/ Close(w) \/ Replay(w) \/ Kill(w)
        PROVE  FALSE
    <2>1. job'[w].pc # "create"
      BY <1>1, <1>2, GoesWhere DEF Goes
    <2> QED
      BY <2>1
  <1>3. ASSUME Fence(w) \/ FindStranded(w) \/ Pack(w)
        PROVE  FALSE
    BY <1>1, <1>3, SetsWhat
  <1>4. ASSUME Point(w)
        PROVE  FALSE
    BY <1>1, <1>4, PointsTo
  <1>5. ASSUME Forget(w) \/ ForgetIntent(w) \/ LaunchUncertain(w)
        PROVE  FALSE
    <2>1. \E p \in {"read", "failed"} : job'[w] = [Fresh EXCEPT !.pc = p]
      BY <1>1, <1>5, SetsWhat
    <2> QED
      BY <2>1, FreshPlan
  <1>6. ASSUME PreflightRejected(w) \/ Incomplete(w) \/ Unpoint(w)
        PROVE  FALSE
    <2>1. \E e : \E p \in {"unpoint", "keep"} : Plans(w, p, e)
      BY <1>1, <1>6, Planning
    <2> QED
      BY <1>1, <2>1, PlansShape
  <1>7. ASSUME PublishPointer(w) \/ PublishRecord(w) \/ Activate(w)
        PROVE  FALSE
    <2>1. job'[w].pc \in {"write", "activate", "done", "unpoint", "keep"}
      BY <1>1, <1>7, TurnsWhere DEF Turns, Goes
    <2> QED
      BY <2>1
  <1>8. ASSUME ReleaseSessions(w) \/ Unpack(w) \/ TerminateSession(w)
        PROVE  FALSE
    <2>1. job'[w] = Fails(w) \/ job'[w].pc \in {"unpack", "terminate", job[w].after}
      BY <1>1, <1>8, CompensatesHow DEF Goes
    <2>2. job[w].after \in {"idle", "forget", "close"}
      BY <1>1 DEF WorkerShape
    <2> QED
      BY <2>1, <2>2, FreshPlan
  <1> QED
    BY <1>2, <1>3, <1>4, <1>5, <1>6, <1>7, <1>8 DEF Works, WorkerStep, Compensate

(* Whoever's place changes in a step has made it.                          *)
LEMMA WhoMoved ==
  ASSUME Typed, Next, NEW w \in Worker
  PROVE  job'[w] = job[w] \/ Rests(w) \/ Works(w)
  BY ByWhom, AgentKinds, RestsHow, WorksHow, CancellingHow, AroundKeeps DEF OthersStay

(* What is held was held before, or by a request that goes on with its     *)
(* evidence written. *)
LEMMA HoldsHow ==
  ASSUME Typed, Next, BatchesSound, PointerSound, NEW v \in Worker, NEW a \in Arena, Holds(v, a)'
  PROVE  \/ Holds(v, a)
         \/ /\ Retain(v) \/ Widen(v)
            /\ Works(v) /\ job'[v].pc = "create" /\ job[v].arena = a /\ gs[a] = "up"
  <1>1. /\ gs'[a] = "up" /\ gs[a] \in {"none", "up", "terminated"}
        /\ \/ job'[v].pc = "create" /\ job'[v].arena = a
           \/ batch'[v].arena = a /\ batch'[v].state \in {"flying", "live"}
    BY DEF Holds, At, In, Typed, TypeOK
  <1>2. \/ gs[a] = "up"
        \/ gs[a] = "none"
    BY <1>1, SessionsHow
  <1>3. CASE batch'[v].arena = a /\ batch'[v].state \in {"flying", "live"}
    <2>1. CASE CreateSessions(v) /\ job[v].arena = a
      <3>1. job[v].pc = "create"
        BY <2>1 DEF CreateSessions, At
      <3>2. gs[a] # "none"
        BY <2>1, <3>1 DEF PointerSound, Joining
      <3> QED
        BY <1>2, <2>1, <3>1, <3>2 DEF Holds, At
    <2>2. CASE batch[v].arena = a /\ batch[v].state \in {"flying", "live"}
      <3>1. gs[a] # "none"
        BY <2>2 DEF PointerSound
      <3> QED
        BY <1>2, <2>2, <3>1 DEF Holds, In
    <2> QED
      BY <1>3, <2>1, <2>2, BatchHow
  <1>4. CASE job'[v].pc = "create" /\ job'[v].arena = a
    <2>1. CASE job'[v] = job[v]
      <3>1. gs[a] # "none"
        BY <1>4, <2>1 DEF PointerSound, Joining
      <3> QED
        BY <1>2, <1>4, <2>1, <3>1 DEF Holds, At
    <2>2. CASE Works(v)
      <3>1. Retain(v) \/ Widen(v)
        BY <1>4, <2>2, CreateBack
      <3>2. job[v].pc \in {"retain", "widen"} /\ job[v].arena = a
        BY <1>4, <3>1, WidensHow DEF Same
      <3>3. gs[a] # "none"
        BY <3>2 DEF PointerSound, Joining
      <3> QED
        BY <1>2, <1>4, <2>2, <3>1, <3>2, <3>3
    <2>3. CASE Rests(v)
      BY <1>4, <2>3, RestsHow DEF Outside
    <2> QED
      BY <2>1, <2>2, <2>3, WhoMoved
  <1> QED
    BY <1>1, <1>3, <1>4

(* A request that writes evidence, without sessions of its own.            *)
LEMMA NothingHeld ==
  ASSUME NEW w \in Worker, SoleHolder(w), Writing(w), batch[w].state = "none", job[w].pc # "create"
  PROVE  Clear
  BY DEF SoleHolder, Clear, Holds, At, In

(* The record is given up only when nothing is held any more.              *)
LEMMA RetiresClear ==
  ASSUME Typed, RecordCovers, NEW w \in Worker, SoleHolder(w), OwnCovers(w), PlanCovers(w), Retires(w),
         rec' # rec, rec.status = "allocating"
  PROVE  Clear
  <1>1. WorkerShape(job[w])
    BY DEF Typed, Shapes
  <1>2. CASE Forget(w)
    <2>1. job[w].pc = "forget"
      BY <1>2 DEF Forget, At
    <2> QED
      BY <2>1 DEF PlanCovers, Through
  <1>3. CASE ForgetIntent(w)
    <2>1. rec.ev.arena = None
      BY <1>3 DEF ForgetIntent, HasEvidence
    <2> QED
      BY <2>1, AllocationAssumption DEF RecordCovers, Covers, Clear
  <1>4. CASE Close(w)
    <2>1. job[w].pc = "close"
      BY <1>4 DEF Close, At
    <2>2. CASE job[w].after = "close"
      BY <2>1, <2>2 DEF PlanCovers, Through
    <2>3. CASE job[w].after = "idle"
      <3>1. Writing(w) /\ batch[w].state = "none"
        BY <2>1, <2>3 DEF Writing, Working, Cleaning, Outside, OwnCovers
      <3> QED
        BY <2>1, <3>1, NothingHeld
    <2> QED
      BY <1>1, <2>1, <2>2, <2>3 DEF WorkerShape, Compensating
  <1> QED
    BY <1>2, <1>3, <1>4 DEF Retires

(* A record without evidence, or without an owner, leads nowhere.          *)
LEMMA OwnsClear ==
  ASSUME RecordSound, RecordCovers, NEW w \in Worker, Own(w) \/ Fence(w)
  PROVE  Clear
  <1>1. rec.ev.arena = None
    BY DEF Own, Fence, Stranded, HasEvidence, RecordSound, RecordForm, NoRecord, NoEvidence, Sees
  <1> QED
    BY <1>1, AllocationAssumption DEF RecordCovers, Covers, Clear

(* New evidence leads to what its writer holds.                            *)
LEMMA EvidenceCovers ==
  ASSUME Typed, NEW w \in Worker, BatchSound(w), OwnCovers(w), Evidences(w), rec' # rec,
         NEW a \in Arena, Holds(w, a)
  PROVE  Covers(rec'.ev, w, a)
  <1>1. /\ TypeOK /\ w \in Agent /\ job[w] \in Jobs /\ WorkerShape(job[w]) /\ rec \in Records
        /\ batch[w] \in Batches
    BY AgentKinds, JobFields DEF Typed, TypeOK, Shapes
  <1>2. CASE Retain(w) \/ Widen(w)
    <2>1. job[w].pc \in {"retain", "widen"}
      BY <1>2 DEF Retain, Widen, At
    <2>2. batch[w].state = "none"
      BY <2>1 DEF BatchSound, Before
    <2> QED
      BY <2>1, <2>2 DEF Holds, At, In
  <1>3. CASE PublishRecord(w)
    <2>1. job[w].pc = "write" /\ rec' = [rec EXCEPT !.ev = Allocation(w)]
      BY <1>3 DEF PublishRecord, At
    <2>2. rec'.ev = Allocation(w)
      BY <1>1, <2>1 DEF Records
    <2>3. batch[w].arena = job[w].arena
      BY <2>1 DEF BatchSound, Publishing
    <2>4. a = job[w].arena
      BY <2>1, <2>3 DEF Holds, At, In
    <2>5. Allocation(w).arena = job[w].arena /\ Allocation(w).known = {w}
      BY DEF Allocation, Sees
    <2> QED
      BY <2>2, <2>4, <2>5 DEF Covers
  <1>4. CASE Unpoint(w)
    <2>1. PICK t \in BOOLEAN : rec' = Retained(w, [job[w].plan EXCEPT !.terminate = t])
      BY <1>1, <1>4, Planning
    <2> DEFINE e == [job[w].plan EXCEPT !.terminate = t]
    <2>2. rec' = [rec EXCEPT !.ev = e]
      BY <2>1 DEF Retained
    <2>3. rec'.ev = e
      BY <1>1, <2>2 DEF Records
    <2>4. e.arena = job[w].plan.arena /\ e.known = job[w].plan.known /\ e.window = job[w].plan.window
      BY <1>1 DEF Jobs, Evidence
    <2>5. job[w].pc = "unpoint" /\ job[w].after = "close"
      BY <1>1, <1>4 DEF Unpoint, At, WorkerShape, Compensating
    <2> HIDE DEF e
    <2> QED
      BY <2>3, <2>4, <2>5 DEF OwnCovers, Covers
  <1>5. CASE Keep(w)
    <2>1. rec' = [rec EXCEPT !.ev = job[w].plan]
      BY <1>5 DEF Keep, Retained
    <2>2. rec'.ev = job[w].plan
      BY <1>1, <2>1 DEF Records
    <2>3. job[w].pc = "keep" /\ job[w].after = "close"
      BY <1>1, <1>5 DEF Keep, At, WorkerShape, Compensating
    <2> QED
      BY <2>2, <2>3 DEF OwnCovers, Covers
  <1> QED
    BY <1>2, <1>3, <1>4, <1>5 DEF Evidences

(* The places from which evidence is written are those of a writer.        *)
LEMMA EvidencesWrites ==
  ASSUME Typed, NEW w \in Worker, Evidences(w)
  PROVE  Writing(w) /\ Works(w)
  <1>1. job[w].pc \in {"retain", "widen", "write", "unpoint", "keep"}
    BY DEF Evidences, Retain, Widen, PublishRecord, Unpoint, Keep, At
  <1>2. WorkerShape(job[w])
    BY DEF Typed, Shapes
  <1>3. ~FindAnswer(w)
    BY <1>1 DEF FindAnswer, At
  <1> QED
    BY <1>1, <1>2, <1>3 DEF Writing, Working, Cleaning, Outside, WorkerShape, Compensating, Works, WorkerStep, Evidences

(* The record goes on leading to whatever is held.                         *)
LEMMA RecordCoversStep ==
  ASSUME Typed, Next, RecordSound, BatchesSound, PointerSound, Covered
  PROVE  RecordCovers'
  <1>1. /\ RecordCovers /\ rec \in Records /\ TypeOK
        /\ \A w \in Worker : SoleHolder(w) /\ OwnCovers(w) /\ BatchSound(w)
        /\ rec.status = "allocating" => \A w \in Worker : PlanCovers(w)
    BY DEF Open, Covered, Typed, TypeOK, BatchesSound
  <1>2. SUFFICES ASSUME NEW v \in Worker, NEW a \in Arena, Holds(v, a)'
                 PROVE  Covers(rec'.ev, v, a)
    BY DEF RecordCovers
  <1>3. CASE Holds(v, a)
    <2>0. Covers(rec.ev, v, a) /\ ~Clear
      BY <1>1, <1>3 DEF RecordCovers, Clear
    <2>1. CASE rec' = rec
      BY <2>0, <2>1
    <2>2. CASE \E w \in Worker : (Own(w) \/ Fence(w)) /\ rec' = Owning(w)
      BY <1>1, <2>0, <2>2, OwnsClear
    <2>3. CASE \E w \in Worker : Retires(w) /\ rec.status = "allocating" /\ rec' # rec
      BY <1>1, <2>0, <2>3, RetiresClear
    <2>4. CASE \/ \E i : rec' = [rec EXCEPT !.intent = i]
               \/ rec' = [rec EXCEPT !.status = "active", !.owner = None, !.lease = "none"]
               \/ rec' = [rec EXCEPT !.status = "cancelling"]
               \/ rec' = Cancelled(rec)
               \/ rec' = [rec EXCEPT !.status = "cancelled"]
               \/ rec' = [rec EXCEPT !.lease = "expired"]
      <3>1. rec'.ev = rec.ev
        BY <1>1, <2>4 DEF Records, Cancelled
      <3> QED
        BY <2>0, <3>1
    <2>5. CASE \E w \in Worker, e \in Evidence : Evidences(w) /\ MayRetain(w) /\ rec' = [rec EXCEPT !.ev = e]
      <3>1. PICK w \in Worker, e \in Evidence : Evidences(w) /\ MayRetain(w) /\ rec' = [rec EXCEPT !.ev = e]
        BY <2>5
      <3>2. v = w
        BY <1>1, <1>3, <3>1, EvidencesWrites DEF SoleHolder
      <3> QED
        BY <1>1, <1>3, <2>0, <2>1, <3>1, <3>2, EvidenceCovers
    <2> QED
      BY <2>1, <2>2, <2>3, <2>4, <2>5, RecordHow
  <1>4. CASE (Retain(v) \/ Widen(v)) /\ Works(v) /\ job'[v].pc = "create" /\ job[v].arena = a
    BY <1>4, WidensHow DEF Covers
  <1> QED
    BY <1>2, <1>3, <1>4, HoldsHow

(* Only who takes the record over begins to write.                         *)
LEMMA WritingStarts ==
  ASSUME Typed, NEW w \in Worker, Works(w), Writing(w)', ~Writing(w)
  PROVE  Own(w) \/ Fence(w)
  <1>1. TypeOK /\ w \in Agent /\ job[w] \in Jobs /\ WorkerShape(job[w])
    BY AgentKinds, JobFields DEF Typed, Shapes
  <1>2. CASE FindStranded(w)
    BY <1>1, <1>2, SetsWhat DEF Writing, Cleaning
  <1>3. CASE Working(w)
    <2>1. job[w].after = "forget" /\ job[w].pc \in Compensating \union {"forget"}
      BY <1>1, <1>3 DEF Writing, Cleaning, WorkerShape
    <2>2. Forget(w) \/ Compensate(w)
      BY <2>1 DEF Works, WorkerStep, Compensating, FindAnswer, Own, Fence, FindStranded, Stranded, ForgetIntent, Pack,
         GiveUp, Point, RetainIntent, LaunchAnswered, LaunchRefused, LaunchUncertain, Retain, Widen, PreflightRejected,
         CreateSessions, Answered, Incomplete, PublishPointer, PublishRecord, Activate, Unpoint, Keep, Close, At
    <2>3. CASE Forget(w)
      <3>1. job'[w] = [Fresh EXCEPT !.pc = "read"]
        BY <1>1, <2>3, SetsWhat
      <3>2. job'[w].pc = "read"
        BY <3>1, FreshPlan
      <3> QED
        BY <3>2 DEF Writing, Working, Outside
    <2>4. CASE ReleaseSessions(w) \/ Unpack(w) \/ TerminateSession(w)
      <3>1. job'[w] = Fails(w) \/ job'[w].after = job[w].after
        BY <1>1, <2>4, CompensatesHow DEF Goes, Same
      <3>2. job'[w] = Fails(w) => job'[w].pc = "failed"
        BY FreshPlan
      <3> QED
        BY <2>1, <3>1, <3>2 DEF Writing, Working, Cleaning, Outside
    <2>5. CASE Replay(w) \/ Kill(w)
      BY <2>1, <2>5 DEF Replay, Kill, At, Compensating
    <2> QED
      BY <2>2, <2>3, <2>4, <2>5 DEF Compensate
  <1> QED
    BY <1>2, <1>3, WorksHow

(* While a request writes, nobody else comes to hold anything.             *)
LEMMA SoleHolderStep ==
  ASSUME Typed, Next, RecordSound, OneWorks, Titles, BatchesSound, PointerSound, ~SlowCleaner,
         RecordCovers, NEW w \in Worker, SoleHolder(w)
  PROVE  SoleHolder(w)'
  <1>1. SUFFICES ASSUME Writing(w)', NEW v \in Worker, NEW a \in Arena, Holds(v, a)', v # w
                 PROVE  FALSE
    BY DEF SoleHolder
  <1>2. CASE Works(v)
    <2>1. ~Working(w) /\ job'[w] = job[w]
      BY <1>1, <1>2, Alone
    <2> QED
      BY <1>1, <2>1 DEF Writing, Working, Cleaning
  <1>3. CASE Holds(v, a)
    <2>1. ~Writing(w)
      BY <1>1, <1>3 DEF SoleHolder
    <2>2. CASE job'[w] = job[w]
      BY <1>1, <2>1, <2>2 DEF Writing, Working, Cleaning
    <2>3. CASE Works(w)
      BY <1>1, <1>3, <2>1, <2>3, WritingStarts, OwnsClear DEF Clear
    <2>4. CASE Rests(w)
      BY <1>1, <2>4, RestsHow DEF Writing, Working
    <2> QED
      BY <2>2, <2>3, <2>4, WhoMoved
  <1> QED
    BY <1>1, <1>2, <1>3, HoldsHow

(* Where a request's compensation and its plan come from.                  *)
LEMMA PlansBack ==
  ASSUME Typed, NEW w \in Worker, Works(w), BatchSound(w), OwnCovers(w)
  PROVE  \/ job'[w].pc \notin Compensating \union {"unpoint", "keep"}
         \/ job'[w].pc = "release" /\ job'[w].after = "forget" /\ job'[w].plan = rec.ev
         \/ /\ job'[w].after = "close" /\ Writing(w) /\ job[w].pc # "create"
            /\ batch[w].state = "none" /\ batch' = batch
         \/ /\ job'[w].pc \in {"unpoint", "keep", "release"} /\ job'[w].after = "close" /\ Writing(w)
            /\ \A a \in Arena : Holds(w, a) => /\ job'[w].plan.arena = a
                                               /\ w \in job'[w].plan.known \/ job'[w].plan.window
         \/ ReleaseSessions(w) /\ Same(w)
         \/ Unpack(w) /\ Same(w) /\ job[w].pc = "unpack" /\ job'[w].pc = "terminate"
            /\ job'[w].err = job[w].err
  <1>1. /\ TypeOK /\ w \in Agent /\ job[w] \in Jobs /\ WorkerShape(job[w]) /\ rec \in Records
        /\ batch[w] \in Batches
    BY AgentKinds, JobFields DEF Typed, TypeOK, Shapes
  <1>2. ASSUME \/ Own(w) \/ GiveUp(w) \/ RetainIntent(w) \/ LaunchAnswered(w) \/ LaunchRefused(w)
               \/ CreateSessions(w) \/ Answered(w) \/ Close(w) \/ Replay(w) \/ Kill(w)
        PROVE  job'[w].pc \notin Compensating \union {"unpoint", "keep"}
    BY <1>1, <1>2, GoesWhere DEF Goes, Compensating
  <1>3. ASSUME Fence(w) \/ Pack(w) \/ Point(w)
        PROVE  job'[w].pc \notin Compensating \union {"unpoint", "keep"}
    BY <1>1, <1>3, SetsWhat, PointsTo DEF Compensating
  <1>4. ASSUME Forget(w) \/ ForgetIntent(w) \/ LaunchUncertain(w)
        PROVE  job'[w].pc \notin Compensating \union {"unpoint", "keep"}
    <2>1. \E p \in {"read", "failed"} : job'[w] = [Fresh EXCEPT !.pc = p]
      BY <1>1, <1>4, SetsWhat
    <2> QED
      BY <2>1, FreshPlan DEF Compensating
  <1>5. ASSUME FindStranded(w)
        PROVE  job'[w].pc = "release" /\ job'[w].after = "forget" /\ job'[w].plan = rec.ev
    BY <1>1, <1>5, SetsWhat
  <1>6. ASSUME Retain(w) \/ Widen(w) \/ PreflightRejected(w)
        PROVE  \/ job'[w].pc \in {"widen", "create"}
               \/ /\ job'[w].after = "close" /\ Writing(w) /\ job[w].pc # "create"
                  /\ batch[w].state = "none" /\ batch' = batch
    <2>1. job[w].pc \in {"retain", "widen"} /\ batch' = batch
      BY <1>6 DEF Retain, Widen, PreflightRejected, At
    <2>2. batch[w].state = "none"
      BY <2>1 DEF BatchSound, Before
    <2>3. Writing(w)
      BY <1>1, <2>1 DEF Writing, Working, Cleaning, Outside, WorkerShape, Compensating
    <2>4. CASE RetainRefused(w)
      <3>1. job'[w].after = "close"
        BY <1>1, <2>4, Refusing, PlansShape
      <3> QED
        BY <2>1, <2>2, <2>3, <3>1
    <2>5. CASE PreflightRejected(w)
      <3>1. job'[w].after = "close"
        BY <1>1, <2>5, Planning, PlansShape
      <3> QED
        BY <2>1, <2>2, <2>3, <3>1
    <2>6. CASE (Retain(w) \/ Widen(w)) /\ ~RetainRefused(w)
      <3>1. \/ Moves(w, "widen", {"create"})
            \/ Moves(w, "retain", {"widen"})
        BY <1>1, <2>6, Retaining
      <3> QED
        BY <1>1, <3>1, MovesShape
    <2> QED
      BY <1>6, <2>4, <2>5, <2>6
  <1> DEFINE Leading == /\ job'[w].pc \in {"unpoint", "keep", "release"} /\ job'[w].after = "close" /\ Writing(w)
                        /\ \A a \in Arena : Holds(w, a) =>
                             /\ job'[w].plan.arena = a
                             /\ w \in job'[w].plan.known \/ job'[w].plan.window
  <1>7. ASSUME Incomplete(w) \/ PublishPointer(w) \/ PublishRecord(w) \/ Activate(w)
        PROVE  job'[w].pc \in {"write", "activate", "done"} \/ Leading
    <2>1. job[w].pc \in Publishing \union {"await"}
      BY <1>7 DEF Incomplete, PublishPointer, PublishRecord, Activate, At, Publishing
    <2>2. batch[w].arena = job[w].arena
      BY <2>1 DEF BatchSound
    <2>3. \A a \in Arena : Holds(w, a) => a = job[w].arena
      BY <2>1, <2>2 DEF Holds, At, In, Publishing
    <2>4. Writing(w)
      BY <1>1, <2>1 DEF Writing, Working, Cleaning, Outside, WorkerShape, Compensating, Publishing
    <2>5. Allocation(w).arena = job[w].arena /\ Allocation(w).known = {w}
      BY DEF Allocation, Sees
    <2>6. \/ job'[w].pc \in {"write", "activate", "done"}
          \/ /\ job'[w].pc \in {"unpoint", "keep"} /\ job'[w].after = "close"
             /\ job'[w].plan.arena = job[w].arena /\ (w \in job'[w].plan.known \/ job'[w].plan.window)
      <3>1. CASE Incomplete(w)
        BY <1>1, <3>1, TurnsWhere DEF Turns
      <3>2. CASE PublishPointer(w)
        BY <1>1, <3>2, TurnsWhere DEF Turns, Goes
      <3>3. CASE PublishRecord(w)
        BY <1>1, <2>5, <3>3, TurnsWhere DEF Turns, Goes
      <3>4. CASE Activate(w)
        BY <1>1, <2>5, <3>4, TurnsWhere DEF Turns, Goes
      <3> QED
        BY <1>7, <3>1, <3>2, <3>3, <3>4
    <2> QED
      BY <2>3, <2>4, <2>6
  <1>8. ASSUME Unpoint(w)
        PROVE  Leading
    <2>1. PICK t \in BOOLEAN : Plans(w, "keep", [job[w].plan EXCEPT !.terminate = t])
      BY <1>1, <1>8, Planning
    <2> DEFINE e == [job[w].plan EXCEPT !.terminate = t]
    <2>2. job'[w].pc = "keep" /\ job'[w].plan = e /\ job'[w].after = "close"
      BY <1>1, <2>1, PlansShape
    <2>3. e.arena = job[w].plan.arena /\ e.known = job[w].plan.known /\ e.window = job[w].plan.window
      BY <1>1 DEF Jobs, Evidence
    <2>4. job[w].pc = "unpoint" /\ job[w].after = "close"
      BY <1>1, <1>8 DEF Unpoint, At, WorkerShape, Compensating
    <2>5. Writing(w)
      BY <2>4 DEF Writing, Working, Cleaning, Outside
    <2> HIDE DEF e
    <2> QED
      BY <2>2, <2>3, <2>4, <2>5 DEF OwnCovers
  <1>9. ASSUME Keep(w)
        PROVE  job'[w].pc = "done" \/ Leading
    <2>1. /\ job[w].pc = "keep" /\ job'[w].pc \in {"done", "release"} /\ Same(w)
      BY <1>1, <1>9, GoesWhere DEF Goes
    <2>2. job[w].after = "close"
      BY <1>1, <2>1 DEF WorkerShape, Compensating
    <2>3. Writing(w)
      BY <2>1, <2>2 DEF Writing, Working, Cleaning, Outside
    <2> QED
      BY <2>1, <2>2, <2>3 DEF OwnCovers, Same
  <1>10. ASSUME ReleaseSessions(w)
         PROVE  Same(w)
    BY <1>1, <1>10, CompensatesHow DEF Goes
  <1>11. ASSUME Unpack(w)
         PROVE  \/ job'[w].pc \notin Compensating \union {"unpoint", "keep"}
                \/ Same(w) /\ job[w].pc = "unpack" /\ job'[w].pc = "terminate" /\ job'[w].err = job[w].err
    <2>1. job[w].pc = "unpack" /\ job[w].after \in {"forget", "close"}
      BY <1>1, <1>11 DEF Unpack, At, WorkerShape, Compensating
    <2>2. CASE \E b \in BOOLEAN : Becomes(w, [job[w] EXCEPT !.pc = "terminate", !.emptied = b])
      <3>1. PICK b \in BOOLEAN : job'[w] = [job[w] EXCEPT !.pc = "terminate", !.emptied = b]
        BY <2>2 DEF Becomes
      <3>2. Same(w) /\ job'[w].pc = "terminate" /\ job'[w].err = job[w].err
        BY <1>1, <3>1 DEF Same, Jobs
      <3> QED
        BY <2>1, <3>2
    <2>3. CASE Concludes(w, job[w].err)
      <3>1. CASE job'[w] = Fails(w)
        BY <3>1, FreshPlan DEF Compensating
      <3>2. CASE job'[w] = [job[w] EXCEPT !.pc = job[w].after, !.err = "no"]
        <4>1. job'[w].pc = job[w].after
          BY <1>1, <3>2 DEF Jobs
        <4> QED
          BY <2>1, <4>1 DEF Compensating
      <3> QED
        BY <2>3, <3>1, <3>2 DEF Concludes
    <2> QED
      BY <1>1, <1>11, <2>2, <2>3, UnpackMoves
  <1>12. ASSUME TerminateSession(w)
         PROVE  job'[w].pc \notin Compensating \union {"unpoint", "keep"}
    <2>1. job[w].after \in {"forget", "close"}
      BY <1>1, <1>12 DEF TerminateSession, At, WorkerShape, Compensating
    <2>2. job'[w].pc = job[w].after \/ job'[w] = Fails(w)
      BY <1>1, <1>12, CompensatesHow DEF Goes
    <2> QED
      BY <2>1, <2>2, FreshPlan DEF Compensating
  <1> HIDE DEF Leading
  <1>13. \/ job'[w].pc \notin Compensating \union {"unpoint", "keep"}
         \/ job'[w].pc = "release" /\ job'[w].after = "forget" /\ job'[w].plan = rec.ev
         \/ /\ job'[w].after = "close" /\ Writing(w) /\ job[w].pc # "create"
            /\ batch[w].state = "none" /\ batch' = batch
         \/ Leading
         \/ ReleaseSessions(w) /\ Same(w)
         \/ Unpack(w) /\ Same(w) /\ job[w].pc = "unpack" /\ job'[w].pc = "terminate"
            /\ job'[w].err = job[w].err
    <2>1. {"widen", "create", "write", "activate", "done"} \intersect (Compensating \union {"unpoint", "keep"}) = {}
      BY DEF Compensating
    <2> QED
      BY <1>2, <1>3, <1>4, <1>5, <1>6, <1>7, <1>8, <1>9, <1>10, <1>11, <1>12, <2>1 DEF Works, WorkerStep, Compensate
  <1> QED
    BY <1>13 DEF Leading

(* A request that gives up has made nothing.                               *)
LEMMA CloseBack ==
  ASSUME Typed, NEW w \in Worker, Works(w), BatchSound(w), job'[w].pc = "close", job'[w].after = "idle"
  PROVE  batch[w].state = "none" /\ batch' = batch
  <1>1. TypeOK /\ w \in Agent /\ job[w] \in Jobs /\ WorkerShape(job[w])
    BY AgentKinds, JobFields DEF Typed, Shapes
  <1>2. ASSUME \/ Own(w) \/ Fence(w) \/ Pack(w) \/ Point(w) \/ LaunchAnswered(w) \/ Replay(w) \/ Kill(w)
               \/ Keep(w) \/ FindStranded(w) \/ CreateSessions(w) \/ Answered(w)
        PROVE  FALSE
    <2>1. job'[w].pc # "close"
      BY <1>1, <1>2, GoesWhere, SetsWhat, PointsTo DEF Goes
    <2> QED
      BY <2>1
  <1>3. ASSUME Forget(w) \/ ForgetIntent(w) \/ LaunchUncertain(w) \/ Close(w)
        PROVE  FALSE
    BY <1>1, <1>3, GivesUp
  <1>4. ASSUME \/ Retain(w) \/ Widen(w) \/ PreflightRejected(w) \/ Incomplete(w) \/ PublishPointer(w)
               \/ PublishRecord(w) \/ Activate(w) \/ Unpoint(w)
        PROVE  FALSE
    BY <1>1, <1>4, PcOut
  <1>5. ASSUME ReleaseSessions(w) \/ Unpack(w) \/ TerminateSession(w)
        PROVE  FALSE
    <2>1. job'[w] # Fails(w)
      BY FreshPlan
    <2>2. Same(w) /\ job[w].pc \in Compensating
      BY <1>1, <1>5, <2>1, CompensatesHow DEF Goes, Compensating
    <2> QED
      BY <1>1, <2>2 DEF Same, WorkerShape
  <1>6. CASE GiveUp(w) \/ RetainIntent(w) \/ LaunchRefused(w)
    BY <1>6 DEF GiveUp, RetainIntent, LaunchRefused, At, BatchSound, Before
  <1> QED
    BY <1>2, <1>3, <1>4, <1>5, <1>6 DEF Works, WorkerStep, Compensate

(* What a request holds, its own plan leads to.                            *)
LEMMA OwnCoversStep ==
  ASSUME Typed, Next, BatchesSound, PointerSound, NEW w \in Worker, OwnCovers(w)
  PROVE  OwnCovers(w)'
  <1>0. BatchSound(w) /\ TypeOK
    BY DEF BatchesSound, Typed
  <1>1. ASSUME job'[w].pc \in {"unpoint", "keep", "release"}, job'[w].after = "close", NEW a \in Arena, Holds(w, a)'
        PROVE  /\ job'[w].plan.arena = a
               /\ w \in job'[w].plan.known \/ job'[w].plan.window
    <2>1. Holds(w, a)
      BY <1>1, HoldsHow
    <2>2. CASE job'[w] = job[w]
      BY <1>1, <2>1, <2>2 DEF OwnCovers
    <2>3. CASE Rests(w)
      BY <1>1, <2>3, RestsHow DEF Outside
    <2>4. CASE Works(w)
      <3>1. batch[w].state # "none" \/ job[w].pc = "create"
        BY <2>1 DEF Holds, At, In
      <3>2. ~ReleaseSessions(w)
        <4>1. ReleaseSessions(w) => job'[w].pc = "unpack"
          BY <1>0, AgentKinds, CompensatesHow DEF Goes
        <4> QED
          BY <1>1, <4>1
      <3> QED
        <4>1. \/ job'[w].pc \notin Compensating \union {"unpoint", "keep"}
              \/ job'[w].after = "forget"
              \/ batch[w].state = "none" /\ job[w].pc # "create"
              \/ \A b \in Arena : Holds(w, b) => /\ job'[w].plan.arena = b
                                                 /\ w \in job'[w].plan.known \/ job'[w].plan.window
              \/ ReleaseSessions(w)
              \/ job'[w].pc = "terminate"
          BY <1>0, <2>4, PlansBack
        <4>2. /\ job'[w].pc \in Compensating \union {"unpoint", "keep"} /\ job'[w].pc # "terminate"
              /\ job'[w].after # "forget"
          BY <1>1 DEF Compensating
        <4>3. \A b \in Arena : Holds(w, b) => /\ job'[w].plan.arena = b
                                              /\ w \in job'[w].plan.known \/ job'[w].plan.window
          BY ONLY <3>1, <3>2, <4>1, <4>2
        <4> QED
          BY <2>1, <4>3
    <2> QED
      BY <2>2, <2>3, <2>4, WhoMoved
  <1>2. ASSUME job'[w].pc = "close", job'[w].after = "idle"
        PROVE  batch'[w].state = "none"
    <2>1. CASE job'[w] = job[w]
      <3>1. batch[w].state = "none" /\ job[w].pc = "close"
        BY <1>2, <2>1 DEF OwnCovers
      <3>2. ~CreateSessions(w)
        BY <3>1 DEF CreateSessions, At
      <3> QED
        BY <3>1, <3>2, BatchHow
    <2>2. CASE Rests(w)
      BY <1>2, <2>2, RestsHow DEF Outside
    <2>3. CASE Works(w)
      BY <1>0, <1>2, <2>3, CloseBack
    <2> QED
      BY <2>1, <2>2, <2>3, WhoMoved
  <1> QED
    BY <1>1, <1>2 DEF OwnCovers

(* Sessions released without an error, in an arena that stays, leave       *)
(* nothing held. *)
LEMMA ReleaseClears ==
  ASSUME Typed, BatchesSound, NEW x \in Agent, ReleaseSessions(x), Leads(x), PlanCovers(x), job'[x].err = "no",
         ~job[x].plan.terminate, NEW v \in Worker, NEW a \in Arena, Holds(v, a), Holds(v, a)'
  PROVE  FALSE
  <1> DEFINE e == job[x].plan
  <1>1. TypeOK /\ job[x] \in Jobs /\ BatchSound(v) /\ KnownIn(e)
    BY JobFields DEF Typed, BatchesSound
  <1>2. e.arena = a /\ (v \in e.known \/ e.window)
    BY DEF Leads, PlanCovers, Covers
  <1>3. PICK W \in SUBSET Targets(e), answered \in BOOLEAN :
          /\ answered => W = Targets(e)
          /\ batch' = Ends(W)
          /\ job' = [job EXCEPT ![x].pc = "unpack",
                                ![x].err = IF answered /\ ~Settling(e) THEN "no" ELSE "release"]
    BY DEF ReleaseSessions
  <1>4. answered /\ ~Settling(e) /\ job'[x].pc = "unpack" /\ (v # x => job'[v] = job[v])
    BY <1>1, <1>3, AgentKinds DEF TypeOK, Jobs
  <1>5. v \in e.known => batch[v].state \in {"live", "over"} /\ batch[v].arena = e.arena
    BY <1>1 DEF KnownIn, KnownAt
  <1>6. CASE At(v, "create") /\ job[v].arena = a
    <2>1. batch[v].state = "none"
      BY <1>1, <1>6 DEF At, BatchSound, Before
    <2>2. e.window
      BY <1>2, <1>5, <2>1
    <2> QED
      BY <1>2, <1>4, <1>6, <2>2 DEF Settling, At
  <1>7. CASE batch[v].arena = a /\ batch[v].state = "flying"
    <2>1. e.window
      BY <1>2, <1>5, <1>7
    <2> QED
      BY <1>2, <1>4, <1>7, <2>1 DEF Settling, In
  <1>8. CASE batch[v].arena = a /\ batch[v].state = "live"
    <2>1. v \in Targets(e)
      BY <1>2, <1>8 DEF Targets, In
    <2>2. batch'[v].state = "over"
      BY <1>1, <1>3, <1>4, <2>1, EndsOf
    <2>3. job'[v].pc = "create"
      BY <2>2 DEF Holds, At, In
    <2>4. job[v].pc = "create"
      BY <1>4, <2>3
    <2> QED
      BY <1>1, <1>8, <2>4 DEF BatchSound, Before
  <1> QED
    BY <1>6, <1>7, <1>8 DEF Holds, In

(* A compensation that gets through leaves nothing held.                   *)
LEMMA ConcludesClear ==
  ASSUME Typed, NEW x \in Agent, Unpack(x) \/ TerminateSession(x), Leads(x), PlanCovers(x), Through(x)',
         NEW v \in Worker, NEW a \in Arena, Holds(v, a), Holds(v, a)'
  PROVE  FALSE
  <1>1. TypeOK /\ job[x] \in Jobs
    BY JobFields DEF Typed
  <1>2. ASSUME job'[x] = Fails(x)
        PROVE  FALSE
    BY <1>2, FreshPlan DEF Through
  <1>3. job[x].plan.arena = a
    BY DEF Leads, PlanCovers, Covers
  <1>4. CASE TerminateSession(x)
    <2>1. gs'[a] = "terminated"
      BY <1>1, <1>3, <1>4 DEF TerminateSession, Terminated, TypeOK
    <2> QED
      BY <2>1 DEF Holds
  <1>5. CASE Unpack(x)
    <2>1. CASE \E b \in BOOLEAN : Becomes(x, [job[x] EXCEPT !.pc = "terminate", !.emptied = b])
      <3>1. job'[x].pc = "terminate"
        BY <1>1, <2>1 DEF Becomes, Jobs
      <3> QED
        BY <3>1 DEF Through
    <2>2. CASE ~job[x].plan.terminate /\ Concludes(x, job[x].err)
      <3>1. job[x].err = "no" /\ job[x].pc = "unpack"
        BY <1>2, <1>5, <2>2 DEF Concludes, Unpack, At
      <3> QED
        BY <2>2, <3>1 DEF PlanCovers, Clear
    <2> QED
      BY <1>1, <1>5, <2>1, <2>2, UnpackMoves
  <1> QED
    BY <1>4, <1>5

(* What the compensation of a request that moves leads to.                 *)
LEMMA WorkerLeads ==
  ASSUME Typed, BatchesSound, PointerSound, RecordCovers, EvidenceSound, NEW x \in Worker, Works(x),
         SoleHolder(x), OwnCovers(x), PlanCovers(x), OfferedSound(x),
         \A v \in Worker, a \in Arena : Holds(v, a)' => Holds(v, a) \/ job'[x].pc = "create"
  PROVE  PlanCovers(x)'
  <1>1. /\ TypeOK /\ x \in Agent /\ WorkerShape(job'[x]) /\ WorkerShape(job[x]) /\ BatchSound(x)
    BY AgentKinds, WorksHow DEF Typed, Shapes, BatchesSound
  <1>2. ASSUME Leads(x)' \/ Through(x)', NEW v \in Worker, NEW a \in Arena, Holds(v, a)'
        PROVE  Holds(v, a)
    BY <1>2 DEF Leads, Through, Compensating
  <1>3. ASSUME Leads(x)'
        PROVE  /\ \A v \in Worker, a \in Arena : Holds(v, a)' => Covers(job[x].plan, v, a)'
               /\ job'[x].pc # "release" /\ job'[x].err = "no" => job'[x].plan.terminate \/ Clear'
    <2>0. job'[x].pc \in Compensating
      BY <1>3 DEF Leads
    <2>1. CASE job'[x].pc = "release" /\ job'[x].plan = rec.ev
      BY <1>2, <1>3, <2>1 DEF RecordCovers, Covers
    <2>2. CASE Writing(x) /\ job[x].pc # "create" /\ batch[x].state = "none"
      BY <1>2, <1>3, <2>2, NothingHeld DEF Clear
    <2>3. CASE /\ job'[x].pc \in {"unpoint", "keep", "release"} /\ Writing(x)
               /\ \A a \in Arena : Holds(x, a) => /\ job'[x].plan.arena = a
                                                  /\ x \in job'[x].plan.known \/ job'[x].plan.window
      <3>1. \A v \in Worker, a \in Arena : Holds(v, a)' => Covers(job[x].plan, v, a)'
        BY <1>2, <1>3, <2>3 DEF SoleHolder, Covers
      <3> QED
        BY <2>0, <2>3, <3>1 DEF Compensating
    <2>4. CASE ReleaseSessions(x) /\ Same(x)
      <3>1. Leads(x)
        BY <2>0, <2>4 DEF Leads, ReleaseSessions, At, Same, Compensating
      <3>2. job'[x].plan = job[x].plan
        BY <2>4 DEF Same
      <3>3. \A v \in Worker, a \in Arena : Holds(v, a)' => Covers(job[x].plan, v, a)'
        BY <1>2, <1>3, <3>1, <3>2 DEF PlanCovers, Covers
      <3>4. ASSUME job'[x].err = "no", ~job'[x].plan.terminate, NEW v \in Worker, NEW a \in Arena, Holds(v, a)'
            PROVE  FALSE
        BY <1>1, <1>2, <1>3, <2>4, <3>1, <3>2, <3>4, ReleaseClears
      <3> QED
        BY <3>3, <3>4 DEF Clear
    <2>5. CASE Unpack(x) /\ Same(x) /\ job[x].pc = "unpack" /\ job'[x].err = job[x].err
      <3>1. Leads(x) /\ job'[x].plan = job[x].plan
        BY <2>0, <2>5 DEF Leads, Same, Compensating
      <3>2. \A v \in Worker, a \in Arena : Holds(v, a)' => Covers(job[x].plan, v, a)'
        BY <1>2, <1>3, <3>1 DEF PlanCovers, Covers
      <3>3. job'[x].err = "no" => job'[x].plan.terminate \/ Clear
        BY <2>5, <3>1 DEF PlanCovers
      <3> QED
        BY <1>2, <1>3, <3>2, <3>3 DEF Clear
    <2>6. job'[x].pc \in Compensating \union {"unpoint", "keep"}
      BY <2>0
    <2> QED
      BY <1>1, <2>1, <2>2, <2>3, <2>4, <2>5, <2>6, PlansBack
  <1>4. ASSUME Through(x)'
        PROVE  Clear'
    <2>1. job'[x].after \in {"forget", "close"} /\ job'[x].pc \notin {"release", "unpack", "unpoint", "keep"}
      BY <1>1, <1>4 DEF Through, WorkerShape, Compensating
    <2>2. job'[x].after = job[x].after /\ (ReleaseSessions(x) \/ Unpack(x) \/ TerminateSession(x))
      BY <1>4, <2>1, PlannedHow
    <2>3. ~ReleaseSessions(x)
      <3>1. ReleaseSessions(x) => job'[x].pc = "unpack"
        BY <1>1, CompensatesHow DEF Goes
      <3> QED
        BY <2>1, <3>1
    <2>4. Leads(x)
      BY <2>1, <2>2, <2>3 DEF Leads, Unpack, TerminateSession, At, Compensating
    <2>5. ASSUME NEW v \in Worker, NEW a \in Arena, Holds(v, a)'
          PROVE  FALSE
      BY <1>1, <1>2, <1>4, <2>2, <2>3, <2>4, <2>5, ConcludesClear
    <2> QED
      BY <2>5 DEF Clear
  <1> QED
    BY <1>3, <1>4 DEF PlanCovers

(* What a compensation leads to, whoever makes the step.                   *)
LEMMA PlanCoversStep ==
  ASSUME ~SlowCleaner, Typed, Next, RecordSound, OneWorks, Titles, BatchesSound, PointerSound,
         Names, Covered, Open, NEW x \in Worker
  PROVE  PlanCovers(x)'
  <1>1. /\ RecordCovers /\ PlanCovers(x) /\ EvidenceSound /\ SoleHolder(x) /\ OwnCovers(x) /\ OfferedSound(x)
    BY DEF Covered, Names, RequestSound
  <1>2. CASE Works(x)
    <2>1. \A v \in Worker, a \in Arena : Holds(v, a)' => Holds(v, a) \/ job'[x].pc = "create"
      <3>1. ASSUME NEW v \in Worker, NEW a \in Arena, Holds(v, a)', ~Holds(v, a)
            PROVE  job'[x].pc = "create"
        <4>1. Works(v) /\ job'[v].pc = "create" /\ (Retain(v) \/ Widen(v))
          BY <3>1, HoldsHow
        <4>2. v = x
          <5>1. job[v].pc = "widen"
            BY <4>1, WidensHow
          <5>2. Working(v)
            BY <5>1 DEF Working, Outside
          <5> QED
            BY <1>2, <5>2, Alone
        <4> QED
          BY <4>1, <4>2
      <3> QED
        BY <3>1
    <2> QED
      BY <1>1, <1>2, <2>1, WorkerLeads
  <1>3. CASE Rests(x)
    <2>1. job'[x].pc \in Outside
      BY <1>3, RestsHow
    <2> QED
      BY <2>1 DEF PlanCovers, Leads, Through, Outside, Compensating
  <1>4. CASE job'[x] = job[x]
    <2>1. (Leads(x)' <=> Leads(x)) /\ (Through(x)' <=> Through(x)) /\ (Leads(x) \/ Through(x) => Working(x))
      BY <1>4 DEF Leads, Through, Working, Outside, Compensating
    <2>2. ASSUME Working(x), NEW v \in Worker, NEW a \in Arena, Holds(v, a)'
          PROVE  Holds(v, a)
      <3>1. SUFFICES ASSUME Works(v), job'[v].pc = "create", Retain(v) \/ Widen(v)
                     PROVE  FALSE
        BY <2>2, HoldsHow
      <3>2. v # x
        BY <1>4, <3>1, WidensHow
      <3> QED
        BY <2>2, <3>1, <3>2, Alone
    <2>3. \A v \in Worker, a \in Arena : Leads(x) /\ Holds(v, a)' => Covers(job[x].plan, v, a)'
      BY <1>1, <1>4, <2>1, <2>2 DEF PlanCovers, Covers
    <2>4. (Leads(x) \/ Through(x)) /\ Clear => Clear'
      BY <2>1, <2>2 DEF Clear
    <2> QED
      BY <1>1, <1>4, <2>1, <2>3, <2>4 DEF PlanCovers
  <1> QED
    BY <1>2, <1>3, <1>4, WhoMoved

(* Covered is inductive, relative to Sound and Names.                      *)
LEMMA CoveredStep ==
  ASSUME ~SlowCleaner, Sound, Names, Covered, [Next]_vars
  PROVE  Covered'
  <1>1. CASE Next
    <2>1. Typed /\ RecordSound /\ OneWorks /\ Titles /\ BatchesSound /\ PointerSound
      BY DEF Sound
    <2>2. RecordCovers'
      BY <1>1, <2>1, RecordCoversStep
    <2>3. ASSUME NEW w \in Worker
          PROVE  (SoleHolder(w) /\ OwnCovers(w))'
      BY <1>1, <2>1, SoleHolderStep, OwnCoversStep DEF Covered
    <2>4. ASSUME Open', NEW w \in Worker
          PROVE  PlanCovers(w)'
      BY <1>1, <2>1, <2>4, OpenBack, PlanCoversStep
    <2> QED
      BY <2>2, <2>3, <2>4 DEF Covered
  <1>2. CASE UNCHANGED vars
    BY <1>2 DEF vars, Covered, RecordCovers, SoleHolder, OwnCovers, PlanCovers, Leads, Through, Clear, Covers,
       Holds, At, In, Writing, Working, Cleaning, Open
  <1> QED
    BY <1>1, <1>2

(* Initially nothing is held and nobody is at work.                        *)
LEMMA CoveredInit ==
  ASSUME Init
  PROVE  Covered
  <1>1. /\ \A x \in Agent : job[x] = Fresh
        /\ \A w \in Worker : batch[w].state = "none"
        /\ Fresh.pc = "idle" /\ Fresh.after = "idle"
    BY DEF Init, Fresh
  <1>2. Clear
    BY <1>1, AgentKinds DEF Clear, Holds, At, In
  <1>3. RecordCovers
    BY <1>2 DEF RecordCovers, Clear
  <1>4. \A w \in Worker : SoleHolder(w) /\ OwnCovers(w)
    BY <1>1, AgentKinds DEF SoleHolder, OwnCovers, Writing, Working, Outside
  <1>5. \A w \in Worker : PlanCovers(w)
    BY <1>1, AgentKinds DEF PlanCovers, Leads, Through, Compensating
  <1> QED
    BY <1>3, <1>4, <1>5 DEF Covered

(* Every player session held for the claim or still on its way, in an      *)
(* arena that runs, can be found from the claim's record, whatever its     *)
(* status: the cleanup evidence is written before GameLift is asked and is *)
(* forgotten only after a compensation that got through.                   *)
THEOREM SessionsAreNeverLost ==
  ASSUME ~SlowCleaner
  PROVE  Spec => []SessionsAreFound
  <1>1. Spec => []Sound
    BY AlwaysSound
  <1>2. Init => Names /\ Covered
    BY NamesInit, CoveredInit
  <1>3. Sound /\ Names /\ Covered /\ [Next]_vars => Names' /\ Covered'
    BY NamesStep, CoveredStep
  <1>4. Sound /\ Covered => SessionsAreFound
    <2>1. SUFFICES ASSUME Sound, Covered, NEW w \in Worker, batch[w].state \in {"flying", "live"},
                          gs[batch[w].arena] = "up"
                   PROVE  LeadsTo(rec.ev, w)
      BY DEF SessionsAreFound
    <2>2. batch[w].arena \in Arena
      BY <2>1 DEF Sound, PointerSound
    <2>3. Holds(w, batch[w].arena)
      BY <2>1, <2>2 DEF Holds, In
    <2> QED
      BY <2>1, <2>2, <2>3 DEF Covered, RecordCovers, Covers, LeadsTo
  <1> QED
    BY <1>1, <1>2, <1>3, <1>4, PTL DEF Spec
==============================================================================
