-------------------------- MODULE AllocationProofs --------------------------
(***************************************************************************)
(* For any number of requests, cancellers, arenas and launches: the types  *)
(* of the matchmaker's allocation, that a claim that is placed keeps its   *)
(* seats, and that an allocation implements ClaimLife.                     *)
(*                                                                         *)
(* None is inductive alone.  A step of one request is right only because   *)
(* of what no other does meanwhile: a record is taken over only from a     *)
(* dead owner (RecordSound), so of all requests between Begin and the end  *)
(* of their compensation one works on the allocation (OneWorks), and what  *)
(* entitles it is the lease, the evidence it works off, or an activation   *)
(* whose answer it does not know (Titles).  The evidence and the plans     *)
(* know only batches of the arena they name (BatchesSound); the pointer,   *)
(* the evidence and the game sessions agree on the arena (PointerSound);   *)
(* and the seats of a claim that is placed or may still be placed are      *)
(* reserved and packed (SeatsSound).                                       *)
(*                                                                         *)
(* The types need no assumption on who works when.  From Titles on the     *)
(* proof rests on ~SlowCleaner: the run allocation_stale_cleanup is the    *)
(* counterexample otherwise.                                               *)
(***************************************************************************)
EXTENDS AllocationProperties, TLAPS

(***************************************************************************)
(* Where a request can be, and what its locals then hold.                  *)
(***************************************************************************)

(* Not at work on the record: before it owns it, or at its end. *)
Outside == {"idle", "read", "failed", "done", "dead"}

Replaying == {"replay", "kill", "forgetIntent"}
Compensating == {"release", "unpack", "terminate"}

WorkerShape(j) ==
  /\ j.pc \notin {"mark", "pointer", "expire", "finish", "complete", "told"}
  /\ \/ /\ j.after = "idle"
        /\ j.pc \notin Compensating \union {"unpoint", "keep", "forget"}
     \/ /\ j.after = "forget"
        /\ j.pc \in Compensating \union {"forget"} /\ j.plan.arena # None /\ ~j.made
     \/ /\ j.after = "close"
        /\ j.pc \in Compensating \union {"unpoint", "keep", "close", "failed", "done"}
        /\ j.plan.arena # None /\ j.plan.arena = j.arena
  /\ j.pc \in {"idle", "read", "place"} \union Replaying => ~j.made
  /\ j.pc \in {"intent", "launch", "point", "unpoint"} => j.made
  /\ j.pc \in {"intent", "launch", "retain", "widen", "create", "await", "point", "write",
               "activate"} \union Replaying => j.arena # None

CancellerShape(j) ==
  /\ \/ j.after = "idle" /\ j.pc \in {"idle", "read", "mark", "complete", "told"}
     \/ j.after = "finish" /\ j.pc \in Compensating \union {"finish"} /\ j.plan.arena # None
     \/ j.after = "expire" /\ j.pc \in {"pointer", "unpack", "terminate", "replay", "kill", "expire"}
  /\ j.pc \in {"replay", "kill"} => j.arena # None

Shapes ==
  /\ \A w \in Worker : WorkerShape(job[w])
  /\ \A c \in Canceller : CancellerShape(job[c])

Typed == TypeOK /\ Shapes /\ (dir.status # "none" => dir.arena # None)

(***************************************************************************)
(* The ways a request moves.                                               *)
(***************************************************************************)
OthersStay(x) == \A y \in Agent : y # x => job'[y] = job[y]

(* To one of the places of P, with its locals as they are. *)
Moves(x, from, P) ==
  /\ job' \in [Agent -> Jobs] /\ OthersStay(x)
  /\ job[x].pc = from
  /\ \E p \in P : job'[x] = [job[x] EXCEPT !.pc = p]

(* To the compensation of e, from p on. *)
Plans(x, p, e) ==
  /\ job' \in [Agent -> Jobs] /\ OthersStay(x)
  /\ job'[x] = [job[x] EXCEPT !.pc = p, !.plan = e, !.after = "close"]

(* To locals j. *)
Becomes(x, j) == job' \in [Agent -> Jobs] /\ OthersStay(x) /\ job'[x] = j

(* To the end of a compensation, or to a failure. *)
Concludes(x, e) ==
  /\ job' \in [Agent -> Jobs] /\ OthersStay(x)
  /\ job'[x] = IF e = "no" THEN [job[x] EXCEPT !.pc = job[x].after, !.err = "no"] ELSE Fails(x)

(* Workers and cancellers are disjoint, and together they are the agents.  *)
LEMMA AgentKinds ==
  /\ \A w \in Worker : w \in Agent /\ w \notin Canceller
  /\ \A c \in Canceller : c \in Agent /\ c \notin Worker
  /\ \A x \in Agent : x \in Worker \/ x \in Canceller
  BY AllocationAssumption DEF Agent

(* The locals of a request that starts or ends are well typed.             *)
LEMMA FreshIsJob ==
  /\ Fresh \in Jobs /\ NoEvidence \in Evidence
  /\ \A p \in Places : [Fresh EXCEPT !.pc = p] \in Jobs
  /\ \A x \in Agent : Fails(x) \in Jobs
  <1>1. NoEvidence \in Evidence
    BY DEF NoEvidence, Sees, Evidence
  <1>2. "idle" \in Places /\ "failed" \in Places
    BY DEF Places
  <1>3. Fresh \in Jobs
    BY <1>1, <1>2 DEF Fresh, Jobs
  <1>4. \A p \in Places : [Fresh EXCEPT !.pc = p] \in Jobs
    BY <1>3 DEF Jobs
  <1> QED
    BY <1>1, <1>2, <1>3, <1>4 DEF Fails

(* An assignment of all locals of one request.                             *)
LEMMA BecomesOf ==
  ASSUME TypeOK, NEW x \in Agent, NEW j \in Jobs, job' = [job EXCEPT ![x] = j]
  PROVE  Becomes(x, j)
  BY DEF TypeOK, Becomes, OthersStay

(* An assignment of a request's place.                                     *)
LEMMA GoOf ==
  ASSUME TypeOK, NEW x \in Agent, NEW p \in Places, Go(x, p)
  PROVE  /\ job' \in [Agent -> Jobs] /\ OthersStay(x)
         /\ job'[x] = [job[x] EXCEPT !.pc = p]
  BY DEF TypeOK, Go, Jobs, OthersStay

(* What CleanUp does: the request turns to the compensation of e.          *)
LEMMA CleanUpOf ==
  ASSUME TypeOK, NEW x \in Agent, NEW p \in Places, NEW e \in Evidence, CleanUp(x, p, e)
  PROVE  Plans(x, p, e)
  <1>1. "close" \in Places
    BY DEF Places
  <1>2. job'[x] = [job[x] EXCEPT !.pc = p, !.plan = e, !.after = "close"]
    BY DEF TypeOK, CleanUp, Jobs
  <1>3. [job[x] EXCEPT !.pc = p, !.plan = e, !.after = "close"] \in Jobs
    BY <1>1 DEF TypeOK, Jobs
  <1>4. OthersStay(x)
    BY DEF TypeOK, CleanUp, OthersStay
  <1>5. job' = [job EXCEPT ![x] = job'[x]]
    BY <1>2 DEF TypeOK, CleanUp
  <1> QED
    BY <1>2, <1>3, <1>4, <1>5 DEF Plans, TypeOK

(* What Conclude does at the end of a compensation.                        *)
LEMMA ConcludeOf ==
  ASSUME TypeOK, NEW x \in Agent, NEW e, Conclude(x, e)
  PROVE  Concludes(x, e)
  <1>1. CASE e = "no"
    <2> DEFINE j == [job[x] EXCEPT !.pc = job[x].after, !.err = "no"]
    <2>1. job' = [job EXCEPT ![x] = j]
      BY <1>1 DEF Conclude
    <2>2. j \in Jobs
      BY DEF TypeOK, Jobs
    <2> HIDE DEF j
    <2>3. Becomes(x, j)
      BY <2>1, <2>2, BecomesOf
    <2> QED
      BY <1>1, <2>3 DEF Becomes, Concludes, j
  <1>2. CASE e # "no"
    <2>1. job' = [job EXCEPT ![x] = Fails(x)]
      BY <1>2 DEF Conclude
    <2> QED
      BY <1>2, <2>1, FreshIsJob, BecomesOf DEF Becomes, Concludes
  <1> QED
    BY <1>1, <1>2

(* The places, by name.                                                    *)
LEMMA PlaceNames ==
  {"idle", "read", "place", "intent", "launch", "retain", "widen", "create",
   "await", "point", "write", "activate", "unpoint", "keep", "replay", "kill",
   "forgetIntent", "release", "unpack", "terminate", "close", "forget",
   "mark", "pointer", "expire", "finish", "complete", "told", "failed", "done", "dead"} = Places
  BY DEF Places

(* Evidence written down by Sees is evidence, with the fields it names.    *)
LEMMA SeesIsEvidence ==
  \A a \in Arena \union {None}, W \in SUBSET Worker, b, t \in BOOLEAN :
    /\ Sees(a, W, b, t) \in Evidence
    /\ Sees(a, W, b, t).arena = a /\ Sees(a, W, b, t).known = W
    /\ Sees(a, W, b, t).window = b /\ Sees(a, W, b, t).terminate = t
  BY DEF Sees, Evidence

(* The types of a request's locals.                                        *)
LEMMA JobFields ==
  ASSUME TypeOK, NEW x \in Agent
  PROVE  /\ job[x] \in Jobs
         /\ job[x].pc \in Places /\ job[x].arena \in Arena \union {None} /\ job[x].made \in BOOLEAN
         /\ job[x].plan \in Evidence /\ job[x].after \in Places
         /\ job[x].plan.arena \in Arena \union {None} /\ job[x].plan.known \subseteq Worker
         /\ job[x].plan.window \in BOOLEAN /\ job[x].plan.terminate \in BOOLEAN
  BY DEF TypeOK, Jobs, Evidence

(* The types of the fields of the record and of the pointer.               *)
LEMMA RecFields ==
  ASSUME TypeOK
  PROVE  /\ rec.status \in {"none", "allocating", "active", "cancelling", "cancelled"}
         /\ rec.owner \in Worker \union {None} /\ rec.lease \in {"none", "held", "expired"}
         /\ rec.intent \in Arena \union {None} /\ rec.ev \in Evidence
         /\ rec.ev.arena \in Arena \union {None} /\ rec.ev.known \subseteq Worker
         /\ rec.ev.window \in BOOLEAN /\ rec.ev.terminate \in BOOLEAN
         /\ dir.arena \in Arena \union {None} /\ dir.creator \in Worker \union {None}
         /\ dir.packed \subseteq {"claim", "other"} /\ dir.open \in BOOLEAN
         /\ dir.status \in {"none", "creating", "active", "terminating"}
  BY DEF TypeOK, Records, Evidence, Pointers

(* The actions of a request that only move it along. *)
LEMMA Moving ==
  ASSUME TypeOK, NEW w \in Worker
  PROVE  /\ Start(w) => Moves(w, "idle", {"read"})
         /\ FindAnswer(w) => Moves(w, "read", {"done", "failed"})
         /\ Own(w) => Moves(w, "read", {"place"})
         /\ GiveUp(w) => Moves(w, "place", {"close"})
         /\ RetainIntent(w) => Moves(w, "intent", {"launch", "close"})
         /\ LaunchAnswered(w) => Moves(w, "launch", {"retain"})
         /\ LaunchRefused(w) => Moves(w, "launch", {"close"})
         /\ CreateSessions(w) => Moves(w, "create", {"await"})
         /\ Answered(w) => Moves(w, "await", {IF job[w].made THEN "point" ELSE "write"})
         /\ Keep(w) => Moves(w, "keep", {"done", "release"})
         /\ Close(w) => Moves(w, "close", {"failed"})
  <1> USE AgentKinds, PlaceNames, GoOf DEF Moves, At
  <1>1. Start(w) => Moves(w, "idle", {"read"})
    BY DEF Start
  <1>2. FindAnswer(w) => Moves(w, "read", {"done", "failed"})
    BY DEF FindAnswer
  <1>3. Own(w) => Moves(w, "read", {"place"})
    BY DEF Own, Stranded
  <1>4. GiveUp(w) => Moves(w, "place", {"close"})
    BY DEF GiveUp
  <1>5. RetainIntent(w) => Moves(w, "intent", {"launch", "close"})
    BY DEF RetainIntent
  <1>6. LaunchAnswered(w) => Moves(w, "launch", {"retain"})
    BY DEF LaunchAnswered
  <1>7. LaunchRefused(w) => Moves(w, "launch", {"close"})
    BY DEF LaunchRefused
  <1>8. CreateSessions(w) => Moves(w, "create", {"await"})
    BY DEF CreateSessions
  <1>9. Answered(w) => Moves(w, "await", {IF job[w].made THEN "point" ELSE "write"})
    BY DEF Answered
  <1>10. Keep(w) => Moves(w, "keep", {"done", "release"})
    BY DEF Keep
  <1>11. Close(w) => Moves(w, "close", {"failed"})
    BY DEF Close
  <1> QED
    BY <1>1, <1>2, <1>3, <1>4, <1>5, <1>6, <1>7, <1>8, <1>9, <1>10, <1>11

(* The actions that set locals. *)
LEMMA FenceMoves ==
  ASSUME TypeOK, NEW w \in Worker, Fence(w)
  PROVE  Becomes(w, [job[w] EXCEPT !.pc = "replay", !.arena = rec.intent])
  <1>1. job' = [job EXCEPT ![w].pc = "replay", ![w].arena = rec.intent]
    BY DEF Fence
  <1>2. job'[w] = [job[w] EXCEPT !.pc = "replay", !.arena = rec.intent]
    BY <1>1, AgentKinds DEF TypeOK, Jobs
  <1>3. job'[w] \in Jobs
    BY <1>2, AgentKinds, JobFields, RecFields, PlaceNames DEF Jobs
  <1>4. job' = [job EXCEPT ![w] = job'[w]]
    BY <1>1, <1>2, AgentKinds DEF TypeOK
  <1> QED
    BY <1>2, <1>3, <1>4, AgentKinds, BecomesOf

(* FindStranded takes the record's evidence as its plan.                   *)
LEMMA FindStrandedMoves ==
  ASSUME TypeOK, NEW w \in Worker, FindStranded(w)
  PROVE  Becomes(w, [job[w] EXCEPT !.pc = "release", !.plan = rec.ev,
                                   !.after = "forget", !.seen = rec.owner])
  <1>1. job' = [job EXCEPT ![w].pc = "release", ![w].plan = rec.ev,
                           ![w].after = "forget", ![w].seen = rec.owner]
    BY DEF FindStranded
  <1>2. job'[w] = [job[w] EXCEPT !.pc = "release", !.plan = rec.ev,
                                 !.after = "forget", !.seen = rec.owner]
    BY <1>1, AgentKinds DEF TypeOK, Jobs
  <1>3. job'[w] \in Jobs
    BY <1>2, AgentKinds, JobFields, RecFields, PlaceNames DEF Jobs
  <1>4. job' = [job EXCEPT ![w] = job'[w]]
    BY <1>1, <1>2, AgentKinds DEF TypeOK
  <1> QED
    BY <1>2, <1>3, <1>4, AgentKinds, BecomesOf

(* Pack takes the arena of the pointer.                                    *)
LEMMA PackMoves ==
  ASSUME TypeOK, NEW w \in Worker, Pack(w)
  PROVE  Becomes(w, [job[w] EXCEPT !.pc = "retain", !.arena = dir.arena])
  <1>1. job' = [job EXCEPT ![w].pc = "retain", ![w].arena = dir.arena]
    BY DEF Pack
  <1>2. job'[w] = [job[w] EXCEPT !.pc = "retain", !.arena = dir.arena]
    BY <1>1, AgentKinds DEF TypeOK, Jobs
  <1>3. job'[w] \in Jobs
    BY <1>2, AgentKinds, JobFields, RecFields, PlaceNames DEF Jobs
  <1>4. job' = [job EXCEPT ![w] = job'[w]]
    BY <1>1, <1>2, AgentKinds DEF TypeOK
  <1> QED
    BY <1>2, <1>3, <1>4, AgentKinds, BecomesOf

(* Point, with the arena it chose.                                         *)
LEMMA PointMoves ==
  ASSUME TypeOK, NEW w \in Worker, NEW a \in Arena,
         job' = [job EXCEPT ![w].pc = "intent", ![w].arena = a, ![w].made = TRUE]
  PROVE  Becomes(w, [job[w] EXCEPT !.pc = "intent", !.arena = a, !.made = TRUE])
  <1>2. job'[w] = [job[w] EXCEPT !.pc = "intent", !.arena = a, !.made = TRUE]
    BY AgentKinds DEF TypeOK, Jobs
  <1>3. job'[w] \in Jobs
    <2>1. "intent" \in Places /\ job[w] \in Jobs
      BY AgentKinds, JobFields, PlaceNames
    <2>2. PICK b \in BOOLEAN : b = TRUE
      OBVIOUS
    <2>3. [job[w] EXCEPT !.pc = "intent", !.arena = a, !.made = b] \in Jobs
      BY <2>1 DEF Jobs
    <2> QED
      BY <1>2, <2>2, <2>3
  <1>4. job' = [job EXCEPT ![w] = job'[w]]
    BY <1>2, AgentKinds DEF TypeOK
  <1> QED
    BY <1>2, <1>3, <1>4, AgentKinds, BecomesOf

(* A request that has forgotten a record reads again.                      *)
LEMMA ForgetMoves ==
  ASSUME TypeOK, NEW w \in Worker, Forget(w) \/ ForgetIntent(w)
  PROVE  Becomes(w, [Fresh EXCEPT !.pc = "read"])
  BY AgentKinds, FreshIsJob, PlaceNames, BecomesOf DEF Forget, ForgetIntent

(* A failure clears the locals.                                            *)
LEMMA FailMoves ==
  ASSUME TypeOK, NEW x \in Agent, job' = [job EXCEPT ![x] = Fails(x)]
  PROVE  Becomes(x, Fails(x))
  BY FreshIsJob, BecomesOf

(* The steps of a canceller that keep its locals.                          *)
LEMMA CancellerMoving ==
  ASSUME TypeOK, NEW c \in Canceller
  PROVE  /\ Ask(c) => Moves(c, "idle", {"read"})
         /\ Tombstone(c) => Moves(c, "read", {"complete"})
         /\ Complete(c) => Moves(c, "complete", {"told"})
  <1> USE AgentKinds, PlaceNames, GoOf DEF Moves, At
  <1>1. Ask(c) => Moves(c, "idle", {"read"})
    BY DEF Ask
  <1>2. Tombstone(c) => Moves(c, "read", {"complete"})
    BY DEF Tombstone
  <1>3. Complete(c) => Moves(c, "complete", {"told"})
    BY DEF Complete
  <1> QED
    BY <1>1, <1>2, <1>3

(* A canceller keeps what it read of the record.                           *)
LEMMA FindMoves ==
  ASSUME TypeOK, NEW c \in Canceller, NEW p \in Places, NEW q \in Places,
         job' = [job EXCEPT ![c].pc = p, ![c].plan = rec.ev, ![c].arena = SeenIntent,
                            ![c].seen = rec.owner, ![c].after = q]
  PROVE  Becomes(c, [job[c] EXCEPT !.pc = p, !.plan = rec.ev, !.arena = SeenIntent,
                                   !.seen = rec.owner, !.after = q])
  <1>1. SeenIntent \in Arena \union {None}
    BY RecFields DEF SeenIntent
  <1>2. job'[c] = [job[c] EXCEPT !.pc = p, !.plan = rec.ev, !.arena = SeenIntent,
                                 !.seen = rec.owner, !.after = q]
    BY AgentKinds DEF TypeOK, Jobs
  <1>3. job'[c] \in Jobs
    <2>1. job[c] \in Jobs /\ rec.ev \in Evidence /\ rec.owner \in Worker \union {None}
      BY AgentKinds, JobFields, RecFields
    <2> QED
      BY ONLY <1>1, <1>2, <2>1, p \in Places, q \in Places DEF Jobs
  <1>4. job' = [job EXCEPT ![c] = job'[c]]
    BY <1>2, AgentKinds DEF TypeOK
  <1> QED
    BY <1>2, <1>3, <1>4, AgentKinds, BecomesOf

(* It finds the record open or marked.                                     *)
LEMMA FindsHow ==
  ASSUME TypeOK, NEW c \in Canceller
  PROVE  /\ FindUncancelled(c) =>
              /\ OthersStay(c) /\ job' \in [Agent -> Jobs] /\ job[c].pc = "read"
              /\ job'[c].pc = "mark" /\ job'[c].after = job[c].after
              /\ job'[c].plan = rec.ev /\ job'[c].arena = SeenIntent
         /\ FindCancelling(c) =>
              /\ OthersStay(c) /\ job' \in [Agent -> Jobs] /\ job[c].pc = "read"
              /\ \/ HasEvidence /\ job'[c].pc = "release" /\ job'[c].after = "finish"
                 \/ ~HasEvidence /\ job'[c].pc = "pointer" /\ job'[c].after = "expire"
              /\ job'[c].plan = rec.ev /\ job'[c].arena = SeenIntent
  <1>1. job[c] \in Jobs /\ job[c].after \in Places
    BY AgentKinds, JobFields
  <1>2. ASSUME FindUncancelled(c)
        PROVE  /\ OthersStay(c) /\ job' \in [Agent -> Jobs] /\ job[c].pc = "read"
               /\ job'[c].pc = "mark" /\ job'[c].after = job[c].after
               /\ job'[c].plan = rec.ev /\ job'[c].arena = SeenIntent
    <2> DEFINE p == "mark"
               q == job[c].after
    <2>1. job' = [job EXCEPT ![c].pc = p, ![c].plan = rec.ev, ![c].arena = SeenIntent,
                             ![c].seen = rec.owner, ![c].after = q]
      BY <1>1, <1>2, AgentKinds DEF FindUncancelled, TypeOK, Jobs
    <2>4. p \in Places /\ q \in Places /\ p = "mark" /\ q = job[c].after
      BY <1>1, PlaceNames
    <2> HIDE DEF p, q
    <2>2. Becomes(c, [job[c] EXCEPT !.pc = p, !.plan = rec.ev, !.arena = SeenIntent,
                                    !.seen = rec.owner, !.after = q])
      BY <2>1, <2>4, FindMoves
    <2>3. job[c].pc = "read"
      BY <1>2 DEF FindUncancelled, At
    <2> QED
      BY ONLY <1>1, <2>2, <2>3, <2>4 DEF Becomes, Jobs
  <1>3. ASSUME FindCancelling(c)
        PROVE  /\ OthersStay(c) /\ job' \in [Agent -> Jobs] /\ job[c].pc = "read"
               /\ \/ HasEvidence /\ job'[c].pc = "release" /\ job'[c].after = "finish"
                  \/ ~HasEvidence /\ job'[c].pc = "pointer" /\ job'[c].after = "expire"
               /\ job'[c].plan = rec.ev /\ job'[c].arena = SeenIntent
    <2> DEFINE p == IF HasEvidence THEN "release" ELSE "pointer"
               q == IF HasEvidence THEN "finish" ELSE "expire"
    <2>1. job' = [job EXCEPT ![c].pc = p, ![c].plan = rec.ev, ![c].arena = SeenIntent,
                             ![c].seen = rec.owner, ![c].after = q]
      BY <1>3 DEF FindCancelling
    <2>2. /\ p \in Places /\ q \in Places
          /\ \/ HasEvidence /\ p = "release" /\ q = "finish"
             \/ ~HasEvidence /\ p = "pointer" /\ q = "expire"
      BY PlaceNames
    <2> HIDE DEF p, q
    <2>3. Becomes(c, [job[c] EXCEPT !.pc = p, !.plan = rec.ev, !.arena = SeenIntent,
                                    !.seen = rec.owner, !.after = q])
      BY <2>1, <2>2, FindMoves
    <2>4. job[c].pc = "read"
      BY <1>3 DEF FindCancelling, At
    <2> QED
      BY ONLY <1>1, <2>2, <2>3, <2>4 DEF Becomes, Jobs
  <1> QED
    BY <1>2, <1>3

(* It marks the record and goes on with what it read, or reads again.      *)
LEMMA MarkHow ==
  ASSUME TypeOK, NEW c \in Canceller, Mark(c) \/ MarkRefused(c)
  PROVE  /\ OthersStay(c) /\ job' \in [Agent -> Jobs] /\ job[c].pc = "mark"
         /\ \/ /\ Mark(c) /\ job[c].plan.arena # None
               /\ job'[c].pc = "release" /\ job'[c].after = "finish"
               /\ job'[c].plan = job[c].plan /\ job'[c].arena = job[c].arena
            \/ /\ Mark(c) /\ job'[c].pc = "pointer" /\ job'[c].after = "expire"
               /\ job'[c].plan = job[c].plan /\ job'[c].arena = job[c].arena
            \/ job'[c] = [Fresh EXCEPT !.pc = "read"]
  <1>1. job[c] \in Jobs /\ c \in Agent /\ job \in [Agent -> Jobs]
    BY AgentKinds, JobFields DEF TypeOK
  <1>2. job[c].pc = "mark"
    BY DEF Mark, MarkRefused, At
  <1>3. {"release", "pointer", "finish", "expire"} \subseteq Places
    BY PlaceNames
  <1>4. ASSUME NEW p \in Places, NEW q \in Places, job' = [job EXCEPT ![c].pc = p, ![c].after = q]
        PROVE  /\ OthersStay(c) /\ job' \in [Agent -> Jobs]
               /\ job'[c].pc = p /\ job'[c].after = q
               /\ job'[c].plan = job[c].plan /\ job'[c].arena = job[c].arena
    <2>1. [job[c] EXCEPT !.pc = p, !.after = q] \in Jobs
      BY <1>1 DEF Jobs
    <2>2. job' = [job EXCEPT ![c] = [job[c] EXCEPT !.pc = p, !.after = q]]
      BY <1>1, <1>4 DEF Jobs
    <2> QED
      BY ONLY <1>1, <2>1, <2>2 DEF OthersStay, Jobs
  <1>5. ASSUME job' = [job EXCEPT ![c] = [Fresh EXCEPT !.pc = "read"]]
        PROVE  /\ OthersStay(c) /\ job' \in [Agent -> Jobs] /\ job'[c] = [Fresh EXCEPT !.pc = "read"]
    BY <1>1, <1>5, FreshIsJob, PlaceNames, BecomesOf DEF Becomes
  <1>6. CASE Mark(c)
    <2>1. \/ job[c].plan.arena # None /\ job' = [job EXCEPT ![c].pc = "release", ![c].after = "finish"]
          \/ job' = [job EXCEPT ![c].pc = "pointer", ![c].after = "expire"]
          \/ job' = [job EXCEPT ![c] = [Fresh EXCEPT !.pc = "read"]]
      BY <1>6 DEF Mark
    <2> QED
      BY <1>2, <1>3, <1>4, <1>5, <1>6, <2>1
  <1>7. CASE MarkRefused(c)
    BY <1>2, <1>5, <1>7 DEF MarkRefused
  <1> QED
    BY <1>6, <1>7

(* What a cancellation that finds no evidence replays: the creation it     *)
(* read of, or else the one the pointer names.                             *)
Creation(c) == IF job[c].arena # None THEN job[c].arena
               ELSE IF dir.status = "creating" THEN dir.arena ELSE None

(* It reads the pointer.                                                   *)
LEMMA ReadPointerHow ==
  ASSUME TypeOK, NEW c \in Canceller, ReadPointer(c)
  PROVE  /\ OthersStay(c) /\ job' \in [Agent -> Jobs] /\ job[c].pc = "pointer"
         /\ job'[c].after = job[c].after /\ job'[c].arena = Creation(c)
         /\ job'[c].plan = Sees(dir.arena, {}, FALSE, FALSE)
         /\ \/ job'[c].pc = "replay" /\ Creation(c) # None
            \/ job'[c].pc = "unpack" /\ Creation(c) = None
            \/ job'[c].pc = "expire" /\ Creation(c) = None
  <1> DEFINE p == IF Creation(c) # None THEN "replay"
                  ELSE IF "claim" \in dir.packed THEN "unpack" ELSE "expire"
             e == Sees(dir.arena, {}, FALSE, FALSE)
             a == Creation(c)
  <1>1. job' = [job EXCEPT ![c].pc = p, ![c].arena = a, ![c].plan = e] /\ job[c].pc = "pointer"
    BY DEF ReadPointer, Creation, At
  <1>2. p \in Places
    BY PlaceNames
  <1>3. \/ p = "replay" /\ Creation(c) # None
        \/ p = "unpack" /\ Creation(c) = None
        \/ p = "expire" /\ Creation(c) = None
    OBVIOUS
  <1>4. e \in Evidence
    BY RecFields, SeesIsEvidence
  <1>5. a \in Arena \union {None}
    BY AgentKinds, JobFields, RecFields DEF Creation
  <1>6. job[c] \in Jobs /\ c \in Agent /\ job \in [Agent -> Jobs]
    BY AgentKinds, JobFields DEF TypeOK
  <1> HIDE DEF p, e, a
  <1>7. [job[c] EXCEPT !.pc = p, !.arena = a, !.plan = e] \in Jobs
    BY <1>2, <1>4, <1>5, <1>6 DEF Jobs
  <1>8. job' = [job EXCEPT ![c] = [job[c] EXCEPT !.pc = p, !.arena = a, !.plan = e]]
    BY <1>1, <1>6 DEF Jobs
  <1>9. /\ OthersStay(c) /\ job' \in [Agent -> Jobs] /\ job'[c].after = job[c].after
        /\ job'[c].pc = p /\ job'[c].arena = a /\ job'[c].plan = e
    BY ONLY <1>6, <1>7, <1>8 DEF OthersStay, Jobs
  <1> QED
    BY <1>1, <1>3, <1>9 DEF a, e

(* Finish ends the cancellation or reads the record again.                 *)
LEMMA FinishMoves ==
  ASSUME TypeOK, NEW c \in Canceller, Finish(c)
  PROVE  \E p \in {"complete", "read"} :
           /\ Becomes(c, [Fresh EXCEPT !.pc = p])
           /\ p = "complete" =>
                /\ rec' = [rec EXCEPT !.status = "cancelled", !.owner = None, !.lease = "none"]
                /\ rec.status = "cancelling" /\ (At(c, "expire") => ~HasEvidence)
           /\ p = "read" => rec' = rec
  BY AgentKinds, FreshIsJob, PlaceNames, BecomesOf DEF Finish, EndWhen, At

(* ReleaseSessions keeps the plan and goes on to unpack.                   *)
LEMMA ReleaseMoves ==
  ASSUME TypeOK, NEW x \in Agent, NEW e \in {"no", "release"},
         job' = [job EXCEPT ![x].pc = "unpack", ![x].err = e]
  PROVE  Becomes(x, [job[x] EXCEPT !.pc = "unpack", !.err = e])
  <1>2. job'[x] = [job[x] EXCEPT !.pc = "unpack", !.err = e]
    BY DEF TypeOK, Jobs
  <1>3. job'[x] \in Jobs
    <2>1. "unpack" \in Places /\ job[x] \in Jobs
      BY JobFields, PlaceNames
    <2>2. [job[x] EXCEPT !.pc = "unpack"] \in Jobs
      BY <2>1 DEF Jobs
    <2>3. \A j \in Jobs : [j EXCEPT !.err = e] \in Jobs
      BY DEF Jobs
    <2>4. job'[x] = [[job[x] EXCEPT !.pc = "unpack"] EXCEPT !.err = e]
      BY <1>2
    <2> QED
      BY <2>2, <2>3, <2>4
  <1>4. job' = [job EXCEPT ![x] = job'[x]]
    BY <1>2 DEF TypeOK
  <1> QED
    BY <1>2, <1>3, <1>4, BecomesOf

(* Unpack goes on to terminate the session, or concludes.                  *)
LEMMA UnpackMoves ==
  ASSUME TypeOK, NEW x \in Agent, Unpack(x)
  PROVE  \/ \E b \in BOOLEAN : Becomes(x, [job[x] EXCEPT !.pc = "terminate", !.emptied = b])
         \/ ~job[x].plan.terminate /\ Concludes(x, job[x].err)
  <1>1. CASE Conclude(x, job[x].err) /\ ~job[x].plan.terminate
    BY <1>1, ConcludeOf
  <1>2. ASSUME NEW b \in BOOLEAN, job' = [job EXCEPT ![x].pc = "terminate", ![x].emptied = b]
        PROVE  Becomes(x, [job[x] EXCEPT !.pc = "terminate", !.emptied = b])
    <2>2. job'[x] = [job[x] EXCEPT !.pc = "terminate", !.emptied = b]
      BY <1>2 DEF TypeOK, Jobs
    <2>3. job'[x] \in Jobs
      BY <2>2, JobFields, PlaceNames DEF Jobs
    <2>4. job' = [job EXCEPT ![x] = job'[x]]
      BY <1>2, <2>2 DEF TypeOK
    <2> QED
      BY <2>2, <2>3, <2>4, BecomesOf
  <1>3. \/ Conclude(x, job[x].err) /\ ~job[x].plan.terminate
        \/ \E b \in BOOLEAN : job' = [job EXCEPT ![x].pc = "terminate", ![x].emptied = b]
    BY DEF Unpack
  <1> QED
    BY <1>1, <1>2, <1>3

(* TerminateSession concludes.                                             *)
LEMMA TerminateMoves ==
  ASSUME TypeOK, NEW x \in Agent, TerminateSession(x)
  PROVE  Concludes(x, IF job[x].emptied THEN job[x].err ELSE "no")
  BY ConcludeOf DEF TerminateSession

(* The two steps of a replayed creation.                                   *)
LEMMA ReplayMoves ==
  ASSUME TypeOK, NEW x \in Agent
  PROVE  /\ Replay(x) => Moves(x, "replay", {"kill"})
         /\ Kill(x) => Moves(x, "kill", {IF x \in Worker THEN "forgetIntent" ELSE "expire"})
  <1>1. Replay(x) => Moves(x, "replay", {"kill"})
    BY PlaceNames, GoOf DEF Replay, Moves, At
  <1>2. Kill(x) => Moves(x, "kill", {IF x \in Worker THEN "forgetIntent" ELSE "expire"})
    BY PlaceNames, GoOf DEF Kill, Moves, At
  <1> QED
    BY <1>1, <1>2

(* A request that fails or dies leaves only its end.                       *)
LEMMA EndMoves ==
  ASSUME TypeOK, NEW x \in Agent
  PROVE  /\ Throws(x) => Becomes(x, Fails(x))
         /\ Die(x) => Becomes(x, IF x \in Worker THEN [Fresh EXCEPT !.pc = "dead"] ELSE Fresh)
  <1>1. Throws(x) => Becomes(x, Fails(x))
    BY FailMoves DEF Throws, KillRefused, CleanupFails
  <1>2. Die(x) => Becomes(x, IF x \in Worker THEN [Fresh EXCEPT !.pc = "dead"] ELSE Fresh)
    BY FreshIsJob, PlaceNames, BecomesOf DEF Die
  <1> QED
    BY <1>1, <1>2

(* The actions that hand over to the compensation, or would. *)
LEMMA Refusing ==
  ASSUME TypeOK, NEW w \in Worker, RetainRefused(w)
  PROVE  /\ rec' = rec /\ ~MayRetain(w)
         /\ Plans(w, IF job[w].made THEN "unpoint" ELSE "unpack",
                  Sees(job[w].arena, {}, FALSE, job[w].made))
  <1>1. Sees(job[w].arena, {}, FALSE, job[w].made) \in Evidence
    BY AgentKinds, JobFields, SeesIsEvidence
  <1>2. (IF job[w].made THEN "unpoint" ELSE "unpack") \in Places
    BY PlaceNames
  <1> QED
    BY <1>1, <1>2, AgentKinds, CleanUpOf DEF RetainRefused

(* The steps that turn to a compensation, and the evidence they plan       *)
(* with.                                                                   *)
LEMMA Planning ==
  ASSUME TypeOK, NEW w \in Worker
  PROVE  /\ PreflightRejected(w) => Plans(w, "unpoint", Sees(job[w].arena, {}, FALSE, TRUE))
         /\ Incomplete(w) => \E e \in {Sees(job[w].arena, {w}, FALSE, job[w].made),
                                       Sees(job[w].arena, {}, TRUE, job[w].made)} :
                               /\ e.window \/ batch[w].state = "live"
                               /\ Plans(w, IF job[w].made THEN "unpoint" ELSE "keep", e)
         /\ PublishPointer(w) => \/ Moves(w, "point", {"write"})
                                 \/ Plans(w, "unpoint", Sees(job[w].arena, {w}, FALSE, TRUE))
         /\ PublishRecord(w) => \/ Moves(w, "write", {"activate"}) /\ rec' = [rec EXCEPT !.ev = Allocation(w)]
                                \/ Plans(w, "keep", Allocation(w))
         /\ Activate(w) => \/ Moves(w, "activate", {"done"})
                           \/ Plans(w, "keep", Allocation(w))
         /\ Unpoint(w) => \E t \in BOOLEAN :
              /\ Plans(w, "keep", [job[w].plan EXCEPT !.terminate = t])
              /\ t \/ (dir.status = "active" /\ dir.arena = job[w].arena /\ "claim" \in dir.packed)
              /\ rec' = Retained(w, [job[w].plan EXCEPT !.terminate = t])
  <1>1. /\ w \in Agent /\ job[w].arena \in Arena \union {None} /\ job[w].made \in BOOLEAN
        /\ {w} \in SUBSET Worker /\ {} \in SUBSET Worker
        /\ {"unpoint", "keep", "write", "activate", "done"} \subseteq Places
    BY AgentKinds, JobFields, PlaceNames
  <1>2. PreflightRejected(w) => Plans(w, "unpoint", Sees(job[w].arena, {}, FALSE, TRUE))
    BY <1>1, SeesIsEvidence, CleanUpOf DEF PreflightRejected
  <1>3. Incomplete(w) => \E e \in {Sees(job[w].arena, {w}, FALSE, job[w].made),
                                   Sees(job[w].arena, {}, TRUE, job[w].made)} :
                               /\ e.window \/ batch[w].state = "live"
                               /\ Plans(w, IF job[w].made THEN "unpoint" ELSE "keep", e)
    <2>1. /\ Sees(job[w].arena, {w}, FALSE, job[w].made) \in Evidence
          /\ Sees(job[w].arena, {}, TRUE, job[w].made) \in Evidence
      BY <1>1, SeesIsEvidence
    <2>2. (IF job[w].made THEN "unpoint" ELSE "keep") \in Places
      BY <1>1
    <2> QED
      BY <1>1, <2>1, <2>2, CleanUpOf DEF Incomplete
  <1>4. PublishPointer(w) => \/ Moves(w, "point", {"write"})
                             \/ Plans(w, "unpoint", Sees(job[w].arena, {w}, FALSE, TRUE))
    <2>1. Sees(job[w].arena, {w}, FALSE, TRUE) \in Evidence
      BY <1>1, SeesIsEvidence
    <2> QED
      BY <1>1, <2>1, CleanUpOf, GoOf DEF PublishPointer, Moves, At
  <1>5. PublishRecord(w) => \/ Moves(w, "write", {"activate"}) /\ rec' = [rec EXCEPT !.ev = Allocation(w)]
                            \/ Plans(w, "keep", Allocation(w))
    <2>1. Allocation(w) \in Evidence
      BY <1>1, SeesIsEvidence DEF Allocation
    <2> QED
      BY <1>1, <2>1, CleanUpOf, GoOf DEF PublishRecord, Moves, At
  <1>6. Activate(w) => \/ Moves(w, "activate", {"done"})
                       \/ Plans(w, "keep", Allocation(w))
    <2>1. Allocation(w) \in Evidence
      BY <1>1, SeesIsEvidence DEF Allocation
    <2> QED
      BY <1>1, <2>1, CleanUpOf, GoOf DEF Activate, Moves, At
  <1>7. Unpoint(w) => \E t \in BOOLEAN :
              /\ Plans(w, "keep", [job[w].plan EXCEPT !.terminate = t])
              /\ t \/ (dir.status = "active" /\ dir.arena = job[w].arena /\ "claim" \in dir.packed)
              /\ rec' = Retained(w, [job[w].plan EXCEPT !.terminate = t])
    <2> SUFFICES ASSUME Unpoint(w)
                 PROVE  \E t \in BOOLEAN :
                          /\ Plans(w, "keep", [job[w].plan EXCEPT !.terminate = t])
                          /\ t \/ (dir.status = "active" /\ dir.arena = job[w].arena /\ "claim" \in dir.packed)
                          /\ rec' = Retained(w, [job[w].plan EXCEPT !.terminate = t])
      OBVIOUS
    <2>1. PICK t \in BOOLEAN :
            /\ t \/ (dir.status = "active" /\ dir.arena = job[w].arena /\ "claim" \in dir.packed)
            /\ CleanUp(w, "keep", [job[w].plan EXCEPT !.terminate = t])
            /\ rec' = Retained(w, [job[w].plan EXCEPT !.terminate = t])
      <3>1. PICK unread \in BOOLEAN :
              LET u == unread \/ ~(dir.status = "active" /\ dir.arena = job[w].arena /\ "claim" \in dir.packed)
              IN /\ CleanUp(w, "keep", [job[w].plan EXCEPT !.terminate = u])
                 /\ rec' = Retained(w, [job[w].plan EXCEPT !.terminate = u])
        BY AllocationAssumption DEF Unpoint
      <3>2. (unread \/ ~(dir.status = "active" /\ dir.arena = job[w].arena /\ "claim" \in dir.packed)) \in BOOLEAN
        OBVIOUS
      <3> QED
        BY <3>1, <3>2
    <2> DEFINE e == [job[w].plan EXCEPT !.terminate = t]
    <2>2. CleanUp(w, "keep", e) /\ rec' = Retained(w, e)
      BY <2>1
    <2>3. e \in Evidence
      BY <1>1, JobFields DEF Evidence
    <2> HIDE DEF e
    <2>4. Plans(w, "keep", e)
      BY <1>1, <2>2, <2>3, CleanUpOf
    <2> QED
      BY <2>1, <2>2, <2>4 DEF e
  <1> QED
    BY <1>2, <1>3, <1>4, <1>5, <1>6, <1>7

(* Retain and Widen, where the record may still be written.                *)
LEMMA Retaining ==
  ASSUME TypeOK, NEW w \in Worker
  PROVE  /\ Retain(w) => \/ RetainRefused(w)
                         \/ /\ MayRetain(w)
                            /\ rec' = [rec EXCEPT !.ev = Sees(job[w].arena, {}, FALSE, job[w].made)]
                            /\ Moves(w, "retain", {"widen"})
         /\ Widen(w) => \/ RetainRefused(w)
                        \/ /\ MayRetain(w)
                           /\ rec' = [rec EXCEPT !.ev = Sees(job[w].arena, {}, TRUE, job[w].made)]
                           /\ Moves(w, "widen", {"create"})
  <1>1. Widen(w) => \/ RetainRefused(w)
                    \/ /\ MayRetain(w)
                       /\ rec' = [rec EXCEPT !.ev = Sees(job[w].arena, {}, TRUE, job[w].made)]
                       /\ Moves(w, "widen", {"create"})
    BY AgentKinds, PlaceNames, GoOf DEF Widen, Retained, Moves, At
  <1>2. ASSUME Retain(w), ~RetainRefused(w)
        PROVE  /\ MayRetain(w)
               /\ rec' = [rec EXCEPT !.ev = Sees(job[w].arena, {}, FALSE, job[w].made)]
               /\ Moves(w, "retain", {"widen"})
    BY <1>2, AgentKinds, PlaceNames, GoOf DEF Retain, Retained, Moves, At
  <1> QED
    BY <1>1, <1>2

(***************************************************************************)
(* Types.                                                                  *)
(***************************************************************************)
LEMMA ShapesAt ==
  ASSUME Typed, NEW x \in Agent, OthersStay(x),
         x \in Worker => WorkerShape(job'[x]), x \in Canceller => CancellerShape(job'[x])
  PROVE  Shapes'
  BY AgentKinds DEF Typed, Shapes, OthersStay

(* A step that keeps the locals.                                           *)
LEMMA MovesShape ==
  ASSUME TypeOK, NEW x \in Agent, NEW from, NEW P, Moves(x, from, P)
  PROVE  /\ job'[x].pc \in P /\ job[x].pc = from
         /\ job'[x].arena = job[x].arena /\ job'[x].made = job[x].made /\ job'[x].plan = job[x].plan
         /\ job'[x].after = job[x].after /\ job'[x].seen = job[x].seen /\ job'[x].err = job[x].err
         /\ job'[x].emptied = job[x].emptied
         /\ OthersStay(x) /\ job' \in [Agent -> Jobs]
  BY DEF Moves, TypeOK, Jobs

(* A step that turns to a compensation.                                    *)
LEMMA PlansShape ==
  ASSUME TypeOK, NEW x \in Agent, NEW p, NEW e, Plans(x, p, e)
  PROVE  /\ job'[x].pc = p /\ job'[x].plan = e /\ job'[x].after = "close"
         /\ job'[x].arena = job[x].arena /\ job'[x].made = job[x].made
         /\ job'[x].seen = job[x].seen /\ job'[x].err = job[x].err
         /\ OthersStay(x) /\ job' \in [Agent -> Jobs]
  BY DEF Plans, TypeOK, Jobs

(* Steps that keep the locals of a request keep its shape.                 *)
LEMMA WorkerMovesShape ==
  ASSUME Typed, NEW w \in Worker, Start(w) \/ FindAnswer(w) \/ Own(w) \/ GiveUp(w) \/ RetainIntent(w)
           \/ LaunchAnswered(w) \/ LaunchRefused(w) \/ CreateSessions(w) \/ Answered(w) \/ Keep(w) \/ Close(w)
  PROVE  WorkerShape(job'[w]) /\ OthersStay(w) /\ job' \in [Agent -> Jobs]
  <1>1. \/ Moves(w, "idle", {"read"}) \/ Moves(w, "read", {"done", "failed"}) \/ Moves(w, "read", {"place"})
        \/ Moves(w, "place", {"close"}) \/ Moves(w, "intent", {"launch", "close"})
        \/ Moves(w, "launch", {"retain"}) \/ Moves(w, "launch", {"close"}) \/ Moves(w, "create", {"await"})
        \/ Moves(w, "await", {IF job[w].made THEN "point" ELSE "write"})
        \/ Moves(w, "keep", {"done", "release"}) \/ Moves(w, "close", {"failed"})
    BY Moving DEF Typed
  <1>2. \A from, P : Moves(w, from, P) =>
         /\ job'[w].pc \in P /\ job[w].pc = from
         /\ job'[w].arena = job[w].arena /\ job'[w].made = job[w].made /\ job'[w].plan = job[w].plan
         /\ job'[w].after = job[w].after /\ OthersStay(w) /\ job' \in [Agent -> Jobs]
    BY AgentKinds, MovesShape DEF Typed
  <1>3. WorkerShape(job[w]) /\ TypeOK
    BY DEF Typed, Shapes
  <1>4. /\ job'[w].arena = job[w].arena /\ job'[w].made = job[w].made /\ job'[w].plan = job[w].plan
        /\ job'[w].after = job[w].after /\ OthersStay(w) /\ job' \in [Agent -> Jobs]
    BY <1>1, <1>2
  <1>5. \/ job[w].pc = "idle" /\ job'[w].pc = "read"
        \/ job[w].pc = "read" /\ job'[w].pc \in {"done", "failed", "place"}
        \/ job[w].pc = "place" /\ job'[w].pc = "close"
        \/ job[w].pc = "intent" /\ job'[w].pc \in {"launch", "close"}
        \/ job[w].pc = "launch" /\ job'[w].pc \in {"retain", "close"}
        \/ job[w].pc = "create" /\ job'[w].pc = "await"
        \/ job[w].pc = "await" /\ job'[w].pc = IF job[w].made THEN "point" ELSE "write"
        \/ job[w].pc = "keep" /\ job'[w].pc \in {"done", "release"}
        \/ job[w].pc = "close" /\ job'[w].pc = "failed"
    BY <1>1, <1>2
  <1>6. job[w].made \in BOOLEAN /\ job'[w].made \in BOOLEAN
    BY <1>3, <1>4, AgentKinds, JobFields
  <1> QED
    BY ONLY <1>3, <1>4, <1>5, <1>6 DEF WorkerShape, Compensating, Replaying

(* Steps that turn to a compensation keep the shape.                       *)
LEMMA WorkerPlansShape ==
  ASSUME Typed, NEW w \in Worker,
         \/ RetainRefused(w) /\ job[w].pc \in {"retain", "widen"}
         \/ PreflightRejected(w) \/ Incomplete(w)
         \/ PublishPointer(w) \/ PublishRecord(w) \/ Activate(w) \/ Unpoint(w)
  PROVE  WorkerShape(job'[w]) /\ OthersStay(w) /\ job' \in [Agent -> Jobs]
  <1>1. \A from, P : Moves(w, from, P) =>
         /\ job'[w].pc \in P /\ job[w].pc = from
         /\ job'[w].arena = job[w].arena /\ job'[w].made = job[w].made /\ job'[w].plan = job[w].plan
         /\ job'[w].after = job[w].after /\ OthersStay(w) /\ job' \in [Agent -> Jobs]
    BY AgentKinds, MovesShape DEF Typed
  <1>2. \A p, e : Plans(w, p, e) =>
         /\ job'[w].pc = p /\ job'[w].plan = e /\ job'[w].after = "close"
         /\ job'[w].arena = job[w].arena /\ job'[w].made = job[w].made
         /\ OthersStay(w) /\ job' \in [Agent -> Jobs]
    BY AgentKinds, PlansShape DEF Typed
  <1>3. WorkerShape(job[w]) /\ TypeOK /\ job[w].made \in BOOLEAN /\ job[w].arena \in Arena \union {None}
    BY AgentKinds, JobFields DEF Typed, Shapes
  <1>4. ASSUME NEW p, NEW e, Plans(w, p, e), e.arena = job[w].arena, job[w].arena # None,
               p \in {"unpoint", "unpack", "keep"}, p = "unpoint" => job[w].made
        PROVE  WorkerShape(job'[w]) /\ OthersStay(w) /\ job' \in [Agent -> Jobs]
    BY ONLY <1>2, <1>3, <1>4 DEF WorkerShape, Compensating, Replaying
  <1>5. \A W \in SUBSET Worker, b, t \in BOOLEAN : Sees(job[w].arena, W, b, t).arena = job[w].arena
    BY <1>3, SeesIsEvidence
  <1>6. job[w].pc \in {"retain", "widen", "await", "point", "write", "activate"} => job[w].arena # None
    BY <1>3 DEF WorkerShape
  <1>7. {w} \in SUBSET Worker /\ {} \in SUBSET Worker
    OBVIOUS
  <1>8. CASE RetainRefused(w) /\ job[w].pc \in {"retain", "widen"}
    <2>1. Plans(w, IF job[w].made THEN "unpoint" ELSE "unpack", Sees(job[w].arena, {}, FALSE, job[w].made))
      BY <1>3, <1>8, Refusing
    <2>2. Sees(job[w].arena, {}, FALSE, job[w].made).arena = job[w].arena
      BY <1>3, <1>5, <1>7
    <2>3. CASE job[w].made
      BY <1>4, <1>6, <1>8, <2>1, <2>2, <2>3
    <2>4. CASE ~job[w].made
      BY <1>4, <1>6, <1>8, <2>1, <2>2, <2>4
    <2> QED
      BY <2>3, <2>4
  <1>9. CASE PreflightRejected(w)
    <2>1. At(w, "widen") /\ job[w].made /\ Plans(w, "unpoint", Sees(job[w].arena, {}, FALSE, TRUE))
      BY <1>3, <1>9, Planning DEF PreflightRejected
    <2> QED
      BY <1>4, <1>5, <1>6, <1>7, <2>1 DEF At
  <1>10. CASE Incomplete(w)
    <2>1. At(w, "await")
      BY <1>10 DEF Incomplete
    <2>2. PICK e : /\ e \in {Sees(job[w].arena, {w}, FALSE, job[w].made),
                             Sees(job[w].arena, {}, TRUE, job[w].made)}
                   /\ Plans(w, IF job[w].made THEN "unpoint" ELSE "keep", e)
      BY <1>3, <1>10, Planning
    <2>3. e.arena = job[w].arena
      <3>1. /\ Sees(job[w].arena, {w}, FALSE, job[w].made).arena = job[w].arena
            /\ Sees(job[w].arena, {}, TRUE, job[w].made).arena = job[w].arena
        BY <1>3, <1>5, <1>7
      <3> QED
        BY <2>2, <3>1
    <2> QED
      BY <1>4, <1>6, <2>1, <2>2, <2>3 DEF At
  <1>11. CASE PublishPointer(w)
    <2>1. CASE Moves(w, "point", {"write"})
      BY ONLY <1>1, <1>3, <2>1 DEF WorkerShape, Compensating, Replaying
    <2>2. CASE Plans(w, "unpoint", Sees(job[w].arena, {w}, FALSE, TRUE))
      <3>1. At(w, "point") /\ job[w].made
        BY <1>3, <1>11 DEF PublishPointer, At, WorkerShape
      <3> QED
        BY <1>4, <1>5, <1>6, <1>7, <2>2, <3>1 DEF At
    <2> QED
      BY <1>3, <1>11, <2>1, <2>2, Planning
  <1>12. CASE PublishRecord(w)
    <2>1. CASE Moves(w, "write", {"activate"})
      BY ONLY <1>1, <1>3, <2>1 DEF WorkerShape, Compensating, Replaying
    <2>2. CASE Plans(w, "keep", Allocation(w))
      <3>1. At(w, "write")
        BY <1>12 DEF PublishRecord
      <3> QED
        BY <1>4, <1>5, <1>6, <1>7, <2>2, <3>1 DEF At, Allocation
    <2> QED
      BY <1>3, <1>12, <2>1, <2>2, Planning
  <1>13. CASE Activate(w)
    <2>1. CASE Moves(w, "activate", {"done"})
      BY ONLY <1>1, <1>3, <2>1 DEF WorkerShape, Compensating, Replaying
    <2>2. CASE Plans(w, "keep", Allocation(w))
      <3>1. At(w, "activate")
        BY <1>13 DEF Activate
      <3> QED
        BY <1>4, <1>5, <1>6, <1>7, <2>2, <3>1 DEF At, Allocation
    <2> QED
      BY <1>3, <1>13, <2>1, <2>2, Planning
  <1>14. CASE Unpoint(w)
    <2>1. PICK t \in BOOLEAN : Plans(w, "keep", [job[w].plan EXCEPT !.terminate = t])
      BY <1>3, <1>14, Planning
    <2>2. job[w].plan.arena = job[w].arena /\ job[w].arena # None
      BY <1>3, <1>14 DEF Unpoint, At, WorkerShape, Compensating
    <2>3. [job[w].plan EXCEPT !.terminate = t].arena = job[w].arena
      BY <2>2, <1>3, AgentKinds, JobFields DEF Evidence
    <2> QED
      BY <1>4, <2>1, <2>2, <2>3
  <1> QED
    BY <1>8, <1>9, <1>10, <1>11, <1>12, <1>13, <1>14

(* A request that has ended has its shape.                                 *)
LEMMA FailedShapes ==
  /\ \A p \in {"read", "failed", "dead"} : WorkerShape([Fresh EXCEPT !.pc = p])
  /\ CancellerShape(Fresh)
  /\ \A p \in {"complete", "read"} : CancellerShape([Fresh EXCEPT !.pc = p])
  /\ \A w \in Worker : WorkerShape(Fails(w))
  /\ \A c \in Canceller : CancellerShape(Fails(c))
  <1>1. \A p \in {"read", "failed", "dead"} : WorkerShape([Fresh EXCEPT !.pc = p])
    BY DEF Fresh, WorkerShape, Compensating, Replaying
  <1>2. CancellerShape(Fresh)
    BY DEF Fresh, CancellerShape, Compensating
  <1>3. \A p \in {"complete", "read"} : CancellerShape([Fresh EXCEPT !.pc = p])
    BY DEF Fresh, CancellerShape, Compensating
  <1> QED
    BY <1>1, <1>2, <1>3, AgentKinds DEF Fails

(* Steps that assign locals keep the shape.                                *)
LEMMA WorkerSetsShape ==
  ASSUME Typed, NEW w \in Worker, Fence(w) \/ FindStranded(w) \/ Forget(w) \/ ForgetIntent(w)
           \/ Pack(w) \/ Point(w) \/ LaunchUncertain(w) \/ Retain(w) \/ Widen(w)
  PROVE  WorkerShape(job'[w]) /\ OthersStay(w) /\ job' \in [Agent -> Jobs]
  <1>3. WorkerShape(job[w]) /\ TypeOK /\ job[w] \in Jobs
    BY AgentKinds, JobFields DEF Typed, Shapes
  <1>8. CASE Fence(w)
    <2>1. Becomes(w, [job[w] EXCEPT !.pc = "replay", !.arena = rec.intent]) /\ rec.intent # None /\ At(w, "read")
      BY <1>3, <1>8, FenceMoves DEF Fence, Stranded
    <2> QED
      BY ONLY <1>3, <2>1 DEF Becomes, At, WorkerShape, Jobs, Compensating, Replaying
  <1>9. CASE FindStranded(w)
    <2>1. /\ Becomes(w, [job[w] EXCEPT !.pc = "release", !.plan = rec.ev, !.after = "forget", !.seen = rec.owner])
          /\ rec.ev.arena # None /\ At(w, "read")
      BY <1>3, <1>9, FindStrandedMoves DEF FindStranded, Stranded, HasEvidence
    <2> QED
      BY ONLY <1>3, <2>1 DEF Becomes, At, WorkerShape, Jobs, Compensating, Replaying
  <1>10. CASE Forget(w) \/ ForgetIntent(w)
    BY <1>3, <1>10, ForgetMoves, FailedShapes DEF Becomes
  <1>11. CASE Pack(w)
    <2>1. /\ Becomes(w, [job[w] EXCEPT !.pc = "retain", !.arena = dir.arena])
          /\ dir.arena # None /\ At(w, "place")
      BY <1>3, <1>11, PackMoves DEF Pack, Available, Typed
    <2> QED
      BY ONLY <1>3, <2>1 DEF Becomes, At, WorkerShape, Jobs, Compensating, Replaying
  <1>12. CASE Point(w)
    <2>1. PICK a \in Arena : job' = [job EXCEPT ![w].pc = "intent", ![w].arena = a, ![w].made = TRUE]
      BY <1>12 DEF Point
    <2>2. Becomes(w, [job[w] EXCEPT !.pc = "intent", !.arena = a, !.made = TRUE]) /\ a # None /\ At(w, "place")
      BY <1>3, <1>12, <2>1, PointMoves, AllocationAssumption DEF Point
    <2> QED
      BY ONLY <1>3, <2>2 DEF Becomes, At, WorkerShape, Jobs, Compensating, Replaying
  <1>13. CASE LaunchUncertain(w)
    BY <1>3, <1>13, AgentKinds, FailMoves, FailedShapes DEF Becomes, LaunchUncertain
  <1>14. CASE Retain(w) \/ Widen(w)
    <2>1. CASE RetainRefused(w)
      BY <1>14, <2>1, WorkerPlansShape DEF Retain, Widen, At
    <2>2. CASE ~RetainRefused(w)
      <3>1. \/ Moves(w, "widen", {"create"})
            \/ Moves(w, "retain", {"widen"})
        BY <1>3, <1>14, <2>2, Retaining
      <3>2. \A from, P : Moves(w, from, P) =>
              /\ job'[w].pc \in P /\ job[w].pc = from
              /\ job'[w].arena = job[w].arena /\ job'[w].made = job[w].made /\ job'[w].plan = job[w].plan
              /\ job'[w].after = job[w].after /\ OthersStay(w) /\ job' \in [Agent -> Jobs]
        BY <1>3, AgentKinds, MovesShape
      <3>3. /\ job'[w].pc \in {"create", "widen"} /\ job[w].pc \in {"widen", "retain"}
            /\ job'[w].arena = job[w].arena /\ job'[w].made = job[w].made /\ job'[w].plan = job[w].plan
            /\ job'[w].after = job[w].after /\ OthersStay(w) /\ job' \in [Agent -> Jobs]
        BY <3>1, <3>2
      <3> QED
        BY ONLY <1>3, <3>3 DEF WorkerShape, Compensating, Replaying
    <2> QED
      BY <2>1, <2>2
  <1> QED
    BY <1>8, <1>9, <1>10, <1>11, <1>12, <1>13, <1>14

Shaped(x) ==
  IF x \in Worker THEN WorkerShape(job[x]) ELSE CancellerShape(job[x])

(* The end of a compensation keeps the shape.                              *)
LEMMA ConcludesShape ==
  ASSUME Typed, NEW x \in Agent, NEW e, Concludes(x, e), job[x].pc \in {"unpack", "terminate"}
  PROVE  Shaped(x)' /\ OthersStay(x) /\ job' \in [Agent -> Jobs]
  <1>1. OthersStay(x) /\ job' \in [Agent -> Jobs]
    BY DEF Concludes
  <1>2. CASE e # "no"
    BY <1>1, <1>2, AgentKinds, FailedShapes DEF Concludes, Shaped
  <1>3. CASE e = "no"
    <2>1. job'[x] = [job[x] EXCEPT !.pc = job[x].after, !.err = "no"] /\ job[x] \in Jobs
      BY <1>3, JobFields DEF Concludes, Typed
    <2>2. CASE x \in Worker
      <3>1. WorkerShape(job[x])
        BY <2>2 DEF Typed, Shapes
      <3>2. WorkerShape(job'[x])
        BY ONLY <2>1, <3>1, job[x].pc \in {"unpack", "terminate"} DEF WorkerShape, Jobs, Compensating, Replaying
      <3> QED
        BY <1>1, <2>2, <3>2 DEF Shaped
    <2>3. CASE x \in Canceller
      <3>1. CancellerShape(job[x])
        BY <2>3 DEF Typed, Shapes
      <3>2. CancellerShape(job'[x])
        BY ONLY <2>1, <3>1, job[x].pc \in {"unpack", "terminate"} DEF CancellerShape, Jobs, Compensating
      <3> QED
        BY <1>1, <2>3, <3>2, AgentKinds DEF Shaped
    <2> QED
      BY <2>2, <2>3, AgentKinds
  <1> QED
    BY <1>2, <1>3

(* Compensations keep the shape.                                           *)
LEMMA CompensationShape ==
  ASSUME Typed, NEW x \in Agent, Compensate(x) \/ Throws(x) \/ Die(x)
  PROVE  Shaped(x)' /\ OthersStay(x) /\ job' \in [Agent -> Jobs]
  <1>1. TypeOK /\ job[x] \in Jobs
    BY JobFields DEF Typed
  <1>2. (x \in Worker => WorkerShape(job[x])) /\ (x \in Canceller => CancellerShape(job[x]))
    BY DEF Typed, Shapes
  <1>3. ASSUME x \in Worker => WorkerShape(job'[x]), x \in Canceller => CancellerShape(job'[x])
        PROVE  Shaped(x)'
    BY <1>3, AgentKinds DEF Shaped
  <1>4. CASE ReleaseSessions(x)
    <2>1. PICK e \in {"no", "release"} : job' = [job EXCEPT ![x].pc = "unpack", ![x].err = e]
      BY <1>4 DEF ReleaseSessions
    <2>2. Becomes(x, [job[x] EXCEPT !.pc = "unpack", !.err = e]) /\ job[x].pc = "release"
      BY <1>1, <1>4, <2>1, ReleaseMoves DEF ReleaseSessions, At
    <2>3. x \in Worker => WorkerShape(job'[x])
      BY ONLY <1>1, <1>2, <2>2 DEF Becomes, WorkerShape, Jobs, Compensating, Replaying
    <2>4. x \in Canceller => CancellerShape(job'[x])
      BY ONLY <1>1, <1>2, <2>2 DEF Becomes, CancellerShape, Jobs, Compensating
    <2> QED
      BY <1>3, <2>2, <2>3, <2>4 DEF Becomes
  <1>5. CASE Unpack(x)
    <2>1. ASSUME NEW b \in BOOLEAN, Becomes(x, [job[x] EXCEPT !.pc = "terminate", !.emptied = b])
          PROVE  Shaped(x)'
      <3>1. job[x].pc = "unpack"
        BY <1>5 DEF Unpack, At
      <3>3. x \in Worker => WorkerShape(job'[x])
        BY ONLY <1>1, <1>2, <2>1, <3>1 DEF Becomes, WorkerShape, Jobs, Compensating, Replaying
      <3>4. x \in Canceller => CancellerShape(job'[x])
        BY ONLY <1>1, <1>2, <2>1, <3>1 DEF Becomes, CancellerShape, Jobs, Compensating
      <3> QED
        BY <1>3, <3>3, <3>4
    <2>2. CASE Concludes(x, job[x].err)
      BY <1>5, <2>2, ConcludesShape DEF Unpack, At
    <2> QED
      BY <1>1, <1>5, <2>1, <2>2, UnpackMoves DEF Becomes
  <1>6. CASE TerminateSession(x)
    BY <1>1, <1>6, TerminateMoves, ConcludesShape DEF TerminateSession, At
  <1>7. CASE Replay(x) \/ Kill(x)
    <2>1. \/ Moves(x, "replay", {"kill"})
          \/ Moves(x, "kill", {IF x \in Worker THEN "forgetIntent" ELSE "expire"})
      BY <1>1, <1>7, ReplayMoves
    <2>2. \A from, P : Moves(x, from, P) =>
           /\ job'[x].pc \in P /\ job[x].pc = from
           /\ job'[x].arena = job[x].arena /\ job'[x].made = job[x].made /\ job'[x].plan = job[x].plan
           /\ job'[x].after = job[x].after /\ OthersStay(x) /\ job' \in [Agent -> Jobs]
      BY <1>1, MovesShape
    <2>3. /\ \/ job[x].pc = "replay" /\ job'[x].pc = "kill"
             \/ job[x].pc = "kill" /\ job'[x].pc = IF x \in Worker THEN "forgetIntent" ELSE "expire"
          /\ job'[x].arena = job[x].arena /\ job'[x].made = job[x].made /\ job'[x].plan = job[x].plan
          /\ job'[x].after = job[x].after /\ OthersStay(x) /\ job' \in [Agent -> Jobs]
      BY <2>1, <2>2
    <2>4. x \in Worker => WorkerShape(job'[x])
      BY ONLY <1>1, <1>2, <2>3 DEF WorkerShape, Jobs, Compensating, Replaying
    <2>5. x \in Canceller => CancellerShape(job'[x])
      BY ONLY <1>1, <1>2, <2>3, AgentKinds DEF CancellerShape, Jobs, Compensating
    <2> QED
      BY <1>3, <2>3, <2>4, <2>5
  <1>8. CASE Throws(x) \/ Die(x)
    BY <1>1, <1>3, <1>8, AgentKinds, EndMoves, FailedShapes DEF Becomes
  <1> QED
    BY <1>4, <1>5, <1>6, <1>7, <1>8 DEF Compensate

(* Steps of a canceller keep its shape.                                    *)
LEMMA CancellerStepShape ==
  ASSUME Typed, NEW c \in Canceller, CancellerStep(c)
  PROVE  CancellerShape(job'[c]) /\ OthersStay(c) /\ job' \in [Agent -> Jobs]
  <1>1. TypeOK /\ job[c] \in Jobs /\ CancellerShape(job[c])
    BY AgentKinds, JobFields DEF Typed, Shapes
  <1>2. CASE Ask(c) \/ Tombstone(c) \/ Complete(c)
    <2>1. Moves(c, "idle", {"read"}) \/ Moves(c, "read", {"complete"}) \/ Moves(c, "complete", {"told"})
      BY <1>1, <1>2, CancellerMoving
    <2>2. \A from, P : Moves(c, from, P) =>
           /\ job'[c].pc \in P /\ job[c].pc = from /\ job'[c].arena = job[c].arena
           /\ job'[c].plan = job[c].plan
           /\ job'[c].after = job[c].after /\ OthersStay(c) /\ job' \in [Agent -> Jobs]
      BY <1>1, AgentKinds, MovesShape
    <2>3. /\ \/ job[c].pc = "idle" /\ job'[c].pc = "read"
             \/ job[c].pc = "read" /\ job'[c].pc = "complete"
             \/ job[c].pc = "complete" /\ job'[c].pc = "told"
          /\ job'[c].plan = job[c].plan
          /\ job'[c].after = job[c].after /\ OthersStay(c) /\ job' \in [Agent -> Jobs]
      BY <2>1, <2>2
    <2> QED
      BY ONLY <1>1, <2>3 DEF CancellerShape, Compensating
  <1>3. CASE FindUncancelled(c) \/ FindCancelling(c)
    <2>1. /\ OthersStay(c) /\ job' \in [Agent -> Jobs] /\ job[c].pc = "read" /\ job'[c].plan = rec.ev
          /\ \/ job'[c].pc = "mark" /\ job'[c].after = job[c].after
             \/ rec.ev.arena # None /\ job'[c].pc = "release" /\ job'[c].after = "finish"
             \/ job'[c].pc = "pointer" /\ job'[c].after = "expire"
      BY <1>1, <1>3, FindsHow DEF HasEvidence
    <2> QED
      BY ONLY <1>1, <2>1 DEF CancellerShape, Compensating
  <1>4. CASE Mark(c) \/ MarkRefused(c)
    <2>1. /\ OthersStay(c) /\ job' \in [Agent -> Jobs]
          /\ \/ /\ job[c].plan.arena # None /\ job'[c].plan = job[c].plan
                /\ job'[c].pc = "release" /\ job'[c].after = "finish"
             \/ job'[c].pc = "pointer" /\ job'[c].after = "expire"
             \/ CancellerShape(job'[c])
      BY <1>1, <1>4, MarkHow, FailedShapes
    <2> QED
      BY ONLY <2>1 DEF CancellerShape, Compensating
  <1>5. CASE ReadPointer(c)
    <2>1. /\ OthersStay(c) /\ job' \in [Agent -> Jobs] /\ job[c].pc = "pointer"
          /\ job'[c].after = job[c].after
          /\ \/ job'[c].pc = "replay" /\ job'[c].arena # None
             \/ job'[c].pc \in {"unpack", "expire"}
      BY <1>1, <1>5, ReadPointerHow
    <2> QED
      BY ONLY <1>1, <2>1 DEF CancellerShape, Compensating
  <1>6. CASE Finish(c)
    BY <1>1, <1>6, FinishMoves, FailedShapes DEF Becomes
  <1> QED
    BY <1>2, <1>3, <1>4, <1>5, <1>6 DEF CancellerStep

(* A canceller only looks. *)
Looks(c) == FindUncancelled(c) \/ FindCancelling(c) \/ MarkRefused(c) \/ ReadPointer(c)

(* The requests' steps by what they write besides their own locals. *)
LEMMA RecordKept ==
  /\ \A w \in Worker : Start(w) \/ FindAnswer(w) \/ FindStranded(w) \/ Pack(w) \/ RemovePointer(w) \/ GiveUp(w)
       \/ Point(w) \/ LaunchAnswered(w) \/ LaunchRefused(w) \/ LaunchUncertain(w) \/ PreflightRejected(w)
       \/ CreateSessions(w) \/ GameLiftReserves(w) \/ Answered(w) \/ Incomplete(w) \/ PublishPointer(w) => rec' = rec
  /\ \A c \in Canceller : Ask(c) \/ Looks(c) \/ Complete(c) => rec' = rec
  /\ \A x \in Agent : Compensate(x) \/ Throws(x) \/ Die(x) => rec' = rec
  /\ PointerAges \/ ArenaReopens \/ OtherJoins \/ OtherLeaves => rec' = rec
  <1>1. \A w \in Worker : Start(w) \/ FindAnswer(w) \/ FindStranded(w) \/ Pack(w) \/ RemovePointer(w) \/ GiveUp(w)
       \/ Point(w) \/ LaunchAnswered(w) \/ LaunchRefused(w) \/ LaunchUncertain(w) \/ PreflightRejected(w)
       \/ CreateSessions(w) \/ GameLiftReserves(w) \/ Answered(w) \/ Incomplete(w) \/ PublishPointer(w) => rec' = rec
    BY DEF Start, FindAnswer, FindStranded, Pack, RemovePointer, GiveUp, Point, LaunchAnswered, LaunchRefused,
           LaunchUncertain, PreflightRejected, CreateSessions, GameLiftReserves, Answered, Incomplete, PublishPointer
  <1>2. \A c \in Canceller : Ask(c) \/ Looks(c) \/ Complete(c) => rec' = rec
    BY DEF Ask, Looks, FindUncancelled, FindCancelling, MarkRefused, ReadPointer, Complete
  <1>3. \A x \in Agent : Compensate(x) \/ Throws(x) \/ Die(x) => rec' = rec
    BY DEF Compensate, ReleaseSessions, Unpack, TerminateSession, Replay, Kill, Throws, KillRefused, CleanupFails, Die
  <1>4. PointerAges \/ ArenaReopens \/ OtherJoins \/ OtherLeaves => rec' = rec
    BY DEF PointerAges, ArenaReopens, OtherJoins, OtherLeaves
  <1> QED
    BY <1>1, <1>2, <1>3, <1>4

(* The steps that leave the pointer alone.                                 *)
LEMMA PointerKept ==
  /\ \A w \in Worker : Start(w) \/ FindAnswer(w) \/ Own(w) \/ Fence(w) \/ FindStranded(w) \/ Forget(w) \/ ForgetIntent(w)
       \/ GiveUp(w) \/ LaunchAnswered(w) \/ LaunchUncertain(w) \/ Retain(w) \/ Widen(w) \/ PreflightRejected(w)
       \/ CreateSessions(w) \/ GameLiftReserves(w) \/ Answered(w) \/ Incomplete(w) \/ PublishRecord(w) \/ Activate(w)
       \/ Keep(w) \/ Close(w) => dir' = dir
  /\ \A c \in Canceller : CancellerStep(c) => dir' = dir
  /\ \A x \in Agent : ReleaseSessions(x) \/ TerminateSession(x) \/ Replay(x) \/ Throws(x) \/ Die(x) => dir' = dir
  /\ LeaseExpires => dir' = dir
  <1>1. \A w \in Worker : Start(w) \/ FindAnswer(w) \/ Own(w) \/ Fence(w) \/ FindStranded(w) \/ Forget(w) \/ ForgetIntent(w)
       \/ GiveUp(w) \/ LaunchAnswered(w) \/ LaunchUncertain(w) \/ Retain(w) \/ Widen(w) \/ PreflightRejected(w)
       \/ CreateSessions(w) \/ GameLiftReserves(w) \/ Answered(w) \/ Incomplete(w) \/ PublishRecord(w) \/ Activate(w)
       \/ Keep(w) \/ Close(w) => dir' = dir
    BY DEF Start, FindAnswer, Own, Fence, FindStranded, Forget, ForgetIntent, GiveUp, LaunchAnswered, LaunchUncertain,
           Retain, Widen, PreflightRejected, CreateSessions, GameLiftReserves, Answered, Incomplete, PublishRecord,
           Activate, Keep, Close
  <1>2. \A c \in Canceller : CancellerStep(c) => dir' = dir
    BY DEF CancellerStep, Ask, Tombstone, FindUncancelled, Mark, MarkRefused, FindCancelling,
             ReadPointer, Finish, EndWhen, Complete
  <1>3. \A x \in Agent : ReleaseSessions(x) \/ TerminateSession(x) \/ Replay(x) \/ Throws(x) \/ Die(x) => dir' = dir
    BY DEF ReleaseSessions, TerminateSession, Replay, Throws, KillRefused, CleanupFails, Die
  <1>4. LeaseExpires => dir' = dir
    BY DEF LeaseExpires
  <1> QED
    BY <1>1, <1>2, <1>3, <1>4

(* The steps that leave the game sessions alone.                           *)
LEMMA SessionsKept ==
  /\ \A w \in Worker : Start(w) \/ (WorkerStep(w) /\ ~LaunchAnswered(w) /\ ~LaunchRefused(w) /\ ~LaunchUncertain(w))
       \/ RemovePointer(w) \/ GameLiftReserves(w) => gs' = gs
  /\ \A c \in Canceller : CancellerStep(c) => gs' = gs
  /\ \A x \in Agent : ReleaseSessions(x) \/ Unpack(x) \/ Throws(x) \/ Die(x) => gs' = gs
  /\ LeaseExpires \/ PointerAges \/ ArenaReopens \/ OtherJoins => gs' = gs
  <1>1. \A w \in Worker : Start(w) \/ (WorkerStep(w) /\ ~LaunchAnswered(w) /\ ~LaunchRefused(w) /\ ~LaunchUncertain(w))
       \/ RemovePointer(w) \/ GameLiftReserves(w) => gs' = gs
    <2> TAKE w \in Worker
    <2>1. Start(w) \/ RemovePointer(w) \/ GameLiftReserves(w) => gs' = gs
      BY DEF Start, RemovePointer, GameLiftReserves
    <2>2. FindAnswer(w) \/ Own(w) \/ Fence(w) \/ FindStranded(w) \/ Forget(w) \/ ForgetIntent(w) => gs' = gs
      BY DEF FindAnswer, Own, Fence, FindStranded, Forget, ForgetIntent
    <2>3. Pack(w) \/ GiveUp(w) \/ Point(w) \/ RetainIntent(w) \/ Retain(w) \/ Widen(w) => gs' = gs
      BY DEF Pack, GiveUp, Point, RetainIntent, Retain, Widen
    <2>4. PreflightRejected(w) \/ CreateSessions(w) \/ Answered(w) \/ Incomplete(w) \/ PublishPointer(w) => gs' = gs
      BY DEF PreflightRejected, CreateSessions, Answered, Incomplete, PublishPointer
    <2>5. PublishRecord(w) \/ Activate(w) \/ Unpoint(w) \/ Keep(w) \/ Close(w) => gs' = gs
      BY DEF PublishRecord, Activate, Unpoint, Keep, Close
    <2> QED
      BY <2>1, <2>2, <2>3, <2>4, <2>5 DEF WorkerStep
  <1>2. \A c \in Canceller : CancellerStep(c) => gs' = gs
    BY DEF CancellerStep, Ask, Tombstone, FindUncancelled, Mark, MarkRefused, FindCancelling,
             ReadPointer, Finish, EndWhen, Complete
  <1>3. \A x \in Agent : ReleaseSessions(x) \/ Unpack(x) \/ Throws(x) \/ Die(x) => gs' = gs
    BY DEF ReleaseSessions, Unpack, Throws, KillRefused, CleanupFails, Die
  <1>4. LeaseExpires \/ PointerAges \/ ArenaReopens \/ OtherJoins => gs' = gs
    BY DEF LeaseExpires, PointerAges, ArenaReopens, OtherJoins
  <1> QED
    BY <1>1, <1>2, <1>3, <1>4

(* The steps that leave the player sessions alone.                         *)
LEMMA BatchesKept ==
  /\ \A w \in Worker : Start(w) \/ (WorkerStep(w) /\ ~CreateSessions(w)) \/ RemovePointer(w) => batch' = batch
  /\ \A c \in Canceller : CancellerStep(c) => batch' = batch
  /\ \A x \in Agent : Unpack(x) \/ Replay(x) \/ Throws(x) \/ Die(x) => batch' = batch
  /\ LeaseExpires \/ PointerAges \/ ArenaReopens \/ OtherJoins => batch' = batch
  <1>1. \A w \in Worker : Start(w) \/ (WorkerStep(w) /\ ~CreateSessions(w)) \/ RemovePointer(w) => batch' = batch
    <2> TAKE w \in Worker
    <2>1. Start(w) \/ RemovePointer(w) => batch' = batch
      BY DEF Start, RemovePointer
    <2>2. FindAnswer(w) \/ Own(w) \/ Fence(w) \/ FindStranded(w) \/ Forget(w) \/ ForgetIntent(w) => batch' = batch
      BY DEF FindAnswer, Own, Fence, FindStranded, Forget, ForgetIntent
    <2>3. Pack(w) \/ GiveUp(w) \/ Point(w) \/ RetainIntent(w) \/ Retain(w) \/ Widen(w) => batch' = batch
      BY DEF Pack, GiveUp, Point, RetainIntent, Retain, Widen
    <2>4. LaunchAnswered(w) \/ LaunchRefused(w) \/ LaunchUncertain(w) => batch' = batch
      BY DEF LaunchAnswered, LaunchRefused, LaunchUncertain
    <2>5. PreflightRejected(w) \/ Answered(w) \/ Incomplete(w) \/ PublishPointer(w) => batch' = batch
      BY DEF PreflightRejected, Answered, Incomplete, PublishPointer
    <2>6. PublishRecord(w) \/ Activate(w) \/ Unpoint(w) \/ Keep(w) \/ Close(w) => batch' = batch
      BY DEF PublishRecord, Activate, Unpoint, Keep, Close
    <2> QED
      BY <2>1, <2>2, <2>3, <2>4, <2>5, <2>6 DEF WorkerStep
  <1>2. \A c \in Canceller : CancellerStep(c) => batch' = batch
    BY DEF CancellerStep, Ask, Tombstone, FindUncancelled, Mark, MarkRefused, FindCancelling,
             ReadPointer, Finish, EndWhen, Complete
  <1>3. \A x \in Agent : Unpack(x) \/ Replay(x) \/ Throws(x) \/ Die(x) => batch' = batch
    BY DEF Unpack, Replay, Throws, KillRefused, CleanupFails, Die
  <1>4. LeaseExpires \/ PointerAges \/ ArenaReopens \/ OtherJoins => batch' = batch
    BY DEF LeaseExpires, PointerAges, ArenaReopens, OtherJoins
  <1> QED
    BY <1>1, <1>2, <1>3, <1>4

(* Only the publication of a pointer offers an arena.                      *)
LEMMA OfferedKept ==
  /\ \A w \in Worker : Start(w) \/ (WorkerStep(w) /\ ~PublishPointer(w)) \/ RemovePointer(w) \/ GameLiftReserves(w)
       => published' = published
  /\ \A c \in Canceller : CancellerStep(c) => published' = published
  /\ \A x \in Agent : Compensate(x) \/ Throws(x) \/ Die(x) => published' = published
  /\ LeaseExpires \/ PointerAges \/ ArenaReopens \/ OtherJoins \/ OtherLeaves => published' = published
  <1>1. \A w \in Worker : Start(w) \/ (WorkerStep(w) /\ ~PublishPointer(w)) \/ RemovePointer(w) \/ GameLiftReserves(w)
       => published' = published
    <2> TAKE w \in Worker
    <2>1. Start(w) \/ RemovePointer(w) \/ GameLiftReserves(w) => published' = published
      BY DEF Start, RemovePointer, GameLiftReserves
    <2>2. FindAnswer(w) \/ Own(w) \/ Fence(w) \/ FindStranded(w) \/ Forget(w) \/ ForgetIntent(w) => published' = published
      BY DEF FindAnswer, Own, Fence, FindStranded, Forget, ForgetIntent
    <2>3. Pack(w) \/ GiveUp(w) \/ Point(w) \/ RetainIntent(w) \/ Retain(w) \/ Widen(w) => published' = published
      BY DEF Pack, GiveUp, Point, RetainIntent, Retain, Widen
    <2>4. LaunchAnswered(w) \/ LaunchRefused(w) \/ LaunchUncertain(w) => published' = published
      BY DEF LaunchAnswered, LaunchRefused, LaunchUncertain
    <2>5. PreflightRejected(w) \/ CreateSessions(w) \/ Answered(w) \/ Incomplete(w) => published' = published
      BY DEF PreflightRejected, CreateSessions, Answered, Incomplete
    <2>6. PublishRecord(w) \/ Activate(w) \/ Unpoint(w) \/ Keep(w) \/ Close(w) => published' = published
      BY DEF PublishRecord, Activate, Unpoint, Keep, Close
    <2> QED
      BY <2>1, <2>2, <2>3, <2>4, <2>5, <2>6 DEF WorkerStep
  <1>2. \A c \in Canceller : CancellerStep(c) => published' = published
    BY DEF CancellerStep, Ask, Tombstone, FindUncancelled, Mark, MarkRefused, FindCancelling,
             ReadPointer, Finish, EndWhen, Complete
  <1>3. \A x \in Agent : Compensate(x) \/ Throws(x) \/ Die(x) => published' = published
    BY DEF Compensate, ReleaseSessions, Unpack, TerminateSession, Replay, Kill, Throws, KillRefused, CleanupFails, Die
  <1>4. LeaseExpires \/ PointerAges \/ ArenaReopens \/ OtherJoins \/ OtherLeaves => published' = published
    BY DEF LeaseExpires, PointerAges, ArenaReopens, OtherJoins, OtherLeaves
  <1> QED
    BY <1>1, <1>2, <1>3, <1>4

(* The claim stays one of its three states.                                *)
LEMMA ClaimTyped ==
  ASSUME TypeOK, Next
  PROVE  claim' \in {"active", "cancelling", "cancelled"}
  <1>1. ASSUME NEW w \in Worker, Start(w) \/ WorkerStep(w) \/ RemovePointer(w) \/ GameLiftReserves(w)
        PROVE  claim' = claim
    BY <1>1
       DEF WorkerStep, Start, RemovePointer, GameLiftReserves, FindAnswer, Own, Fence, FindStranded, Forget, ForgetIntent, Pack, GiveUp, Point,
           RetainIntent, LaunchAnswered, LaunchRefused, LaunchUncertain, Retain, Widen, PreflightRejected, CreateSessions, Answered, Incomplete,
           PublishPointer, PublishRecord, Activate, Unpoint, Keep, Close
  <1>2. ASSUME NEW c \in Canceller, CancellerStep(c)
        PROVE  claim' = claim \/ claim' \in {"cancelling", "cancelled"}
    BY <1>2 DEF CancellerStep, Ask, Tombstone, FindUncancelled, Mark, MarkRefused, FindCancelling,
             ReadPointer, Finish, EndWhen, Complete
  <1>3. ASSUME NEW x \in Agent, Compensate(x) \/ Throws(x) \/ Die(x)
        PROVE  claim' = claim
    BY <1>3 DEF Compensate, ReleaseSessions, Unpack, TerminateSession, Replay, Kill, Throws, KillRefused, CleanupFails, Die
  <1>4. LeaseExpires \/ PointerAges \/ ArenaReopens \/ OtherJoins \/ OtherLeaves => claim' = claim
    BY DEF LeaseExpires, PointerAges, ArenaReopens, OtherJoins, OtherLeaves
  <1> QED
    BY <1>1, <1>2, <1>3, <1>4 DEF Next, TypeOK

(* Steps of a request keep its shape.                                      *)
LEMMA WorkerStepShape ==
  ASSUME Typed, NEW w \in Worker, Start(w) \/ WorkerStep(w)
  PROVE  WorkerShape(job'[w]) /\ OthersStay(w) /\ job' \in [Agent -> Jobs]
  <1>1. CASE \/ Start(w) \/ FindAnswer(w) \/ Own(w) \/ GiveUp(w) \/ RetainIntent(w) \/ LaunchAnswered(w)
             \/ LaunchRefused(w) \/ CreateSessions(w) \/ Answered(w) \/ Keep(w) \/ Close(w)
    BY <1>1, WorkerMovesShape
  <1>2. CASE PreflightRejected(w) \/ Incomplete(w) \/ PublishPointer(w) \/ PublishRecord(w) \/ Activate(w) \/ Unpoint(w)
    BY <1>2, WorkerPlansShape
  <1>3. CASE \/ Fence(w) \/ FindStranded(w) \/ Forget(w) \/ ForgetIntent(w)
             \/ Pack(w) \/ Point(w) \/ LaunchUncertain(w) \/ Retain(w) \/ Widen(w)
    BY <1>3, WorkerSetsShape
  <1> QED
    BY <1>1, <1>2, <1>3 DEF WorkerStep

(* Every step keeps the types and shapes of the locals.                    *)
LEMMA JobTyped ==
  ASSUME Typed, Next
  PROVE  job' \in [Agent -> Jobs] /\ Shapes'
  <1>1. ASSUME NEW w \in Worker, Start(w) \/ WorkerStep(w)
        PROVE  job' \in [Agent -> Jobs] /\ Shapes'
    <2>1. WorkerShape(job'[w]) /\ OthersStay(w) /\ job' \in [Agent -> Jobs]
      BY <1>1, WorkerStepShape
    <2> QED
      BY <2>1, AgentKinds, ShapesAt
  <1>2. ASSUME NEW c \in Canceller, CancellerStep(c)
        PROVE  job' \in [Agent -> Jobs] /\ Shapes'
    BY <1>2, AgentKinds, CancellerStepShape, ShapesAt
  <1>3. ASSUME NEW x \in Agent, Compensate(x) \/ Throws(x) \/ Die(x)
        PROVE  job' \in [Agent -> Jobs] /\ Shapes'
    <2>1. Shaped(x)' /\ OthersStay(x) /\ job' \in [Agent -> Jobs]
      BY <1>3, CompensationShape
    <2>2. (x \in Worker => WorkerShape(job'[x])) /\ (x \in Canceller => CancellerShape(job'[x]))
      BY <2>1, AgentKinds DEF Shaped
    <2> QED
      BY <2>1, <2>2, ShapesAt
  <1>4. CASE job' = job
    BY <1>4 DEF Typed, TypeOK, Shapes
  <1>5. \A w \in Worker : RemovePointer(w) \/ GameLiftReserves(w) => job' = job
    BY DEF RemovePointer, GameLiftReserves
  <1>6. LeaseExpires \/ PointerAges \/ ArenaReopens \/ OtherJoins \/ OtherLeaves => job' = job
    BY DEF LeaseExpires, PointerAges, ArenaReopens, OtherJoins, OtherLeaves
  <1> QED
    BY <1>1, <1>2, <1>3, <1>4, <1>5, <1>6 DEF Next

(* Every step keeps the type of the record.                                *)
LEMMA RecordTyped ==
  ASSUME Typed, Next
  PROVE  rec' \in Records
  <1>1. rec \in Records /\ TypeOK /\ NoRecord \in Records
    BY FreshIsJob DEF Typed, TypeOK, NoRecord, Records
  <1>2. /\ \A w \in Worker : Owning(w) \in Records
        /\ \A e \in Evidence : [rec EXCEPT !.ev = e] \in Records
        /\ \A a \in Arena \union {None} : [rec EXCEPT !.intent = a] \in Records
        /\ [rec EXCEPT !.status = "active", !.owner = None, !.lease = "none"] \in Records
        /\ [rec EXCEPT !.status = "cancelled", !.owner = None, !.lease = "none"] \in Records
        /\ [rec EXCEPT !.status = "cancelled"] \in Records
        /\ [rec EXCEPT !.status = "cancelling"] \in Records
        /\ [rec EXCEPT !.lease = "expired"] \in Records
    BY <1>1 DEF Records, Owning
  <1>3. \A e \in Evidence, w \in Worker : Retained(w, e) \in Records
    BY <1>1, <1>2 DEF Retained
  <1>4. ASSUME NEW w \in Worker, Start(w) \/ WorkerStep(w) \/ RemovePointer(w) \/ GameLiftReserves(w)
        PROVE  rec' \in Records
    <2>1. /\ w \in Agent /\ job[w].arena \in Arena \union {None} /\ job[w].made \in BOOLEAN
          /\ job[w].plan \in Evidence /\ {w} \in SUBSET Worker /\ {} \in SUBSET Worker
      BY <1>1, AgentKinds, JobFields
    <2>2. CASE Own(w) \/ Fence(w) \/ Forget(w) \/ ForgetIntent(w) \/ RetainIntent(w) \/ Close(w) \/ Activate(w)
      BY <1>1, <1>2, <2>1, <2>2 DEF Own, Fence, Forget, ForgetIntent, RetainIntent, Close, Activate
    <2>3. CASE Retain(w) \/ Widen(w)
      <3>1. \A b, t \in BOOLEAN : Sees(job[w].arena, {}, b, t) \in Evidence
        BY <2>1, SeesIsEvidence
      <3>2. CASE RetainRefused(w)
        BY <1>1, <3>2, Refusing
      <3>3. CASE ~RetainRefused(w)
        <4>1. PICK b \in BOOLEAN : rec' = [rec EXCEPT !.ev = Sees(job[w].arena, {}, b, job[w].made)]
          BY <1>1, <2>3, <3>3, Retaining
        <4> QED
          BY <1>2, <2>1, <3>1, <4>1
      <3> QED
        BY <3>2, <3>3
    <2>4. CASE PublishRecord(w)
      <3>1. Allocation(w) \in Evidence
        BY <2>1, SeesIsEvidence DEF Allocation
      <3> QED
        BY <1>1, <1>2, <2>4, <3>1 DEF PublishRecord
    <2>5. CASE Unpoint(w)
      <3>1. PICK t \in BOOLEAN : rec' = Retained(w, [job[w].plan EXCEPT !.terminate = t])
        BY <1>1, <2>5, Planning
      <3>2. [job[w].plan EXCEPT !.terminate = t] \in Evidence
        BY <2>1 DEF Evidence
      <3> QED
        BY <1>3, <3>1, <3>2
    <2>6. CASE Keep(w)
      BY <1>3, <2>1, <2>6 DEF Keep
    <2>7. CASE \/ Start(w) \/ FindAnswer(w) \/ FindStranded(w) \/ Pack(w) \/ RemovePointer(w) \/ GiveUp(w)
               \/ Point(w) \/ LaunchAnswered(w) \/ LaunchRefused(w) \/ LaunchUncertain(w) \/ PreflightRejected(w)
               \/ CreateSessions(w) \/ GameLiftReserves(w) \/ Answered(w) \/ Incomplete(w) \/ PublishPointer(w)
      BY <1>1, <2>7, RecordKept
    <2> QED
      BY <1>4, <2>2, <2>3, <2>4, <2>5, <2>6, <2>7 DEF WorkerStep
  <1>5. ASSUME NEW c \in Canceller, CancellerStep(c)
        PROVE  rec' \in Records
    <2>1. CASE Tombstone(c) \/ Mark(c)
      BY <1>1, <1>2, <2>1 DEF Tombstone, Mark
    <2>2. CASE Finish(c)
      BY <1>1, <1>2, <2>2, FinishMoves
    <2>3. CASE Ask(c) \/ Looks(c) \/ Complete(c)
      BY <1>1, <2>3, RecordKept
    <2> QED
      BY <1>5, <2>1, <2>2, <2>3 DEF CancellerStep, Looks
  <1>6. ASSUME NEW x \in Agent, Compensate(x) \/ Throws(x) \/ Die(x)
        PROVE  rec' \in Records
    BY <1>1, <1>6, RecordKept
  <1>7. CASE LeaseExpires
    BY <1>2, <1>7 DEF LeaseExpires
  <1>8. CASE PointerAges \/ ArenaReopens \/ OtherJoins \/ OtherLeaves
    BY <1>1, <1>8, RecordKept
  <1> QED
    BY <1>4, <1>5, <1>6, <1>7, <1>8 DEF Next

Points(d) == d \in Pointers /\ (d.status # "none" => d.arena # None)

(* Every step keeps the type of the pointer.                               *)
LEMMA PointerTyped ==
  ASSUME Typed, Next
  PROVE  Points(dir')
  <1>1. /\ dir \in Pointers /\ TypeOK /\ NoPointer \in Pointers /\ NoPointer.status = "none"
        /\ (dir.status # "none" => dir.arena # None)
    BY DEF Typed, TypeOK, NoPointer, Pointers
  <1>2. Points(dir) /\ Points(NoPointer)
    BY <1>1 DEF Points
  <1>3. /\ \A P \in SUBSET {"claim", "other"} : Points([dir EXCEPT !.packed = P])
        /\ \A b \in BOOLEAN : Points([dir EXCEPT !.open = b])
        /\ dir.status = "active" => \A P \in SUBSET {"claim", "other"} :
              Points([dir EXCEPT !.packed = P, !.status = "terminating"])
        /\ dir.status = "active" => \A P \in SUBSET {"claim", "other"} :
              Points([dir EXCEPT !.packed = P, !.status = "active"])
        /\ dir.status = "creating" => \A b \in BOOLEAN :
              Points([dir EXCEPT !.status = "active", !.open = b, !.creator = None, !.packed = {"claim"}])
        /\ \A a \in Arena, w \in Worker, b \in BOOLEAN :
              Points([status |-> "creating", open |-> b, arena |-> a, creator |-> w, packed |-> {}])
    <2>1. \A P \in SUBSET {"claim", "other"} : Points([dir EXCEPT !.packed = P])
      BY <1>1 DEF Pointers, Points
    <2>2. \A b \in BOOLEAN : Points([dir EXCEPT !.open = b])
      BY <1>1 DEF Pointers, Points
    <2>3. dir.status = "active" => \A P \in SUBSET {"claim", "other"} :
              Points([dir EXCEPT !.packed = P, !.status = "terminating"])
      BY <1>1 DEF Pointers, Points
    <2>4. dir.status = "active" => \A P \in SUBSET {"claim", "other"} :
              Points([dir EXCEPT !.packed = P, !.status = "active"])
      BY <1>1 DEF Pointers, Points
    <2>5. dir.status = "creating" => \A b \in BOOLEAN :
              Points([dir EXCEPT !.status = "active", !.open = b, !.creator = None, !.packed = {"claim"}])
      BY <1>1 DEF Pointers, Points
    <2>6. \A a \in Arena, w \in Worker, b \in BOOLEAN :
              Points([status |-> "creating", open |-> b, arena |-> a, creator |-> w, packed |-> {}])
      BY AllocationAssumption DEF Pointers, Points
    <2> QED
      BY <2>1, <2>2, <2>3, <2>4, <2>5, <2>6
  <1>4. PICK yes \in BOOLEAN, no \in BOOLEAN : yes = TRUE /\ no = FALSE
    OBVIOUS
  <1>5. ASSUME NEW w \in Worker, Start(w) \/ WorkerStep(w) \/ RemovePointer(w) \/ GameLiftReserves(w)
        PROVE  Points(dir')
    <2>1. CASE Pack(w)
      <3>1. dir.packed \union {"claim"} \in SUBSET {"claim", "other"}
        BY <1>1 DEF Pointers
      <3> QED
        BY <1>3, <2>1, <3>1 DEF Pack
    <2>2. CASE RemovePointer(w)
      BY <1>2, <2>2 DEF RemovePointer
    <2>3. CASE Point(w)
      <3>1. PICK a \in Arena : dir' = [status |-> "creating", open |-> yes, arena |-> a, creator |-> w, packed |-> {}]
        BY <1>4, <2>3 DEF Point
      <3> QED
        BY <1>3, <3>1
    <2>4. CASE RetainIntent(w) \/ LaunchRefused(w) \/ Unpoint(w)
      BY <1>2, <2>4 DEF RetainIntent, LaunchRefused, Unpoint, Unpointed
    <2>5. CASE PublishPointer(w)
      <3>1. \/ dir' = dir
            \/ /\ dir.status = "creating"
               /\ dir' = [dir EXCEPT !.status = "active", !.open = yes, !.creator = None, !.packed = {"claim"}]
        BY <1>4, <2>5 DEF PublishPointer
      <3> QED
        BY <1>2, <1>3, <3>1
    <2>6. CASE dir' = dir
      BY <1>2, <2>6
    <2> QED
      BY <1>5, <2>1, <2>2, <2>3, <2>4, <2>5, <2>6, PointerKept DEF WorkerStep
  <1>6. ASSUME NEW c \in Canceller, CancellerStep(c)
        PROVE  Points(dir')
    BY <1>2, <1>6, PointerKept
  <1>7. ASSUME NEW x \in Agent, Compensate(x) \/ Throws(x) \/ Die(x)
        PROVE  Points(dir')
    <2>1. CASE Unpack(x)
      <3>1. dir.packed \ {"claim"} \in SUBSET {"claim", "other"}
        BY <1>1 DEF Pointers
      <3>2. \/ dir' = dir
            \/ /\ dir.status = "active"
               /\ \/ dir' = [dir EXCEPT !.packed = dir.packed \ {"claim"}, !.status = "terminating"]
                  \/ dir' = [dir EXCEPT !.packed = dir.packed \ {"claim"}, !.status = "active"]
        BY <2>1 DEF Unpack
      <3> QED
        BY <1>2, <1>3, <3>1, <3>2
    <2>2. CASE Kill(x)
      BY <1>2, <2>2 DEF Kill
    <2> QED
      BY <1>2, <1>7, <2>1, <2>2, PointerKept DEF Compensate
  <1>8. CASE PointerAges \/ ArenaReopens
    BY <1>2, <1>3, <1>4, <1>8 DEF PointerAges, ArenaReopens
  <1>9. CASE OtherJoins
    <2>1. dir.packed \union {"other"} \in SUBSET {"claim", "other"}
      BY <1>1 DEF Pointers, Points
    <2> QED
      BY <1>3, <1>9, <2>1 DEF OtherJoins
  <1>10. CASE OtherLeaves
    <2>1. dir.packed \ {"other"} \in SUBSET {"claim", "other"}
      BY <1>1 DEF Pointers, Points
    <2>2. /\ dir.status = "active"
          /\ \/ dir' = [dir EXCEPT !.packed = dir.packed \ {"other"}, !.status = "terminating"]
             \/ dir' = [dir EXCEPT !.packed = dir.packed \ {"other"}, !.status = "active"]
      BY <1>10 DEF OtherLeaves
    <2> QED
      BY <1>3, <2>1, <2>2
  <1>11. CASE LeaseExpires
    BY <1>2, <1>11, PointerKept
  <1> QED
    BY <1>5, <1>6, <1>7, <1>8, <1>9, <1>10, <1>11 DEF Next

(* Every step keeps the type of the game sessions.                         *)
LEMMA SessionsTyped ==
  ASSUME Typed, Next
  PROVE  gs' \in [Arena -> {"none", "up", "terminated"}]
  <1>1. gs \in [Arena -> {"none", "up", "terminated"}]
    BY DEF Typed, TypeOK
  <1>2. \A a : /\ Created(a) \in [Arena -> {"none", "up", "terminated"}]
               /\ Terminated(a) \in [Arena -> {"none", "up", "terminated"}]
    BY <1>1 DEF Created, Terminated
  <1>3. ASSUME NEW w \in Worker, LaunchAnswered(w) \/ LaunchRefused(w) \/ LaunchUncertain(w)
        PROVE  gs' \in [Arena -> {"none", "up", "terminated"}]
    BY <1>1, <1>2, <1>3 DEF LaunchAnswered, LaunchRefused, LaunchUncertain, Terminated
  <1>4. ASSUME NEW x \in Agent, Replay(x) \/ Kill(x) \/ TerminateSession(x)
        PROVE  gs' \in [Arena -> {"none", "up", "terminated"}]
    BY <1>2, <1>4 DEF Replay, Kill, TerminateSession
  <1>5. CASE OtherLeaves
    BY <1>1, <1>2, <1>5 DEF OtherLeaves
  <1>6. CASE gs' = gs
    BY <1>1, <1>6
  <1> QED
    BY <1>3, <1>4, <1>5, <1>6, SessionsKept DEF Next, Compensate

(* Ends(W) ends the batches of W and leaves the others alone.              *)
LEMMA EndsOf ==
  ASSUME TypeOK, NEW W
  PROVE  /\ Ends(W) \in [Worker -> Batches]
         /\ \A w \in Worker : /\ Ends(W)[w].arena = batch[w].arena
                              /\ Ends(W)[w].state = IF w \in W THEN "over" ELSE batch[w].state
                              /\ w \notin W => Ends(W)[w] = batch[w]
  BY DEF TypeOK, Ends, Batches

(* Every step keeps the type of the player sessions.                       *)
LEMMA BatchesTyped ==
  ASSUME Typed, Next
  PROVE  batch' \in [Worker -> Batches]
  <1>1. batch \in [Worker -> Batches] /\ TypeOK
    BY DEF Typed, TypeOK
  <1>2. \A W : Ends(W) \in [Worker -> Batches]
    BY <1>1, EndsOf
  <1>3. ASSUME NEW w \in Worker, CreateSessions(w) \/ GameLiftReserves(w)
        PROVE  batch' \in [Worker -> Batches]
    <2>1. CASE CreateSessions(w)
      <3>1. [state |-> "flying", arena |-> job[w].arena] \in Batches
        BY <1>1, AgentKinds, JobFields DEF Batches
      <3>2. batch' = [batch EXCEPT ![w] = [state |-> "flying", arena |-> job[w].arena]]
        BY <2>1 DEF CreateSessions
      <3> QED
        BY <1>1, <3>1, <3>2
    <2>2. CASE GameLiftReserves(w)
      BY <1>1, <1>2, <2>2 DEF GameLiftReserves, Batches
    <2> QED
      BY <1>3, <2>1, <2>2
  <1>4. ASSUME NEW x \in Agent, ReleaseSessions(x) \/ Kill(x) \/ TerminateSession(x)
        PROVE  batch' \in [Worker -> Batches]
    BY <1>2, <1>4 DEF ReleaseSessions, Kill, TerminateSession
  <1>5. CASE OtherLeaves
    BY <1>1, <1>2, <1>5 DEF OtherLeaves
  <1>6. CASE batch' = batch
    BY <1>1, <1>6
  <1> QED
    BY <1>3, <1>4, <1>5, <1>6, BatchesKept DEF Next, Compensate

(* Every step offers arenas only.                                          *)
LEMMA OfferedTyped ==
  ASSUME Typed, Next
  PROVE  published' \subseteq Arena
  <1>1. ASSUME NEW w \in Worker, PublishPointer(w)
        PROVE  published' \subseteq Arena
    <2>1. job[w].arena \in Arena \union {None} /\ job[w].arena # None
      BY <1>1, AgentKinds, JobFields DEF PublishPointer, At, Typed, Shapes, WorkerShape
    <2> QED
      BY <1>1, <2>1 DEF PublishPointer, Typed, TypeOK
  <1>2. CASE published' = published
    BY <1>2 DEF Typed, TypeOK
  <1> QED
    BY <1>1, <1>2, OfferedKept DEF Next

(* Only a replay makes an arena stray.                                     *)
LEMMA StrayKept ==
  ASSUME Next
  PROVE  stray' = stray \/ \E x \in Agent : Replay(x)
  <1>1. ASSUME NEW w \in Worker, Start(w) \/ WorkerStep(w) \/ RemovePointer(w) \/ GameLiftReserves(w)
        PROVE  stray' = stray
    BY <1>1
       DEF WorkerStep, Start, RemovePointer, GameLiftReserves, FindAnswer, Own, Fence, FindStranded, Forget, ForgetIntent, Pack, GiveUp, Point,
           RetainIntent, LaunchAnswered, LaunchRefused, LaunchUncertain, Retain, Widen, PreflightRejected, CreateSessions, Answered, Incomplete,
           PublishPointer, PublishRecord, Activate, Unpoint, Keep, Close
  <1>2. ASSUME NEW c \in Canceller, CancellerStep(c)
        PROVE  stray' = stray
    BY <1>2 DEF CancellerStep, Ask, Tombstone, FindUncancelled, Mark, MarkRefused, FindCancelling,
             ReadPointer, Finish, EndWhen, Complete
  <1>3. ASSUME NEW x \in Agent, (Compensate(x) /\ ~Replay(x)) \/ Throws(x) \/ Die(x)
        PROVE  stray' = stray
    BY <1>3 DEF Compensate, ReleaseSessions, Unpack, TerminateSession, Kill, Throws, KillRefused, CleanupFails, Die
  <1>4. LeaseExpires \/ PointerAges \/ ArenaReopens \/ OtherJoins \/ OtherLeaves => stray' = stray
    BY DEF LeaseExpires, PointerAges, ArenaReopens, OtherJoins, OtherLeaves
  <1> QED
    BY <1>1, <1>2, <1>3, <1>4 DEF Next

(* The stray arenas are arenas.                                            *)
LEMMA StrayTyped ==
  ASSUME Typed, Next
  PROVE  stray' \subseteq Arena
  <1>1. stray \subseteq Arena /\ TypeOK
    BY DEF Typed, TypeOK
  <1>2. ASSUME NEW x \in Agent, Replay(x)
        PROVE  stray' \subseteq Arena
    <2>1. job[x].pc = "replay" /\ job[x].arena \in Arena \union {None}
      BY <1>1, <1>2, JobFields DEF Replay, At
    <2>2. job[x].arena # None
      BY <2>1, AgentKinds DEF Typed, Shapes, WorkerShape, CancellerShape, Replaying
    <2> QED
      BY <1>1, <1>2, <2>1, <2>2 DEF Replay
  <1> QED
    BY <1>1, <1>2, StrayKept

(* Typed is inductive.                                                     *)
LEMMA TypedStep ==
  ASSUME Typed, [Next]_vars
  PROVE  Typed'
  <1>1. CASE Next
    BY <1>1, JobTyped, RecordTyped, PointerTyped, SessionsTyped, BatchesTyped, OfferedTyped, ClaimTyped, StrayTyped
       DEF Typed, TypeOK, Points
  <1>2. CASE UNCHANGED vars
    BY <1>2 DEF vars, Typed, TypeOK, Shapes
  <1> QED
    BY <1>1, <1>2

(* Typed holds at first.                                                   *)
LEMMA TypedInit ==
  ASSUME Init
  PROVE  Typed
  <1>1. rec \in Records /\ claim \in {"active", "cancelling", "cancelled"} /\ stray \subseteq Arena
    BY FreshIsJob DEF Init, NoRecord, Records
  <1>2. /\ dir \in Pointers /\ (dir.status # "none" => dir.arena # None)
        /\ gs \in [Arena -> {"none", "up", "terminated"}] /\ published \subseteq Arena
    <2>1. CASE dir = NoPointer /\ gs = [a \in Arena |-> "none"] /\ published = {}
      BY <2>1 DEF NoPointer, Pointers
    <2>2. ASSUME NEW a \in Arena, published = {a},
                 dir = [status |-> "active", open |-> TRUE, arena |-> a, creator |-> None, packed |-> {"other"}],
                 gs = [b \in Arena |-> IF b = a THEN "up" ELSE "none"]
          PROVE  /\ dir \in Pointers /\ (dir.status # "none" => dir.arena # None)
                 /\ gs \in [Arena -> {"none", "up", "terminated"}] /\ published \subseteq Arena
      <3>1. a # None
        BY AllocationAssumption
      <3>2. PICK b \in BOOLEAN : b = TRUE
        OBVIOUS
      <3>3. [status |-> "active", open |-> b, arena |-> a, creator |-> None, packed |-> {"other"}] \in Pointers
        BY DEF Pointers
      <3> QED
        BY <2>2, <3>1, <3>2, <3>3
    <2> QED
      BY <2>1, <2>2 DEF Init
  <1>3. batch \in [Worker -> Batches]
    BY DEF Init, Batches
  <1>4. job \in [Agent -> Jobs] /\ \A x \in Agent : job[x] = Fresh
    BY FreshIsJob DEF Init
  <1>5. WorkerShape(Fresh)
    BY DEF Fresh, WorkerShape, Compensating, Replaying
  <1>6. Shapes
    BY <1>4, <1>5, AgentKinds, FailedShapes DEF Shapes
  <1> QED
    BY <1>1, <1>2, <1>3, <1>4, <1>6 DEF Typed, TypeOK

(* Every variable keeps its type, whatever the interleaving of requests,   *)
(* cancellations, crashes and clocks.                                      *)
THEOREM TypeCorrect == Spec => []TypeOK
  <1>1. Spec => []Typed
    BY TypedInit, TypedStep, PTL DEF Spec
  <1>2. Typed => TypeOK
    BY DEF Typed
  <1> QED
    BY <1>1, <1>2, PTL

(***************************************************************************)
(* Who may touch the record, and what it says.                             *)
(***************************************************************************)
Working(w) == job[w].pc \notin Outside
Cleaning(w) == job[w].after = "forget"
Open == rec.status \in {"none", "allocating", "active"}

RecordForm(r) ==
  /\ r.status = "none" => r = NoRecord
  /\ r.status = "allocating" => r.owner # None /\ r.lease # "none"
  /\ r.status = "active" => r.owner = None /\ r.lease = "none"
  /\ r.lease # "none" => r.owner # None
RecordSound == RecordForm(rec) /\ (rec.lease = "expired" => Ended(rec.owner))

(* At most one request works for the claim ... *)
OneWorks == \A v, w \in Worker : Working(v) /\ Working(w) => v = w

(* ... and the record says by which right: the lease, or the evidence it   *)
(* works off, or an activation of its own that it does not know of.        *)
Entitled(w) ==
  IF Cleaning(w)
  THEN /\ rec.status = "allocating" /\ rec.lease = "expired" /\ rec.owner = job[w].seen
       /\ rec.ev = job[w].plan
  ELSE \/ rec.status = "allocating" /\ rec.owner = w /\ rec.lease = "held"
       \/ rec.status = "active" /\ job[w].pc = "keep" /\ rec.ev = job[w].plan
Titles ==
  Open => /\ \A c \in Canceller : job[c].pc \in {"idle", "read", "mark"}
          /\ \A w \in Worker : Working(w) => Entitled(w)

(***************************************************************************)
(* The player sessions of each request, and who knows of them.             *)
(***************************************************************************)
Before == {"idle", "read", "place", "intent", "launch", "retain", "widen", "create"} \union Replaying
Publishing == {"point", "write", "activate"}

BatchSound(w) ==
  /\ job[w].pc \in Before \/ Cleaning(w) => batch[w].state = "none"
  /\ job[w].pc \in Publishing \union {"await"} => batch[w].arena = job[w].arena
  /\ job[w].pc \in Publishing => batch[w].state \in {"live", "over"}
KnownAt(K, a) == \A v \in K : batch[v].state \in {"live", "over"} /\ batch[v].arena = a
KnownIn(e) == KnownAt(e.known, e.arena)
BatchesSound ==
  /\ \A w \in Worker : BatchSound(w)
  /\ KnownIn(rec.ev)
  /\ \A x \in Agent : KnownIn(job[x].plan)

(***************************************************************************)
(* Seats in a running arena in which the party is packed.                  *)
(***************************************************************************)
Reserved(w, a) == gs[a] = "up" /\ batch[w].state = "live" /\ batch[w].arena = a
Packed(a) == a \in published /\ (dir.status = "active" /\ dir.arena = a => "claim" \in dir.packed)
Launching == {"intent", "launch", "retain", "widen", "create", "await", "point"}
Joining == {"retain", "widen", "create", "await"}

Seated(w) ==
  /\ job[w].pc = "await" /\ batch[w].state = "live" => gs[job[w].arena] = "up"
  /\ job[w].pc \in Publishing => Reserved(w, job[w].arena)
  /\ job[w].pc = "activate" => rec.ev = Allocation(w)
  /\ (job[w].pc \in Joining /\ ~job[w].made) \/ job[w].pc \in {"write", "activate"} => Packed(job[w].arena)
SeatsSound ==
  /\ Open => \A w \in Worker : Seated(w)
  /\ rec.status = "active" =>
       \E w \in Worker : /\ rec.ev = Sees(rec.ev.arena, {w}, FALSE, FALSE)
                         /\ Reserved(w, rec.ev.arena) /\ Packed(rec.ev.arena)

(* Pointers and the game sessions they name. *)
PointerSound ==
  /\ dir.status \in {"active", "terminating"} => dir.arena \in published
  /\ dir.status = "creating" => dir.arena \notin published
  /\ \A a \in published : gs[a] # "none"
  /\ \A w \in Worker : dir.status = "creating" /\ dir.creator = w =>
       Ended(w) \/ (job[w].made /\ job[w].arena = dir.arena)
  /\ \A w \in Worker : job[w].pc \in Joining \union Publishing => gs[job[w].arena] # "none"
  /\ \A w \in Worker : job[w].pc \in Launching /\ job[w].made => job[w].arena \notin published
  /\ \A w \in Worker : batch[w].state # "none" => batch[w].arena \in Arena /\ gs[batch[w].arena] # "none"

(***************************************************************************)
(* Who makes a step, and what it changes.                                  *)
(***************************************************************************)

(* A request begins, gets its answer or ends, and changes nothing else. *)
Rests(w) == Start(w) \/ FindAnswer(w) \/ Throws(w) \/ Die(w)
Works(w) == (WorkerStep(w) /\ ~FindAnswer(w)) \/ Compensate(w)
Cancelling(c) == CancellerStep(c) \/ Compensate(c) \/ Throws(c) \/ Die(c)
Around ==
  \/ \E w \in Worker : RemovePointer(w) \/ GameLiftReserves(w)
  \/ LeaseExpires \/ PointerAges \/ ArenaReopens \/ OtherJoins \/ OtherLeaves

(* A step is a request's, a canceller's, or nobody's.                      *)
LEMMA ByWhom ==
  ASSUME Next
  PROVE  \/ \E w \in Worker : Rests(w) \/ Works(w)
         \/ \E c \in Canceller : Cancelling(c)
         \/ Around
  BY AgentKinds DEF Next, Rests, Works, Cancelling, Around

Same(x) ==
  /\ job'[x].arena = job[x].arena /\ job'[x].made = job[x].made /\ job'[x].plan = job[x].plan
  /\ job'[x].after = job[x].after /\ job'[x].seen = job[x].seen
Goes(x, from, P) == job[x].pc = from /\ job'[x].pc \in P /\ Same(x)
(* To the compensation of a plan for its arena. *)
Turns(x, from, P) ==
  /\ job[x].pc = from /\ job'[x].pc \in P
  /\ job'[x].after = "close" /\ job'[x].plan.arena = job[x].arena
  /\ job'[x].arena = job[x].arena /\ job'[x].made = job[x].made

(* The steps that keep a request's locals, from where and where to.        *)
LEMMA GoesWhere ==
  ASSUME TypeOK, NEW w \in Worker
  PROVE  /\ Start(w) => Goes(w, "idle", {"read"})
         /\ FindAnswer(w) => Goes(w, "read", {"done", "failed"})
         /\ Own(w) => Goes(w, "read", {"place"})
         /\ GiveUp(w) => Goes(w, "place", {"close"})
         /\ RetainIntent(w) => Goes(w, "intent", {"launch", "close"})
         /\ LaunchAnswered(w) => Goes(w, "launch", {"retain"})
         /\ LaunchRefused(w) => Goes(w, "launch", {"close"})
         /\ CreateSessions(w) => Goes(w, "create", {"await"})
         /\ Answered(w) => Goes(w, "await", {IF job[w].made THEN "point" ELSE "write"})
         /\ Keep(w) => Goes(w, "keep", {"done", "release"})
         /\ Close(w) => Goes(w, "close", {"failed"})
         /\ Replay(w) => Goes(w, "replay", {"kill"})
         /\ Kill(w) => Goes(w, "kill", {"forgetIntent"})
  <1>1. \A from, P : Moves(w, from, P) => Goes(w, from, P)
    BY AgentKinds, MovesShape DEF Goes, Same
  <1>2. Replay(w) => Goes(w, "replay", {"kill"})
    BY <1>1, AgentKinds, ReplayMoves
  <1>3. Kill(w) => Goes(w, "kill", {"forgetIntent"})
    BY <1>1, AgentKinds, ReplayMoves
  <1> QED
    BY <1>1, <1>2, <1>3, Moving

(* The steps that assign a request's locals, and what they assign.         *)
LEMMA SetsWhat ==
  ASSUME TypeOK, NEW w \in Worker
  PROVE  /\ Fence(w) => /\ job[w].pc = "read" /\ job'[w].pc = "replay" /\ job'[w].arena = rec.intent
                        /\ job'[w].made = job[w].made /\ job'[w].plan = job[w].plan
                        /\ job'[w].after = job[w].after
         /\ FindStranded(w) => /\ job[w].pc = "read" /\ job'[w].pc = "release" /\ job'[w].plan = rec.ev
                               /\ job'[w].after = "forget" /\ job'[w].seen = rec.owner
                               /\ job'[w].made = job[w].made /\ job'[w].arena = job[w].arena
         /\ Forget(w) \/ ForgetIntent(w) =>
              /\ job[w].pc \in {"forget", "forgetIntent"} /\ job'[w] = [Fresh EXCEPT !.pc = "read"]
         /\ Pack(w) => /\ job[w].pc = "place" /\ job'[w].pc = "retain" /\ job'[w].arena = dir.arena
                       /\ job'[w].made = job[w].made /\ job'[w].plan = job[w].plan
                       /\ job'[w].after = job[w].after
         /\ LaunchUncertain(w) => job[w].pc = "launch" /\ job'[w] = [Fresh EXCEPT !.pc = "failed"]
  <1>1. job[w] \in Jobs
    BY AgentKinds, JobFields
  <1>2. Fence(w) => /\ job[w].pc = "read" /\ job'[w].pc = "replay" /\ job'[w].arena = rec.intent
                    /\ job'[w].made = job[w].made /\ job'[w].plan = job[w].plan
                    /\ job'[w].after = job[w].after
    <2>1. Fence(w) =>
            job[w].pc = "read" /\ Becomes(w, [job[w] EXCEPT !.pc = "replay", !.arena = rec.intent])
      BY FenceMoves DEF Fence, Stranded, At
    <2> QED
      BY ONLY <1>1, <2>1 DEF Becomes, Jobs
  <1>3. FindStranded(w) => /\ job[w].pc = "read" /\ job'[w].pc = "release" /\ job'[w].plan = rec.ev
                           /\ job'[w].after = "forget" /\ job'[w].seen = rec.owner
                           /\ job'[w].made = job[w].made /\ job'[w].arena = job[w].arena
    <2>1. FindStranded(w) =>
            /\ job[w].pc = "read"
            /\ Becomes(w, [job[w] EXCEPT !.pc = "release", !.plan = rec.ev,
                                         !.after = "forget", !.seen = rec.owner])
      BY FindStrandedMoves DEF FindStranded, Stranded, At
    <2> QED
      BY ONLY <1>1, <2>1 DEF Becomes, Jobs
  <1>4. Forget(w) \/ ForgetIntent(w) =>
              /\ job[w].pc \in {"forget", "forgetIntent"} /\ job'[w] = [Fresh EXCEPT !.pc = "read"]
    <2>1. Forget(w) \/ ForgetIntent(w) => Becomes(w, [Fresh EXCEPT !.pc = "read"])
      BY ForgetMoves
    <2>2. Forget(w) \/ ForgetIntent(w) => job[w].pc \in {"forget", "forgetIntent"}
      BY DEF Forget, ForgetIntent, At
    <2> QED
      BY <2>1, <2>2 DEF Becomes
  <1>5. Pack(w) => /\ job[w].pc = "place" /\ job'[w].pc = "retain" /\ job'[w].arena = dir.arena
                   /\ job'[w].made = job[w].made /\ job'[w].plan = job[w].plan
                   /\ job'[w].after = job[w].after
    <2>1. Pack(w) =>
            job[w].pc = "place" /\ Becomes(w, [job[w] EXCEPT !.pc = "retain", !.arena = dir.arena])
      BY PackMoves DEF Pack, At
    <2> QED
      BY ONLY <1>1, <2>1 DEF Becomes, Jobs
  <1>6. LaunchUncertain(w) => job[w].pc = "launch" /\ job'[w] = [Fresh EXCEPT !.pc = "failed"]
    <2>1. LaunchUncertain(w) => job[w].pc = "launch" /\ job' = [job EXCEPT ![w] = Fails(w)]
      BY DEF LaunchUncertain, At
    <2>2. LaunchUncertain(w) => Becomes(w, Fails(w))
      BY <2>1, AgentKinds, FailMoves
    <2>3. Fails(w) = [Fresh EXCEPT !.pc = "failed"]
      BY DEF Fails
    <2> QED
      BY <2>1, <2>2, <2>3 DEF Becomes
  <1> QED
    BY <1>2, <1>3, <1>4, <1>5, <1>6

(* What Point does to the pointer and to the request.                      *)
LEMMA PointsTo ==
  ASSUME TypeOK, NEW w \in Worker, Point(w)
  PROVE  \E a \in Arena :
           /\ \/ dir.status = "creating" /\ a = dir.arena
              \/ ~dir.open /\ dir.status # "creating" /\ gs[a] = "none" /\ rec.intent # a
           /\ dir' = [status |-> "creating", open |-> TRUE, arena |-> a, creator |-> w, packed |-> {}]
           /\ job[w].pc = "place" /\ job'[w].pc = "intent" /\ job'[w].arena = a /\ job'[w].made
           /\ job'[w].plan = job[w].plan /\ job'[w].after = job[w].after
  <1>1. PICK a \in Arena :
           /\ \/ dir.status = "creating" /\ a = dir.arena
              \/ ~dir.open /\ dir.status # "creating" /\ gs[a] = "none" /\ rec.intent # a
           /\ dir' = [status |-> "creating", open |-> TRUE, arena |-> a, creator |-> w, packed |-> {}]
           /\ job' = [job EXCEPT ![w].pc = "intent", ![w].arena = a, ![w].made = TRUE]
    BY DEF Point
  <1>2. Becomes(w, [job[w] EXCEPT !.pc = "intent", !.arena = a, !.made = TRUE]) /\ job[w] \in Jobs
    BY <1>1, AgentKinds, JobFields, PointMoves
  <1>3. /\ job[w].pc = "place" /\ job'[w].pc = "intent" /\ job'[w].arena = a /\ job'[w].made
        /\ job'[w].plan = job[w].plan /\ job'[w].after = job[w].after
    BY <1>2 DEF Becomes, Jobs, Point, At
  <1> QED
    BY <1>1, <1>3

(* The steps that turn to a compensation, from where and with which plan.  *)
LEMMA TurnsWhere ==
  ASSUME TypeOK, NEW w \in Worker
  PROVE  /\ RetainRefused(w) => \A from : job[w].pc = from =>
              /\ Turns(w, from, {"unpoint", "unpack"}) /\ job'[w].plan.known = {} /\ ~job'[w].plan.window
              /\ job'[w].plan.terminate = job[w].made
              /\ job'[w].pc = IF job[w].made THEN "unpoint" ELSE "unpack"
         /\ PreflightRejected(w) =>
              /\ Turns(w, "widen", {"unpoint"}) /\ job'[w].plan.known = {} /\ ~job'[w].plan.window
              /\ job'[w].plan.terminate
         /\ Incomplete(w) =>
              /\ Turns(w, "await", {"unpoint", "keep"})
              /\ \/ job'[w].plan.known = {w} /\ batch[w].state = "live"
                 \/ job'[w].plan.known = {} /\ job'[w].plan.window
              /\ job'[w].plan.terminate = job[w].made
              /\ job'[w].pc = IF job[w].made THEN "unpoint" ELSE "keep"
         /\ PublishPointer(w) =>
              \/ Goes(w, "point", {"write"})
              \/ /\ Turns(w, "point", {"unpoint"})
                 /\ job'[w].plan.known = {w} /\ job'[w].plan.terminate
         /\ PublishRecord(w) =>
              \/ Goes(w, "write", {"activate"}) /\ rec' = [rec EXCEPT !.ev = Allocation(w)]
              \/ Turns(w, "write", {"keep"}) /\ job'[w].plan = Allocation(w)
         /\ Activate(w) =>
              \/ Goes(w, "activate", {"done"})
              \/ Turns(w, "activate", {"keep"}) /\ job'[w].plan = Allocation(w)
  <1>1. \A from, P : Moves(w, from, P) => Goes(w, from, P)
    BY AgentKinds, MovesShape DEF Goes, Same
  <1>2. \A p, e, from : (Plans(w, p, e) /\ job[w].pc = from /\ e.arena = job[w].arena) =>
                        (Turns(w, from, {p}) /\ job'[w].plan = e /\ job'[w].pc = p)
    BY AgentKinds, PlansShape DEF Turns
  <1>3. \A W \in SUBSET Worker, b, t \in BOOLEAN :
          LET e == Sees(job[w].arena, W, b, t)
          IN e.arena = job[w].arena /\ e.known = W /\ e.window = b /\ e.terminate = t
    BY AgentKinds, JobFields, SeesIsEvidence
  <1>4. {w} \in SUBSET Worker /\ {} \in SUBSET Worker /\ job[w].made \in BOOLEAN
    BY AgentKinds, JobFields
  <1>5. RetainRefused(w) => \A from : job[w].pc = from =>
              /\ Turns(w, from, {"unpoint", "unpack"}) /\ job'[w].plan.known = {} /\ ~job'[w].plan.window
              /\ job'[w].plan.terminate = job[w].made
              /\ job'[w].pc = IF job[w].made THEN "unpoint" ELSE "unpack"
    <2> SUFFICES ASSUME RetainRefused(w), NEW from, job[w].pc = from
                 PROVE  /\ Turns(w, from, {"unpoint", "unpack"}) /\ job'[w].plan.known = {} /\ ~job'[w].plan.window
                        /\ job'[w].plan.terminate = job[w].made
                        /\ job'[w].pc = IF job[w].made THEN "unpoint" ELSE "unpack"
      OBVIOUS
    <2> DEFINE e == Sees(job[w].arena, {}, FALSE, job[w].made)
               p == IF job[w].made THEN "unpoint" ELSE "unpack"
    <2>1. Plans(w, p, e)
      BY Refusing
    <2>2. e.arena = job[w].arena /\ e.known = {} /\ e.window = FALSE /\ e.terminate = job[w].made
      BY <1>3, <1>4
    <2> HIDE DEF e
    <2>3. Turns(w, from, {p}) /\ job'[w].plan = e /\ job'[w].pc = p
      BY <1>2, <2>1, <2>2
    <2> QED
      BY <2>2, <2>3 DEF Turns
  <1>6. PreflightRejected(w) =>
              /\ Turns(w, "widen", {"unpoint"}) /\ job'[w].plan.known = {} /\ ~job'[w].plan.window
              /\ job'[w].plan.terminate
    <2> SUFFICES ASSUME PreflightRejected(w)
                 PROVE  /\ Turns(w, "widen", {"unpoint"}) /\ job'[w].plan.known = {} /\ ~job'[w].plan.window
                        /\ job'[w].plan.terminate
      OBVIOUS
    <2> DEFINE e == Sees(job[w].arena, {}, FALSE, TRUE)
    <2>1. Plans(w, "unpoint", e) /\ job[w].pc = "widen"
      BY Planning DEF PreflightRejected, At
    <2>2. e.arena = job[w].arena /\ e.known = {} /\ e.window = FALSE /\ e.terminate = TRUE
      BY <1>3, <1>4
    <2> HIDE DEF e
    <2> QED
      BY <1>2, <2>1, <2>2
  <1>7. Incomplete(w) =>
              /\ Turns(w, "await", {"unpoint", "keep"})
              /\ \/ job'[w].plan.known = {w} /\ batch[w].state = "live"
                 \/ job'[w].plan.known = {} /\ job'[w].plan.window
              /\ job'[w].plan.terminate = job[w].made
              /\ job'[w].pc = IF job[w].made THEN "unpoint" ELSE "keep"
    <2> SUFFICES ASSUME Incomplete(w)
                 PROVE  /\ Turns(w, "await", {"unpoint", "keep"})
                        /\ \/ job'[w].plan.known = {w} /\ batch[w].state = "live"
                           \/ job'[w].plan.known = {} /\ job'[w].plan.window
                        /\ job'[w].plan.terminate = job[w].made
                        /\ job'[w].pc = IF job[w].made THEN "unpoint" ELSE "keep"
      OBVIOUS
    <2>1. PICK e : /\ e \in {Sees(job[w].arena, {w}, FALSE, job[w].made),
                             Sees(job[w].arena, {}, TRUE, job[w].made)}
                   /\ e.window \/ batch[w].state = "live"
                   /\ Plans(w, IF job[w].made THEN "unpoint" ELSE "keep", e)
      BY Planning
    <2>2. /\ e.arena = job[w].arena /\ e.terminate = job[w].made
          /\ (e.known = {w} /\ e.window = FALSE) \/ (e.known = {} /\ e.window = TRUE)
      <3>1. CASE e = Sees(job[w].arena, {w}, FALSE, job[w].made)
        BY <1>3, <1>4, <3>1
      <3>2. CASE e = Sees(job[w].arena, {}, TRUE, job[w].made)
        BY <1>3, <1>4, <3>2
      <3> QED
        BY <2>1, <3>1, <3>2
    <2>3. job[w].pc = "await"
      BY DEF Incomplete, At
    <2> DEFINE p == IF job[w].made THEN "unpoint" ELSE "keep"
    <2>4. Turns(w, "await", {p}) /\ job'[w].plan = e /\ job'[w].pc = p
      BY <1>2, <2>1, <2>2, <2>3
    <2> QED
      BY <2>1, <2>2, <2>4 DEF Turns
  <1>8. PublishPointer(w) =>
              \/ Goes(w, "point", {"write"})
              \/ /\ Turns(w, "point", {"unpoint"})
                 /\ job'[w].plan.known = {w} /\ job'[w].plan.terminate
    <2> SUFFICES ASSUME PublishPointer(w), Plans(w, "unpoint", Sees(job[w].arena, {w}, FALSE, TRUE))
                 PROVE  /\ Turns(w, "point", {"unpoint"})
                        /\ job'[w].plan.known = {w} /\ job'[w].plan.terminate
      BY <1>1, Planning
    <2> DEFINE e == Sees(job[w].arena, {w}, FALSE, TRUE)
    <2>1. Plans(w, "unpoint", e) /\ job[w].pc = "point"
      BY DEF PublishPointer, At
    <2>2. e.arena = job[w].arena /\ e.known = {w} /\ e.terminate = TRUE
      BY <1>3, <1>4
    <2> HIDE DEF e
    <2> QED
      BY <1>2, <2>1, <2>2
  <1>9. Allocation(w).arena = job[w].arena
    BY <1>3, <1>4 DEF Allocation
  <1>10. PublishRecord(w) =>
              \/ Goes(w, "write", {"activate"}) /\ rec' = [rec EXCEPT !.ev = Allocation(w)]
              \/ Turns(w, "write", {"keep"}) /\ job'[w].plan = Allocation(w)
    <2>1. PublishRecord(w) => job[w].pc = "write"
      BY DEF PublishRecord, At
    <2>2. Plans(w, "keep", Allocation(w)) /\ job[w].pc = "write" =>
            Turns(w, "write", {"keep"}) /\ job'[w].plan = Allocation(w)
      BY <1>2, <1>9
    <2>3. PublishRecord(w) =>
              \/ Moves(w, "write", {"activate"}) /\ rec' = [rec EXCEPT !.ev = Allocation(w)]
              \/ Plans(w, "keep", Allocation(w))
      BY Planning
    <2> QED
      BY <1>1, <2>1, <2>2, <2>3
  <1>11. Activate(w) =>
              \/ Goes(w, "activate", {"done"})
              \/ Turns(w, "activate", {"keep"}) /\ job'[w].plan = Allocation(w)
    <2>1. Activate(w) => job[w].pc = "activate"
      BY DEF Activate, At
    <2> QED
      BY <1>1, <1>2, <1>9, <2>1, Planning
  <1> QED
    BY <1>5, <1>6, <1>7, <1>8, <1>10, <1>11

(* The steps of a compensation, from where and where to.                   *)
LEMMA CompensatesHow ==
  ASSUME TypeOK, NEW x \in Agent
  PROVE  /\ ReleaseSessions(x) => Goes(x, "release", {"unpack"})
         /\ Unpack(x) => \/ Goes(x, "unpack", {"terminate"}) \/ Goes(x, "unpack", {job[x].after})
                         \/ job[x].pc = "unpack" /\ job'[x] = Fails(x)
         /\ TerminateSession(x) => \/ Goes(x, "terminate", {job[x].after})
                                   \/ job[x].pc = "terminate" /\ job'[x] = Fails(x)
  <1>1. job[x] \in Jobs
    BY JobFields
  <1>2. ReleaseSessions(x) => Goes(x, "release", {"unpack"})
    <2>1. SUFFICES ASSUME ReleaseSessions(x)
                   PROVE  Goes(x, "release", {"unpack"})
      OBVIOUS
    <2>2. PICK e \in {"no", "release"} : job' = [job EXCEPT ![x].pc = "unpack", ![x].err = e]
      BY <2>1 DEF ReleaseSessions
    <2>3. Becomes(x, [job[x] EXCEPT !.pc = "unpack", !.err = e]) /\ job[x].pc = "release"
      BY <2>1, <2>2, ReleaseMoves DEF ReleaseSessions, At
    <2> QED
      BY ONLY <1>1, <2>3 DEF Becomes, Goes, Same, Jobs
  <1>3. ASSUME NEW from, NEW e, Concludes(x, e), job[x].pc = from
        PROVE  Goes(x, from, {job[x].after}) \/ job'[x] = Fails(x)
    BY ONLY <1>1, <1>3 DEF Concludes, Goes, Same, Jobs
  <1>4. Unpack(x) => \/ Goes(x, "unpack", {"terminate"}) \/ Goes(x, "unpack", {job[x].after})
                     \/ job[x].pc = "unpack" /\ job'[x] = Fails(x)
    <2>1. SUFFICES ASSUME Unpack(x)
                   PROVE  \/ Goes(x, "unpack", {"terminate"}) \/ Goes(x, "unpack", {job[x].after})
                          \/ job[x].pc = "unpack" /\ job'[x] = Fails(x)
      OBVIOUS
    <2>2. job[x].pc = "unpack"
      BY <2>1 DEF Unpack, At
    <2>3. ASSUME NEW b \in BOOLEAN, Becomes(x, [job[x] EXCEPT !.pc = "terminate", !.emptied = b])
          PROVE  Goes(x, "unpack", {"terminate"})
      BY ONLY <1>1, <2>2, <2>3 DEF Becomes, Goes, Same, Jobs
    <2> QED
      BY <1>3, <2>1, <2>2, <2>3, UnpackMoves
  <1>5. TerminateSession(x) => \/ Goes(x, "terminate", {job[x].after})
                               \/ job[x].pc = "terminate" /\ job'[x] = Fails(x)
    BY <1>3, TerminateMoves DEF TerminateSession, At
  <1> QED
    BY <1>2, <1>4, <1>5

(* The locals of a request that has just read, or has ended.               *)
LEMMA FreshFields ==
  \A p : LET j == [Fresh EXCEPT !.pc = p]
         IN /\ j.pc = p /\ j.after = "idle" /\ j.plan = NoEvidence /\ ~j.made /\ j.arena = None
            /\ NoEvidence.known = {} /\ NoEvidence.arena = None /\ j.err = "no"
  <1>1. NoEvidence.known = {} /\ NoEvidence.arena = None
    BY DEF NoEvidence, Sees
  <1>2. \A p : LET j == [Fresh EXCEPT !.pc = p]
               IN j.pc = p /\ j.after = "idle" /\ j.plan = NoEvidence /\ ~j.made /\ j.arena = None /\ j.err = "no"
    BY DEF Fresh
  <1> QED
    BY <1>1, <1>2

(* The same facts one by one, and those of Fails.                          *)
LEMMA FreshPlan ==
  /\ \A p : /\ [Fresh EXCEPT !.pc = p].plan.known = {} /\ [Fresh EXCEPT !.pc = p].plan.arena = None
            /\ [Fresh EXCEPT !.pc = p].pc = p /\ [Fresh EXCEPT !.pc = p].after = "idle"
  /\ \A x : /\ Fails(x).plan.known = {} /\ Fails(x).plan.arena = None /\ Fails(x).after = "idle"
            /\ Fails(x).pc = IF x \in Worker THEN "failed" ELSE "idle"
  BY DEF Fails, Fresh, NoEvidence, Sees

(* What Fails leaves of a worker and of a canceller.                       *)
LEMMA FailsHow ==
  /\ \A w \in Worker : Fails(w) = [Fresh EXCEPT !.pc = "failed"]
  /\ \A c \in Canceller : Fails(c) = [Fresh EXCEPT !.pc = "idle"]
  <1>1. [Fresh EXCEPT !.pc = "idle"] = Fresh
    <2>1. Fresh \in Jobs /\ Fresh.pc = "idle"
      BY FreshIsJob DEF Fresh
    <2> QED
      BY <2>1 DEF Jobs
  <1> QED
    BY <1>1, AgentKinds DEF Fails

(* A request that rests leaves everything else alone and forgets at most.  *)
LEMMA RestsHow ==
  ASSUME Typed, NEW w \in Worker, Rests(w)
  PROVE  /\ ~Ended(w) /\ OthersStay(w) /\ job'[w].pc \in Outside
         /\ UNCHANGED <<rec, dir, gs, batch, published>>
         /\ job'[w].after = "idle" /\ job'[w].plan.known \subseteq job[w].plan.known
         /\ (job'[w].plan = job[w].plan \/ job'[w].plan = NoEvidence)
         /\ job'[w].pc \in Before => job[w].pc \in Before
         /\ job'[w].made => job[w].made /\ job'[w].arena = job[w].arena
  <1>1. /\ TypeOK /\ w \in Agent /\ job[w] \in Jobs /\ WorkerShape(job[w])
    BY AgentKinds, JobFields DEF Typed, Shapes
  <1>2. UNCHANGED <<rec, dir, gs, batch, published>>
    BY DEF Rests, Start, FindAnswer, Throws, KillRefused, CleanupFails, Die
  <1>3. OthersStay(w)
    BY <1>1, WorkerStepShape, CompensationShape DEF Rests, WorkerStep
  <1>4. CASE Start(w) \/ FindAnswer(w)
    <2>1. Goes(w, "idle", {"read"}) \/ Goes(w, "read", {"done", "failed"})
      BY <1>1, <1>4, GoesWhere
    <2>2. job[w].after = "idle"
      BY <1>1, <2>1 DEF Goes, WorkerShape, Compensating
    <2> QED
      BY <1>2, <1>3, <2>1, <2>2 DEF Goes, Same, Ended, Outside, Before
  <1>5. CASE Throws(w) \/ Die(w)
    <2>1. PICK p \in {"failed", "dead"} : job'[w] = [Fresh EXCEPT !.pc = p]
      BY <1>1, <1>5, EndMoves, FailsHow DEF Becomes
    <2>2. ~Ended(w)
      BY <1>5 DEF Throws, KillRefused, CleanupFails, Die, Ended, At
    <2> QED
      BY <1>2, <1>3, <2>1, <2>2, FreshFields DEF Outside, Before, Replaying
  <1> QED
    BY <1>4, <1>5 DEF Rests

(* A request that works owns the record, or comes to own it.               *)
LEMMA WorksHow ==
  ASSUME Typed, NEW w \in Worker, Works(w)
  PROVE  /\ ~Ended(w) /\ OthersStay(w) /\ WorkerShape(job'[w])
         /\ Working(w) \/ Own(w) \/ Fence(w) \/ FindStranded(w)
  <1>1. TypeOK /\ w \in Agent /\ WorkerShape(job[w])
    BY AgentKinds DEF Typed, Shapes
  <1>2. OthersStay(w) /\ WorkerShape(job'[w])
    BY <1>1, WorkerStepShape, CompensationShape DEF Works, Shaped
  <1>3. CASE WorkerStep(w) /\ ~FindAnswer(w) /\ ~Own(w) /\ ~Fence(w) /\ ~FindStranded(w)
    <2>1. job[w].pc \in {"place", "intent", "launch", "retain", "widen", "create", "await", "point", "write",
                         "activate", "unpoint", "keep", "close", "forget", "forgetIntent"}
      BY <1>3
         DEF WorkerStep, Forget, ForgetIntent, Pack, GiveUp, Point, RetainIntent, LaunchAnswered, LaunchRefused,
             LaunchUncertain, Retain, Widen, PreflightRejected, CreateSessions, Answered, Incomplete, PublishPointer,
             PublishRecord, Activate, Unpoint, Keep, Close, At
    <2> QED
      BY <1>2, <2>1 DEF Working, Outside, Ended
  <1>4. CASE Own(w) \/ Fence(w) \/ FindStranded(w)
    <2>1. job[w].pc = "read"
      BY <1>4 DEF Own, Fence, FindStranded, Stranded, At
    <2> QED
      BY <1>2, <1>4, <2>1 DEF Ended
  <1>5. CASE Compensate(w)
    <2>1. job[w].pc \in {"release", "unpack", "terminate", "replay", "kill"}
      BY <1>5 DEF Compensate, ReleaseSessions, Unpack, TerminateSession, Replay, Kill, At
    <2> QED
      BY <1>2, <2>1 DEF Working, Outside, Ended
  <1> QED
    BY <1>3, <1>4, <1>5 DEF Works

(* Nobody's steps leave every request's locals alone.                      *)
LEMMA AroundKeeps ==
  ASSUME Around
  PROVE  job' = job
  BY DEF Around, RemovePointer, GameLiftReserves, LeaseExpires, PointerAges, ArenaReopens, OtherJoins, OtherLeaves

(* A canceller's steps leave the workers' locals alone.                    *)
LEMMA CancellingHow ==
  ASSUME Typed, NEW c \in Canceller, Cancelling(c)
  PROVE  /\ OthersStay(c) /\ CancellerShape(job'[c])
         /\ \A w \in Worker : job'[w] = job[w]
  <1>1. OthersStay(c) /\ CancellerShape(job'[c])
    BY AgentKinds, CancellerStepShape, CompensationShape DEF Cancelling, Shaped
  <1> QED
    BY <1>1, AgentKinds DEF OthersStay

(* A request that has ended stays ended.                                   *)
LEMMA EndedStays ==
  ASSUME Typed, Next, NEW v \in Worker, Ended(v)
  PROVE  Ended(v)'
  <1>1. ASSUME NEW w \in Worker, Rests(w) \/ Works(w)
        PROVE  Ended(v)'
    <2>1. ~Ended(w) /\ OthersStay(w)
      BY <1>1, RestsHow, WorksHow
    <2> QED
      BY <2>1, AgentKinds DEF OthersStay, Ended
  <1>2. ASSUME NEW c \in Canceller, Cancelling(c)
        PROVE  Ended(v)'
    BY <1>2, CancellingHow DEF Ended
  <1>3. CASE Around
    BY <1>3, AroundKeeps DEF Ended
  <1> QED
    BY <1>1, <1>2, <1>3, ByWhom

(***************************************************************************)
(* The record.                                                             *)
(***************************************************************************)
Retires(w) == Forget(w) \/ ForgetIntent(w) \/ Close(w)
Evidences(w) == Retain(w) \/ Widen(w) \/ PublishRecord(w) \/ Unpoint(w) \/ Keep(w)
Cancelled(r) == [r EXCEPT !.status = "cancelled", !.owner = None, !.lease = "none"]

(* Every way a step can change the record.                                 *)
LEMMA RecordHow ==
  ASSUME Typed, Next
  PROVE  \/ rec' = rec
         \/ \E w \in Worker : (Own(w) \/ Fence(w)) /\ rec' = Owning(w)
         \/ \E w \in Worker : Retires(w) /\ rec.status = "allocating" /\ rec' = NoRecord
         \/ \E w \in Worker : RetainIntent(w) /\ Owns(w) /\ rec' = [rec EXCEPT !.intent = job[w].arena]
         \/ \E w \in Worker, e \in Evidence :
              Evidences(w) /\ MayRetain(w) /\ rec' = [rec EXCEPT !.ev = e]
         \/ \E w \in Worker : /\ Activate(w) /\ Owns(w)
                              /\ rec' = [rec EXCEPT !.status = "active", !.owner = None, !.lease = "none"]
         \/ \E w \in Worker : Close(w) /\ rec.status = "cancelling" /\ rec' = Cancelled(rec)
         \/ \E c \in Canceller : Finish(c) /\ rec.status = "cancelling" /\ rec' = Cancelled(rec)
         \/ \E c \in Canceller : /\ Tombstone(c) /\ rec.status \in {"none", "cancelled"}
                                 /\ rec' = [rec EXCEPT !.status = "cancelled"]
         \/ \E c \in Canceller : /\ Mark(c)
                                 /\ rec.status \in {"allocating", "active", "cancelling"}
                                 /\ rec' = [rec EXCEPT !.status = "cancelling"]
         \/ LeaseExpires /\ rec' = [rec EXCEPT !.lease = "expired"] /\ rec.lease = "held" /\ Ended(rec.owner)
  <1>1. TypeOK
    BY DEF Typed
  <1>2. ASSUME NEW w \in Worker, Own(w) \/ Fence(w)
        PROVE  rec' = Owning(w)
    BY <1>2 DEF Own, Fence
  <1>3. ASSUME NEW w \in Worker, Retires(w)
        PROVE  \/ rec' = rec
               \/ rec.status = "allocating" /\ rec' = NoRecord
               \/ Close(w) /\ rec.status = "cancelling" /\ rec' = Cancelled(rec)
    BY <1>3 DEF Retires, Forget, ForgetIntent, Close, Owns, Cancelled
  <1>4. ASSUME NEW w \in Worker, RetainIntent(w)
        PROVE  \/ rec' = rec
               \/ Owns(w) /\ rec' = [rec EXCEPT !.intent = job[w].arena]
    BY <1>4 DEF RetainIntent
  <1>5. ASSUME NEW w \in Worker, Evidences(w)
        PROVE  \/ rec' = rec
               \/ MayRetain(w) /\ \E e \in Evidence : rec' = [rec EXCEPT !.ev = e]
    <2>1. /\ w \in Agent /\ job[w].arena \in Arena \union {None} /\ job[w].made \in BOOLEAN
          /\ job[w].plan \in Evidence /\ {w} \in SUBSET Worker /\ {} \in SUBSET Worker
      BY <1>1, AgentKinds, JobFields
    <2>2. CASE Retain(w) \/ Widen(w)
      <3>1. \A b, t \in BOOLEAN : Sees(job[w].arena, {}, b, t) \in Evidence
        BY <2>1, SeesIsEvidence
      <3>2. CASE RetainRefused(w)
        BY <1>1, <3>2, Refusing
      <3>3. CASE ~RetainRefused(w)
        <4>1. PICK b \in BOOLEAN : MayRetain(w) /\ rec' = [rec EXCEPT !.ev = Sees(job[w].arena, {}, b, job[w].made)]
          BY <1>1, <2>2, <3>3, Retaining
        <4> QED
          BY <2>1, <3>1, <4>1
      <3> QED
        BY <3>2, <3>3
    <2>3. CASE PublishRecord(w)
      <3>1. Allocation(w) \in Evidence
        BY <2>1, SeesIsEvidence DEF Allocation
      <3> QED
        BY <2>3, <3>1 DEF PublishRecord, MayRetain
    <2>4. CASE Unpoint(w)
      <3>1. PICK t \in BOOLEAN : rec' = Retained(w, [job[w].plan EXCEPT !.terminate = t])
        BY <1>1, <2>4, Planning
      <3>2. [job[w].plan EXCEPT !.terminate = t] \in Evidence
        BY <2>1 DEF Evidence
      <3> QED
        BY <3>1, <3>2 DEF Retained
    <2>5. CASE Keep(w)
      BY <2>1, <2>5 DEF Keep, Retained
    <2> QED
      BY <1>5, <2>2, <2>3, <2>4, <2>5 DEF Evidences
  <1>6. ASSUME NEW w \in Worker, Activate(w)
        PROVE  rec' = rec \/ (Owns(w) /\ rec' = [rec EXCEPT !.status = "active", !.owner = None, !.lease = "none"])
    BY <1>6 DEF Activate
  <1>7. ASSUME NEW w \in Worker, Start(w) \/ WorkerStep(w) \/ RemovePointer(w) \/ GameLiftReserves(w)
        PROVE  \/ rec' = rec \/ Own(w) \/ Fence(w) \/ Retires(w) \/ RetainIntent(w) \/ Evidences(w) \/ Activate(w)
    BY <1>7, RecordKept DEF WorkerStep, Retires, Evidences
  <1>8. ASSUME NEW c \in Canceller, CancellerStep(c)
        PROVE  \/ rec' = rec
               \/ Finish(c) /\ rec.status = "cancelling" /\ rec' = Cancelled(rec)
               \/ /\ Tombstone(c) /\ rec.status \in {"none", "cancelled"}
                  /\ rec' = [rec EXCEPT !.status = "cancelled"]
               \/ /\ Mark(c)
                  /\ rec.status \in {"allocating", "active", "cancelling"}
                  /\ rec' = [rec EXCEPT !.status = "cancelling"]
    <2>1. CASE Tombstone(c) \/ Mark(c)
      BY <2>1 DEF Tombstone, Mark, SeenStatus
    <2>2. CASE Finish(c)
      BY <1>1, <2>2, FinishMoves DEF Cancelled
    <2>3. CASE Ask(c) \/ Looks(c) \/ Complete(c)
      BY <2>3, RecordKept
    <2> QED
      BY <1>8, <2>1, <2>2, <2>3 DEF CancellerStep, Looks
  <1>9. CASE LeaseExpires
    BY <1>9 DEF LeaseExpires
  <1>10. \/ rec' = rec
         \/ \E w \in Worker : Own(w) \/ Fence(w) \/ Retires(w) \/ RetainIntent(w) \/ Evidences(w) \/ Activate(w)
         \/ \E c \in Canceller : CancellerStep(c)
         \/ LeaseExpires
    BY <1>7, RecordKept DEF Next
  <1> QED
    BY <1>2, <1>3, <1>4, <1>5, <1>6, <1>8, <1>9, <1>10

(* A claim once being cancelled is not open again.                         *)
LEMMA OpenBack ==
  ASSUME Typed, Next, Open'
  PROVE  Open
  <1>1. TypeOK /\ rec \in Records
    BY DEF Typed, TypeOK
  <1>2. SUFFICES ASSUME rec.status \in {"cancelling", "cancelled"}
                 PROVE  rec'.status \in {"cancelling", "cancelled"}
    BY <1>1, RecFields DEF Open
  <1>3. \A w \in Worker : ~Own(w) /\ ~Fence(w) /\ ~Owns(w)
    BY <1>2 DEF Own, Fence, Stranded, Owns
  <1> QED
    BY <1>1, <1>2, <1>3, RecordHow DEF Records, Cancelled

(* RecordSound is inductive: an expired lease always means a dead owner.   *)
LEMMA RecordSoundStep ==
  ASSUME Typed, Next, RecordSound
  PROVE  RecordSound'
  <1>1. rec \in Records /\ \A w \in Worker : w # None
    BY AllocationAssumption DEF Typed, TypeOK, Agent
  <1>2. /\ RecordForm(rec) /\ RecordForm(NoRecord)
        /\ \A w \in Worker : RecordForm(Owning(w)) /\ Owning(w).lease = "held"
        /\ NoRecord.lease = "none"
    BY <1>1 DEF RecordSound, RecordForm, NoRecord, Owning, Records
  <1>3. ASSUME rec.status # "none"
        PROVE  /\ \A a : RecordForm([rec EXCEPT !.intent = a])
               /\ \A e : RecordForm([rec EXCEPT !.ev = e])
    BY <1>1, <1>2, <1>3 DEF RecordForm, Records
  <1>4. /\ RecordForm([rec EXCEPT !.status = "active", !.owner = None, !.lease = "none"])
        /\ RecordForm(Cancelled(rec))
        /\ RecordForm([rec EXCEPT !.status = "cancelled"])
        /\ RecordForm([rec EXCEPT !.status = "cancelling"])
        /\ rec.lease = "held" => RecordForm([rec EXCEPT !.lease = "expired"])
    BY <1>1, <1>2 DEF RecordForm, Records, Cancelled, NoRecord
  <1>5. \A w \in Worker : Owns(w) \/ MayRetain(w) => rec.status # "none"
    BY DEF Owns, MayRetain
  <1>6. RecordForm(rec)'
    <2>1. RecordForm(rec')
      BY <1>2, <1>3, <1>4, <1>5, RecordHow
    <2> QED
      BY <2>1 DEF RecordForm
  <1>7. rec'.lease = "expired" =>
          rec'.owner = rec.owner /\ rec.owner \in Worker /\ Ended(rec.owner)
    <2>1. rec.lease = "expired" => Ended(rec.owner)
      BY DEF RecordSound
    <2>2. rec.lease # "none" => rec.owner \in Worker
      BY <1>1, <1>2 DEF RecordForm, Records
    <2>3. rec'.lease = "expired" =>
            /\ rec'.owner = rec.owner
            /\ rec.lease = "expired" \/ (rec.lease = "held" /\ Ended(rec.owner))
      BY <1>1, <1>2, RecordHow DEF Records, Cancelled
    <2> QED
      BY <2>1, <2>2, <2>3
  <1>8. rec'.lease = "expired" => Ended(rec.owner)'
    <2>1. \A v \in Worker : Ended(v) => Ended(v)'
      BY EndedStays
    <2> QED
      BY <1>7, <2>1 DEF Ended
  <1> QED
    BY <1>6, <1>8 DEF RecordSound

(***************************************************************************)
(* Who works.                                                              *)
(***************************************************************************)
LEMMA Alone ==
  ASSUME Typed, RecordSound, OneWorks, Titles, ~SlowCleaner, NEW w \in Worker, Works(w),
         NEW v \in Worker, v # w
  PROVE  ~Working(v) /\ job'[v] = job[v]
  <1>1. job'[v] = job[v] /\ (Working(w) \/ Own(w) \/ Fence(w) \/ FindStranded(w))
    BY WorksHow, AgentKinds DEF OthersStay
  <1>2. CASE Working(w)
    BY <1>1, <1>2 DEF OneWorks
  <1>3. CASE (Own(w) \/ Fence(w) \/ FindStranded(w)) /\ Working(v)
    <2>1. rec.status \in {"none", "allocating"}
      BY <1>3 DEF Own, Fence, FindStranded, Stranded
    <2>2. Entitled(v)
      BY <1>3, <2>1 DEF Titles, Open
    <2>3. rec.status = "allocating"
      BY <2>1, <2>2 DEF Entitled
    <2>4. /\ rec.lease = "expired"
          /\ FindStranded(w) \/ ~HasEvidence
          /\ FindStranded(w) => ~Cleaning(v)
      BY <1>3, <2>3, AgentKinds DEF Own, Fence, FindStranded, Stranded, Cleaning
    <2>5. Cleaning(v) /\ rec.ev = job[v].plan
      BY <2>2, <2>3, <2>4 DEF Entitled
    <2>6. job[v].plan.arena # None
      BY <2>5 DEF Typed, Shapes, WorkerShape, Cleaning
    <2> QED
      BY <2>4, <2>5, <2>6 DEF HasEvidence
  <1> QED
    BY <1>1, <1>2, <1>3

(* OneWorks is inductive, from the titles.                                 *)
LEMMA OneWorksStep ==
  ASSUME Typed, Next, RecordSound, OneWorks, Titles, ~SlowCleaner
  PROVE  OneWorks'
  <1>1. ASSUME NEW w \in Worker, Rests(w)
        PROVE  OneWorks'
    <2>1. OthersStay(w) /\ job'[w].pc \in Outside
      BY <1>1, RestsHow
    <2> QED
      BY <2>1, AgentKinds DEF OthersStay, OneWorks, Working
  <1>2. ASSUME NEW w \in Worker, Works(w)
        PROVE  OneWorks'
    <2>1. \A v \in Worker : v # w => ~Working(v) /\ job'[v] = job[v]
      BY <1>2, Alone
    <2> QED
      BY <2>1 DEF OneWorks, Working
  <1>3. ASSUME NEW c \in Canceller, Cancelling(c)
        PROVE  OneWorks'
    BY <1>3, CancellingHow DEF OneWorks, Working
  <1>4. CASE Around
    BY <1>4, AroundKeeps DEF OneWorks, Working
  <1> QED
    BY <1>1, <1>2, <1>3, <1>4, ByWhom

(* While the claim is not being cancelled only requests compensate. *)
LEMMA OpenCancellers ==
  ASSUME Typed, Next, Titles, Open'
  PROVE  /\ Open
         /\ \A c \in Canceller : Cancelling(c) => UNCHANGED <<rec, dir, gs, batch, published>>
         /\ \A c \in Canceller : job'[c].pc \in {"idle", "read", "mark"}
  <1>1. TypeOK /\ Open /\ \A c \in Canceller : job[c].pc \in {"idle", "read", "mark"}
    BY OpenBack DEF Typed, Titles
  <1>2. ASSUME NEW c \in Canceller, Cancelling(c)
        PROVE  UNCHANGED <<rec, dir, gs, batch, published>> /\ job'[c].pc \in {"idle", "read", "mark"}
    <2>1. Ask(c) \/ FindUncancelled(c) \/ MarkRefused(c) \/ Die(c)
      <3>1. ~Tombstone(c) /\ ~Mark(c)
        <4>1. ASSUME Tombstone(c) \/ Mark(c)
              PROVE  rec'.status \in {"cancelling", "cancelled"}
          BY <1>1, <4>1 DEF Tombstone, Mark, TypeOK, Records
        <4> QED
          BY <4>1 DEF Open
      <3>2. ~FindCancelling(c) /\ ~ReadPointer(c)
        BY <1>1 DEF FindCancelling, ReadPointer, Open, At
      <3>3. ~Finish(c) /\ ~Complete(c) /\ ~Compensate(c) /\ ~Throws(c)
        BY <1>1 DEF Finish, Complete, Compensate, ReleaseSessions, Unpack, TerminateSession, Replay, Kill,
                    Throws, KillRefused, CleanupFails, At
      <3> QED
        BY <1>2, <3>1, <3>2, <3>3 DEF Cancelling, CancellerStep
    <2>2. UNCHANGED <<rec, dir, gs, batch, published>>
      BY <2>1 DEF Ask, FindUncancelled, MarkRefused, Die
    <2>3. CASE Ask(c)
      <3>1. Moves(c, "idle", {"read"})
        BY <1>1, <2>3, CancellerMoving
      <3> QED
        BY <1>1, <2>2, <3>1, AgentKinds, MovesShape
    <2>4. CASE Die(c)
      <3>1. job'[c] = Fresh
        BY <1>1, <2>4, AgentKinds, EndMoves DEF Becomes
      <3> QED
        BY <2>2, <3>1 DEF Fresh
    <2>5. CASE FindUncancelled(c)
      BY <1>1, <2>2, <2>5, FindsHow
    <2>6. CASE MarkRefused(c)
      <3>1. ~Mark(c)
        BY <2>6 DEF Mark, MarkRefused
      <3>2. job'[c] = [Fresh EXCEPT !.pc = "read"]
        BY <1>1, <2>6, <3>1, MarkHow
      <3>3. job'[c].pc = "read"
        BY <3>2, FreshPlan
      <3> QED
        BY <2>2, <3>3
    <2> QED
      BY <2>1, <2>3, <2>4, <2>5, <2>6
  <1>3. ASSUME NEW c \in Canceller, ~Cancelling(c)
        PROVE  job'[c].pc = job[c].pc
    <2>1. ASSUME NEW w \in Worker, Rests(w) \/ Works(w)
          PROVE  job'[c].pc = job[c].pc
      BY <2>1, RestsHow, WorksHow, AgentKinds DEF OthersStay
    <2>2. ASSUME NEW d \in Canceller, Cancelling(d)
          PROVE  job'[c].pc = job[c].pc
      BY <1>3, <2>2, CancellingHow, AgentKinds DEF OthersStay
    <2> QED
      BY <2>1, <2>2, AroundKeeps, ByWhom
  <1> QED
    BY <1>1, <1>2, <1>3

(* Places of a request that owns the record and has nothing to clean up. *)
Plain == {"place", "intent", "launch", "retain", "widen", "create", "await", "point", "write", "activate",
          "unpoint", "replay", "kill"}

(* The steps of an owner between two of its places. *)
LEMMA PlainSteps ==
  ASSUME Typed, NEW w \in Worker,
         \/ Pack(w) \/ GiveUp(w) \/ Point(w) \/ RetainIntent(w) \/ LaunchAnswered(w) \/ LaunchRefused(w)
         \/ LaunchUncertain(w) \/ Retain(w) \/ Widen(w) \/ PreflightRejected(w) \/ CreateSessions(w)
         \/ Answered(w) \/ Incomplete(w) \/ PublishPointer(w) \/ PublishRecord(w) \/ Unpoint(w)
         \/ Replay(w) \/ Kill(w)
  PROVE  /\ job[w].pc \in Plain /\ job[w].after # "forget" /\ job'[w].after # "forget"
         /\ rec'.status = rec.status /\ rec'.owner = rec.owner /\ rec'.lease = rec.lease
  <1>1. TypeOK /\ w \in Agent /\ job[w] \in Jobs /\ WorkerShape(job[w]) /\ rec \in Records
    BY AgentKinds, JobFields DEF Typed, Shapes, TypeOK
  <1>2. job[w].pc \in Plain
    BY DEF Pack, GiveUp, Point, RetainIntent, LaunchAnswered, LaunchRefused, LaunchUncertain, Retain, Widen,
           PreflightRejected, CreateSessions, Answered, Incomplete, PublishPointer, PublishRecord, Unpoint,
           Replay, Kill, At, Plain
  <1>3. job[w].after # "forget"
    BY <1>1, <1>2 DEF WorkerShape, Plain, Compensating
  <1>4. rec'.status = rec.status /\ rec'.owner = rec.owner /\ rec'.lease = rec.lease
    <2>1. CASE RetainIntent(w)
      BY <1>1, <2>1 DEF RetainIntent, Records
    <2>2. CASE PublishRecord(w) \/ Unpoint(w)
      BY <1>1, <2>2 DEF PublishRecord, Unpoint, Retained, Records
    <2>3. CASE (Retain(w) \/ Widen(w)) /\ ~RetainRefused(w)
      BY <1>1, <2>3 DEF Retain, Widen, Retained, Records
    <2>4. CASE RetainRefused(w)
      BY <2>4 DEF RetainRefused
    <2>5. CASE Replay(w) \/ Kill(w)
      BY <2>5 DEF Replay, Kill
    <2> QED
      BY <2>1, <2>2, <2>3, <2>4, <2>5, RecordKept
  <1>5. job'[w].after # "forget"
    <2>1. CASE \/ GiveUp(w) \/ RetainIntent(w) \/ LaunchAnswered(w) \/ LaunchRefused(w) \/ CreateSessions(w)
               \/ Answered(w) \/ Replay(w) \/ Kill(w)
      BY <1>1, <1>3, <2>1, GoesWhere DEF Goes, Same
    <2>2. CASE Pack(w) \/ LaunchUncertain(w)
      BY <1>1, <1>3, <2>2, SetsWhat, FreshFields
    <2>3. CASE Point(w)
      BY <1>1, <1>3, <2>3, PointsTo
    <2>4. CASE Unpoint(w)
      <3>1. \E e : Plans(w, "keep", e)
        BY <1>1, <2>4, Planning
      <3> QED
        BY <1>1, <3>1, PlansShape
    <2>5. CASE Retain(w) \/ Widen(w)
      <3>1. CASE RetainRefused(w)
        BY <1>1, <3>1, TurnsWhere DEF Turns
      <3>2. CASE ~RetainRefused(w)
        <4>1. \E from, P : Moves(w, from, P)
          BY <1>1, <2>5, <3>2, Retaining
        <4> QED
          BY <1>1, <1>3, <4>1, MovesShape
      <3> QED
        BY <3>1, <3>2
    <2>6. CASE PreflightRejected(w) \/ Incomplete(w) \/ PublishPointer(w) \/ PublishRecord(w)
      BY <1>1, <1>3, <2>6, TurnsWhere DEF Turns, Goes, Same
    <2> QED
      BY <2>1, <2>2, <2>3, <2>4, <2>5, <2>6
  <1> QED
    BY <1>2, <1>3, <1>4, <1>5

(* The request that works keeps, or obtains, its title.                    *)
LEMMA EntitledStep ==
  ASSUME Typed, RecordSound, NEW w \in Worker, Works(w), Open, Open',
         Working(w) => Entitled(w), job[w].pc = "activate" => rec.ev = Allocation(w)
  PROVE  Working(w)' => Entitled(w)'
  <1>1. /\ TypeOK /\ w \in Agent /\ job[w] \in Jobs /\ WorkerShape(job[w]) /\ rec \in Records
        /\ RecordForm(rec)
    BY AgentKinds, JobFields DEF Typed, Shapes, TypeOK, RecordSound
  <1>2. CASE Own(w) \/ Fence(w)
    <2>1. job[w].pc = "read" /\ job'[w].after = job[w].after
      BY <1>1, <1>2, GoesWhere, SetsWhat DEF Goes, Same
    <2>2. job[w].after = "idle"
      BY <1>1, <2>1 DEF WorkerShape, Compensating
    <2>3. rec' = Owning(w)
      BY <1>2 DEF Own, Fence
    <2>4. rec'.status = "allocating" /\ rec'.owner = w /\ rec'.lease = "held"
      BY <1>1, <2>3 DEF Owning, Records
    <2> QED
      BY <2>1, <2>2, <2>4 DEF Entitled, Cleaning
  <1>3. CASE FindStranded(w)
    <2>1. job'[w].plan = rec.ev /\ job'[w].after = "forget" /\ job'[w].seen = rec.owner
      BY <1>1, <1>3, SetsWhat
    <2>2. rec' = rec /\ rec.status = "allocating" /\ rec.lease = "expired"
      BY <1>3 DEF FindStranded, Stranded
    <2> QED
      BY <2>1, <2>2 DEF Entitled, Cleaning
  <1>4. CASE Retires(w)
    <2>1. job'[w].pc \in {"read", "failed"}
      BY <1>1, <1>4, SetsWhat, FreshFields, GoesWhere DEF Retires, Goes
    <2> QED
      BY <2>1 DEF Working, Outside
  <1>5. CASE \/ Pack(w) \/ GiveUp(w) \/ Point(w) \/ RetainIntent(w) \/ LaunchAnswered(w) \/ LaunchRefused(w)
             \/ LaunchUncertain(w) \/ Retain(w) \/ Widen(w) \/ PreflightRejected(w) \/ CreateSessions(w)
             \/ Answered(w) \/ Incomplete(w) \/ PublishPointer(w) \/ PublishRecord(w) \/ Unpoint(w)
             \/ Replay(w) \/ Kill(w)
    <2>1. /\ job[w].pc \in Plain /\ job[w].after # "forget" /\ job'[w].after # "forget"
          /\ rec'.status = rec.status /\ rec'.owner = rec.owner /\ rec'.lease = rec.lease
      BY <1>5, PlainSteps
    <2>2. Working(w) /\ job[w].pc # "keep"
      BY <2>1 DEF Working, Outside, Plain
    <2>3. rec.status = "allocating" /\ rec.owner = w /\ rec.lease = "held"
      BY <2>1, <2>2 DEF Entitled, Cleaning
    <2> QED
      BY <2>1, <2>3 DEF Entitled, Cleaning
  <1>6. CASE Activate(w)
    <2>1. CASE Goes(w, "activate", {"done"})
      BY <2>1 DEF Goes, Working, Outside
    <2>2. CASE Turns(w, "activate", {"keep"}) /\ job'[w].plan = Allocation(w)
      <3>1. job[w].pc = "activate" /\ job'[w].pc = "keep" /\ job'[w].after = "close"
        BY <2>2 DEF Turns
      <3>2. job[w].after # "forget" /\ Working(w)
        BY <1>1, <3>1 DEF WorkerShape, Compensating, Working, Outside
      <3>3. rec.status = "allocating" /\ rec.owner = w /\ rec.lease = "held" /\ rec.ev = Allocation(w)
        BY <3>1, <3>2 DEF Entitled, Cleaning
      <3>4. rec' = rec \/ rec' = [rec EXCEPT !.status = "active", !.owner = None, !.lease = "none"]
        BY <1>6 DEF Activate
      <3>5. rec' = rec \/ (rec'.status = "active" /\ rec'.ev = rec.ev)
        BY <1>1, <3>4 DEF Records
      <3> QED
        BY <2>2, <3>1, <3>3, <3>5 DEF Entitled, Cleaning
    <2> QED
      BY <1>1, <1>6, <2>1, <2>2, TurnsWhere
  <1>7. CASE Keep(w)
    <2>1. Goes(w, "keep", {"done", "release"})
      BY <1>1, <1>7, GoesWhere
    <2>2. job[w].after # "forget" /\ job'[w].after # "forget" /\ Working(w)
      BY <1>1, <2>1 DEF Goes, Same, WorkerShape, Compensating, Working, Outside
    <2>3. CASE rec.status = "active"
      <3>1. rec.ev = job[w].plan
        BY <2>2, <2>3 DEF Entitled, Cleaning
      <3>2. job'[w].pc = "done"
        <4>1. Go(w, "done")
          BY <1>7, <2>3, <3>1 DEF Keep
        <4>2. job'[w] = [job[w] EXCEPT !.pc = "done"]
          BY <1>1, <4>1, GoOf, PlaceNames
        <4> QED
          BY <1>1, <4>2 DEF Jobs
      <3> QED
        BY <3>2 DEF Working, Outside
    <2>4. CASE rec.status # "active"
      <3>1. rec.status = "allocating" /\ rec.owner = w /\ rec.lease = "held"
        BY <2>2, <2>4 DEF Entitled, Cleaning
      <3>2. rec' = Retained(w, job[w].plan)
        BY <1>7 DEF Keep
      <3>3. rec'.status = "allocating" /\ rec'.owner = w /\ rec'.lease = "held"
        BY <1>1, <3>1, <3>2 DEF Retained, Records
      <3> QED
        BY <2>2, <3>3 DEF Entitled, Cleaning
    <2> QED
      BY <2>3, <2>4
  <1>8. CASE ReleaseSessions(w) \/ Unpack(w) \/ TerminateSession(w)
    <2>1. job[w].pc \in Compensating /\ (job'[w] = Fails(w) \/ Same(w))
      BY <1>1, <1>8, CompensatesHow DEF Goes, Compensating
    <2>2. rec' = rec /\ Working(w) /\ job[w].pc # "keep"
      <3>1. rec' = rec
        BY <1>8 DEF ReleaseSessions, Unpack, TerminateSession
      <3> QED
        BY <2>1, <3>1 DEF Working, Outside, Compensating
    <2>3. CASE job'[w] = Fails(w)
      <3>1. job'[w].pc = "failed"
        BY <2>3, FailsHow, FreshFields
      <3> QED
        BY <3>1 DEF Working, Outside
    <2>4. CASE Same(w)
      BY <2>2, <2>4 DEF Same, Entitled, Cleaning
    <2> QED
      BY <2>1, <2>3, <2>4
  <1> QED
    BY <1>2, <1>3, <1>4, <1>5, <1>6, <1>7, <1>8 DEF Works, WorkerStep, Compensate, Retires

(* Titles is inductive.                                                    *)
LEMMA TitlesStep ==
  ASSUME Typed, Next, RecordSound, OneWorks, Titles, SeatsSound, ~SlowCleaner
  PROVE  Titles'
  <1> SUFFICES ASSUME Open'
               PROVE  /\ \A c \in Canceller : job'[c].pc \in {"idle", "read", "mark"}
                      /\ \A v \in Worker : Working(v)' => Entitled(v)'
    BY DEF Titles
  <1>1. /\ Open /\ \A c \in Canceller : job'[c].pc \in {"idle", "read", "mark"}
        /\ \A c \in Canceller : Cancelling(c) => UNCHANGED <<rec, dir, gs, batch, published>>
    BY OpenCancellers
  <1>2. \A v \in Worker : Working(v) => Entitled(v)
    BY <1>1 DEF Titles
  <1>3. ASSUME NEW w \in Worker, Rests(w), NEW v \in Worker, Working(v)'
        PROVE  Entitled(v)'
    <2>1. OthersStay(w) /\ job'[w].pc \in Outside /\ rec' = rec
      BY <1>3, RestsHow
    <2>2. v # w
      BY <1>3, <2>1 DEF Working
    <2>3. job'[v] = job[v]
      BY <2>1, <2>2, AgentKinds DEF OthersStay
    <2> QED
      BY <1>2, <1>3, <2>1, <2>3 DEF Working, Entitled, Cleaning
  <1>4. ASSUME NEW w \in Worker, Works(w), NEW v \in Worker, Working(v)'
        PROVE  Entitled(v)'
    <2>1. CASE v # w
      BY <1>4, <2>1, Alone DEF Working
    <2>2. CASE v = w
      <3>1. job[w].pc = "activate" => rec.ev = Allocation(w)
        BY <1>1 DEF SeatsSound, Seated
      <3> QED
        BY <1>1, <1>2, <1>4, <2>2, <3>1, EntitledStep
    <2> QED
      BY <2>1, <2>2
  <1>5. ASSUME NEW c \in Canceller, Cancelling(c), NEW v \in Worker, Working(v)'
        PROVE  Entitled(v)'
    <2>1. job'[v] = job[v] /\ rec' = rec
      BY <1>1, <1>5, CancellingHow
    <2> QED
      BY <1>2, <1>5, <2>1 DEF Working, Entitled, Cleaning
  <1>6. ASSUME Around, NEW v \in Worker, Working(v)'
        PROVE  Entitled(v)'
    <2>1. job' = job
      BY <1>6, AroundKeeps
    <2>2. Entitled(v) /\ Working(v)
      BY <1>2, <1>6, <2>1 DEF Working
    <2>3. CASE LeaseExpires
      <3>1. rec.lease = "held" /\ Ended(rec.owner)
        BY <2>3 DEF LeaseExpires
      <3>2. rec.status # "active"
        BY <3>1 DEF RecordSound, RecordForm
      <3>3. rec.owner = v
        BY <2>2, <3>1, <3>2 DEF Entitled
      <3> QED
        BY <2>2, <3>1, <3>3 DEF Ended, Working, Outside
    <2>4. CASE ~LeaseExpires
      <3>1. rec' = rec
        BY <1>6, <2>4, RecordKept DEF Around
      <3> QED
        BY <2>1, <2>2, <3>1 DEF Entitled, Cleaning
    <2> QED
      BY <2>3, <2>4
  <1> QED
    BY <1>1, <1>3, <1>4, <1>5, <1>6, ByWhom

(***************************************************************************)
(* The player sessions.                                                    *)
(***************************************************************************)
LEMMA BatchHow ==
  ASSUME Typed, Next, BatchesSound, NEW v \in Worker
  PROVE  \/ batch'[v] = batch[v]
         \/ /\ CreateSessions(v) /\ batch[v].state = "none"
            /\ batch'[v].state = "flying" /\ batch'[v].arena = job[v].arena
         \/ /\ GameLiftReserves(v) /\ batch[v].state = "flying" /\ batch'[v].arena = batch[v].arena
            /\ batch'[v].state = "over" \/ (batch'[v].state = "live" /\ gs[batch[v].arena] = "up")
         \/ /\ OtherLeaves \/ \E x \in Agent : ReleaseSessions(x) \/ TerminateSession(x) \/ Kill(x)
            /\ batch[v].state = "live" /\ batch'[v].state = "over" /\ batch'[v].arena = batch[v].arena
  <1>1. TypeOK /\ batch \in [Worker -> Batches] /\ batch[v] \in Batches
    BY DEF Typed, TypeOK
  <1>2. \A W : /\ Ends(W)[v].arena = batch[v].arena /\ Ends(W)[v] \in Batches
               /\ Ends(W)[v].state = IF v \in W THEN "over" ELSE batch[v].state
               /\ v \notin W => Ends(W)[v] = batch[v]
    BY <1>1, EndsOf
  <1>3. \A W : batch[v].state = "over" => Ends(W)[v] = batch[v]
    BY <1>1, <1>2 DEF Batches
  <1>4. ASSUME NEW w \in Worker, CreateSessions(w)
        PROVE  \/ batch'[v] = batch[v]
               \/ /\ CreateSessions(v) /\ batch[v].state = "none"
                  /\ batch'[v].state = "flying" /\ batch'[v].arena = job[v].arena
    <2>1. batch' = [batch EXCEPT ![w] = [state |-> "flying", arena |-> job[w].arena]] /\ job[w].pc = "create"
      BY <1>4 DEF CreateSessions, At
    <2>2. batch[w].state = "none"
      BY <2>1 DEF BatchesSound, BatchSound, Before
    <2> QED
      BY <1>1, <1>4, <2>1, <2>2
  <1>5. ASSUME NEW w \in Worker, GameLiftReserves(w)
        PROVE  \/ batch'[v] = batch[v]
               \/ /\ GameLiftReserves(v) /\ batch[v].state = "flying" /\ batch'[v].arena = batch[v].arena
                  /\ batch'[v].state = "over" \/ (batch'[v].state = "live" /\ gs[batch[v].arena] = "up")
    <2>1. CASE v # w
      BY <1>1, <1>2, <1>5, <2>1 DEF GameLiftReserves
    <2>2. CASE v = w /\ batch' = Ends({w})
      BY <1>2, <1>5, <2>2 DEF GameLiftReserves
    <2>3. CASE v = w /\ gs[batch[w].arena] = "up" /\ batch' = [batch EXCEPT ![w].state = "live"]
      <3>1. batch'[v].state = "live" /\ batch'[v].arena = batch[v].arena
        BY <1>1, <2>3 DEF Batches
      <3> QED
        BY <1>5, <2>3, <3>1 DEF GameLiftReserves
    <2> QED
      BY <1>5, <2>1, <2>2, <2>3 DEF GameLiftReserves
  <1>6. ASSUME NEW W, batch' = Ends(W), v \in W => batch[v].state \in {"live", "over"}
        PROVE  \/ batch'[v] = batch[v]
               \/ batch[v].state = "live" /\ batch'[v].state = "over" /\ batch'[v].arena = batch[v].arena
    BY <1>2, <1>3, <1>6
  <1>7. ASSUME NEW x \in Agent, ReleaseSessions(x) \/ TerminateSession(x) \/ Kill(x)
        PROVE  \/ batch'[v] = batch[v]
               \/ batch[v].state = "live" /\ batch'[v].state = "over" /\ batch'[v].arena = batch[v].arena
    <2>1. CASE ReleaseSessions(x)
      <3>1. PICK W : W \subseteq Targets(job[x].plan) /\ batch' = Ends(W)
        BY <2>1 DEF ReleaseSessions
      <3>2. v \in Targets(job[x].plan) => batch[v].state \in {"live", "over"}
        BY DEF Targets, In, BatchesSound, KnownIn, KnownAt
      <3> QED
        BY <1>6, <3>1, <3>2
    <2>2. CASE TerminateSession(x) \/ Kill(x)
      <3>1. PICK a : batch' = Ends(In(a, {"live"}))
        BY <2>2 DEF TerminateSession, Kill
      <3>2. v \in In(a, {"live"}) => batch[v].state = "live"
        BY DEF In
      <3> QED
        BY <1>6, <3>1, <3>2
    <2> QED
      BY <1>7, <2>1, <2>2
  <1>8. CASE OtherLeaves
    <2>1. batch' = batch \/ batch' = Ends(In(dir.arena, {"live"}))
      BY <1>8 DEF OtherLeaves
    <2>2. v \in In(dir.arena, {"live"}) => batch[v].state = "live"
      BY DEF In
    <2> QED
      BY <1>6, <1>8, <2>1, <2>2
  <1>9. \/ batch' = batch \/ OtherLeaves
        \/ \E w \in Worker : CreateSessions(w) \/ GameLiftReserves(w)
        \/ \E x \in Agent : ReleaseSessions(x) \/ TerminateSession(x) \/ Kill(x)
    BY BatchesKept DEF Next, Compensate
  <1> QED
    BY <1>4, <1>5, <1>7, <1>8, <1>9

(* Player sessions somebody knows of stay made, in their arena.            *)
LEMMA KnownStays ==
  ASSUME Typed, Next, BatchesSound, NEW K \in SUBSET Worker, NEW a, KnownAt(K, a)
  PROVE  \A v \in K : batch'[v].state \in {"live", "over"} /\ batch'[v].arena = a
  <1>1. \A v \in Worker : batch[v].state \in {"live", "over"} =>
          batch'[v].state \in {"live", "over"} /\ batch'[v].arena = batch[v].arena
    BY BatchHow
  <1> QED
    BY <1>1 DEF KnownAt

(* Where a plan comes from. *)
LEMMA PlanHow ==
  ASSUME Typed, Next, NEW x \in Agent
  PROVE  \/ job'[x].plan.known = {}
         \/ job'[x].plan.known = job[x].plan.known /\ job'[x].plan.arena = job[x].plan.arena
         \/ job'[x].plan = rec.ev
         \/ /\ x \in Worker /\ job'[x].plan.known = {x} /\ job'[x].plan.arena = job[x].arena
            /\ (job[x].pc = "await" /\ batch[x].state = "live") \/ job[x].pc \in Publishing
  <1>1. TypeOK /\ job[x] \in Jobs
    BY JobFields DEF Typed
  <1>2. CASE job'[x] = job[x]
    BY <1>2
  <1>3. ASSUME NEW w \in Worker, Rests(w)
        PROVE  w = x => \/ job'[x].plan.known = {}
                        \/ job'[x].plan.known = job[x].plan.known /\ job'[x].plan.arena = job[x].plan.arena
    BY <1>3, RestsHow, FreshFields
  <1>4. ASSUME NEW w \in Worker, Works(w), w = x
        PROVE  \/ job'[x].plan.known = {}
               \/ job'[x].plan.known = job[x].plan.known /\ job'[x].plan.arena = job[x].plan.arena
               \/ job'[x].plan = rec.ev
               \/ /\ x \in Worker /\ job'[x].plan.known = {x} /\ job'[x].plan.arena = job[x].arena
                  /\ (job[x].pc = "await" /\ batch[x].state = "live") \/ job[x].pc \in Publishing
    <2>1. CASE \/ Own(w) \/ GiveUp(w) \/ RetainIntent(w) \/ LaunchAnswered(w) \/ LaunchRefused(w)
               \/ CreateSessions(w) \/ Answered(w) \/ Keep(w) \/ Close(w) \/ Replay(w) \/ Kill(w)
      BY <1>1, <1>4, <2>1, GoesWhere DEF Goes, Same
    <2>2. CASE \/ Fence(w) \/ FindStranded(w) \/ Forget(w) \/ ForgetIntent(w) \/ Pack(w) \/ LaunchUncertain(w)
      <3>1. CASE Forget(w) \/ ForgetIntent(w) \/ LaunchUncertain(w)
        <4>1. \E p : job'[w] = [Fresh EXCEPT !.pc = p]
          BY <1>1, <3>1, SetsWhat
        <4>2. job'[w].plan.known = {}
          BY <4>1, FreshPlan
        <4> QED
          BY <1>4, <4>2
      <3>2. CASE Fence(w) \/ FindStranded(w) \/ Pack(w)
        BY <1>1, <1>4, <3>2, SetsWhat
      <3> QED
        BY <2>2, <3>1, <3>2
    <2>3. CASE Point(w)
      BY <1>1, <1>4, <2>3, PointsTo
    <2>4. CASE (Retain(w) \/ Widen(w)) /\ ~RetainRefused(w)
      <3>1. \E from, P : Moves(w, from, P)
        BY <1>1, <2>4, Retaining
      <3> QED
        BY <1>1, <1>4, <3>1, MovesShape
    <2>5. CASE RetainRefused(w)
      BY <1>1, <1>4, <2>5, TurnsWhere
    <2>6. CASE PreflightRejected(w)
      BY <1>1, <1>4, <2>6, TurnsWhere
    <2>7. CASE Incomplete(w)
      BY <1>1, <1>4, <2>7, TurnsWhere DEF Turns
    <2>8. CASE PublishPointer(w)
      BY <1>1, <1>4, <2>8, TurnsWhere DEF Turns, Goes, Same, Publishing
    <2>9. CASE PublishRecord(w) \/ Activate(w)
      <3>1. Allocation(w).known = {w}
        BY DEF Allocation, Sees
      <3> QED
        BY <1>1, <1>4, <2>9, <3>1, TurnsWhere DEF Turns, Goes, Same, Publishing
    <2>10. CASE Unpoint(w)
      <3>1. PICK t \in BOOLEAN : Plans(w, "keep", [job[w].plan EXCEPT !.terminate = t])
        BY <1>1, <2>10, Planning
      <3>2. job'[w].plan = [job[w].plan EXCEPT !.terminate = t]
        BY <1>1, <1>4, <3>1, PlansShape
      <3> QED
        BY <1>1, <1>4, <3>2 DEF Jobs, Evidence
    <2>11. CASE ReleaseSessions(w) \/ Unpack(w) \/ TerminateSession(w)
      <3>1. job'[w] = Fails(w) \/ Same(w)
        BY <1>1, <1>4, <2>11, CompensatesHow DEF Goes
      <3>2. CASE job'[w] = Fails(w)
        BY <1>4, <3>2, FreshPlan
      <3>3. CASE Same(w)
        BY <1>4, <3>3 DEF Same
      <3> QED
        BY <3>1, <3>2, <3>3
    <2> QED
      BY <1>4, <2>1, <2>2, <2>3, <2>4, <2>5, <2>6, <2>7, <2>8, <2>9, <2>10, <2>11 DEF Works, WorkerStep, Compensate
  <1>5. ASSUME NEW c \in Canceller, Cancelling(c), c = x
        PROVE  \/ job'[x].plan.known = {}
               \/ job'[x].plan.known = job[x].plan.known /\ job'[x].plan.arena = job[x].plan.arena
               \/ job'[x].plan = rec.ev
    <2>1. CASE Ask(c) \/ Tombstone(c) \/ Complete(c)
      <3>1. \E from, P : Moves(c, from, P)
        BY <1>1, <2>1, CancellerMoving
      <3> QED
        BY <1>1, <1>5, <3>1, MovesShape
    <2>2. CASE FindUncancelled(c) \/ FindCancelling(c)
      BY <1>1, <1>5, <2>2, FindsHow
    <2>3. CASE Mark(c) \/ MarkRefused(c)
      <3>1. job'[c].plan = job[c].plan \/ job'[c] = [Fresh EXCEPT !.pc = "read"]
        BY <1>1, <2>3, MarkHow
      <3>2. job'[c] = [Fresh EXCEPT !.pc = "read"] => job'[c].plan.known = {}
        BY FreshPlan
      <3> QED
        BY <1>5, <3>1, <3>2
    <2>4. CASE ReadPointer(c)
      <3>1. job'[c].plan = Sees(dir.arena, {}, FALSE, FALSE)
        BY <1>1, <2>4, ReadPointerHow
      <3>2. Sees(dir.arena, {}, FALSE, FALSE).known = {}
        BY DEF Sees
      <3> QED
        BY <1>5, <3>1, <3>2
    <2>5. CASE Finish(c)
      <3>1. \E p : job'[c] = [Fresh EXCEPT !.pc = p]
        BY <1>1, <2>5, FinishMoves DEF Becomes
      <3> QED
        BY <1>5, <3>1, FreshFields
    <2>6. CASE Throws(c) \/ Die(c)
      <3>1. job'[c] = Fresh \/ job'[c] = Fails(c)
        BY <1>1, <1>5, <2>6, AgentKinds, EndMoves DEF Becomes
      <3>2. job'[c] = Fresh
        BY <3>1, AgentKinds DEF Fails
      <3>3. Fresh.plan.known = {}
        BY DEF Fresh, NoEvidence, Sees
      <3> QED
        BY <1>5, <3>2, <3>3
    <2>7. CASE Replay(c) \/ Kill(c)
      <3>1. \E from, P : Moves(c, from, P)
        BY <1>1, <1>5, <2>7, ReplayMoves
      <3> QED
        BY <1>1, <1>5, <3>1, MovesShape
    <2>8. CASE ReleaseSessions(c) \/ Unpack(c) \/ TerminateSession(c)
      <3>1. job'[c] = Fails(c) \/ Same(c)
        BY <1>1, <1>5, <2>8, CompensatesHow DEF Goes
      <3> QED
        BY <1>5, <3>1, FreshPlan DEF Same
    <2> QED
      BY <1>5, <2>1, <2>2, <2>3, <2>4, <2>5, <2>6, <2>7, <2>8 DEF Cancelling, CancellerStep, Compensate
  <1>6. \/ job'[x] = job[x]
        \/ \E w \in Worker : w = x /\ (Rests(w) \/ Works(w))
        \/ \E c \in Canceller : c = x /\ Cancelling(c)
    BY AgentKinds, ByWhom, RestsHow, WorksHow, CancellingHow, AroundKeeps DEF OthersStay
  <1> QED
    BY <1>2, <1>3, <1>4, <1>5, <1>6

(* How a request comes to the places its player sessions depend on. *)
LEMMA PcBack ==
  ASSUME Typed, NEW w \in Worker, Works(w)
  PROVE  /\ job'[w].pc \in Before \/ job'[w].after = "forget" =>
              (job[w].pc \in Before \/ job[w].after = "forget") /\ ~CreateSessions(w)
         /\ job'[w].pc = "await" => CreateSessions(w) /\ job'[w].arena = job[w].arena
         /\ job'[w].pc \in Publishing =>
              /\ job'[w].arena = job[w].arena
              /\ Answered(w) \/ job[w].pc \in Publishing
  <1>1. TypeOK /\ w \in Agent /\ job[w] \in Jobs /\ WorkerShape(job[w])
    BY AgentKinds, JobFields DEF Typed, Shapes
  <1>2. CreateSessions(w) => job[w].pc = "create" /\ job[w].after = "idle"
    BY <1>1 DEF CreateSessions, At, WorkerShape, Compensating
  <1> USE DEF Before, Publishing, Replaying
  <1>3. CASE CreateSessions(w)
    BY <1>1, <1>2, <1>3, GoesWhere DEF Goes, Same
  <1>4. CASE \/ Own(w) \/ GiveUp(w) \/ RetainIntent(w) \/ LaunchAnswered(w) \/ LaunchRefused(w)
             \/ Answered(w) \/ Keep(w) \/ Close(w) \/ Replay(w) \/ Kill(w)
    <2>1. /\ Same(w)
          /\ \/ job[w].pc \in Before \ {"create"} /\ job'[w].pc \notin Publishing \union {"await"}
             \/ job[w].pc = "await" /\ Answered(w) /\ job'[w].pc \in {"point", "write"}
             \/ job[w].pc \in {"keep", "close"} /\ job'[w].pc \in {"done", "release", "failed"}
      BY <1>1, <1>4, GoesWhere DEF Goes
    <2> QED
      BY ONLY <1>2, <2>1 DEF Same, Before, Publishing, Replaying
  <1>5. CASE Fence(w) \/ FindStranded(w) \/ Pack(w)
    BY <1>1, <1>2, <1>5, SetsWhat
  <1>6. CASE Point(w)
    BY <1>1, <1>2, <1>6, PointsTo
  <1>7. CASE Forget(w) \/ ForgetIntent(w) \/ LaunchUncertain(w)
    <2>1. /\ \/ job[w].pc \in {"forget", "forgetIntent"}
             \/ job[w].pc = "launch"
          /\ \E p \in {"read", "failed"} : job'[w] = [Fresh EXCEPT !.pc = p]
      BY <1>1, <1>7, SetsWhat
    <2>2. job'[w].pc \in {"read", "failed"} /\ job'[w].after = "idle"
      BY <2>1, FreshPlan
    <2> QED
      BY <1>1, <1>2, <2>1, <2>2 DEF WorkerShape, Compensating
  <1>8. CASE (Retain(w) \/ Widen(w)) /\ ~RetainRefused(w)
    <2>1. \/ Moves(w, "widen", {"create"})
          \/ Moves(w, "retain", {"widen"})
      BY <1>1, <1>8, Retaining
    <2>2. /\ job[w].pc \in {"widen", "retain"} /\ job'[w].pc \in {"widen", "create"}
          /\ job'[w].after = job[w].after
      BY <1>1, <2>1, MovesShape
    <2> QED
      BY <1>2, <2>2
  <1>9. CASE (Retain(w) \/ Widen(w)) /\ RetainRefused(w)
    <2>1. job[w].pc \in {"retain", "widen"}
      BY <1>9 DEF Retain, Widen, At
    <2>2. Turns(w, job[w].pc, {"unpoint", "unpack"})
      BY <1>1, <1>9, TurnsWhere
    <2> QED
      BY <1>2, <2>1, <2>2 DEF Turns
  <1>10. CASE PreflightRejected(w) \/ Incomplete(w)
    BY <1>1, <1>2, <1>10, TurnsWhere DEF Turns
  <1>11. CASE PublishPointer(w) \/ PublishRecord(w) \/ Activate(w)
    <2>1. \/ Goes(w, "point", {"write"}) \/ Goes(w, "write", {"activate"}) \/ Goes(w, "activate", {"done"})
          \/ Turns(w, "point", {"unpoint"}) \/ Turns(w, "write", {"keep"}) \/ Turns(w, "activate", {"keep"})
      BY <1>1, <1>11, TurnsWhere
    <2> QED
      BY <1>1, <1>2, <2>1 DEF Turns, Goes, Same, WorkerShape, Compensating
  <1>12. CASE Unpoint(w)
    <2>1. job[w].pc = "unpoint" /\ \E e : Plans(w, "keep", e)
      BY <1>1, <1>12, Planning DEF Unpoint, At
    <2> QED
      BY <1>1, <1>2, <2>1, PlansShape
  <1>13. CASE ReleaseSessions(w) \/ Unpack(w) \/ TerminateSession(w)
    <2>1. /\ job[w].pc \in Compensating
          /\ \/ job'[w] = Fails(w)
             \/ Same(w) /\ job'[w].pc \in {"unpack", "terminate", job[w].after}
      BY <1>1, <1>13, CompensatesHow DEF Goes, Compensating
    <2>2. job[w].after \in {"forget", "close"}
      BY <1>1, <2>1 DEF WorkerShape, Compensating
    <2>3. CASE job'[w] = Fails(w)
      <3>1. job'[w].pc = "failed" /\ job'[w].after = "idle"
        BY <2>3, FreshPlan
      <3> QED
        BY <3>1
    <2>4. CASE Same(w) /\ job'[w].pc \in {"unpack", "terminate", job[w].after}
      BY <1>2, <2>1, <2>2, <2>4 DEF Same, Compensating
    <2> QED
      BY <2>1, <2>3, <2>4
  <1> QED
    BY <1>3, <1>4, <1>5, <1>6, <1>7, <1>8, <1>9, <1>10, <1>11, <1>12, <1>13 DEF Works, WorkerStep, Compensate

(* The player sessions that written evidence knows of.                     *)
LEMMA EvidenceKnown ==
  ASSUME Typed, NEW w \in Worker, Evidences(w)
  PROVE  \/ rec'.ev = rec.ev \/ rec'.ev.known = {}
         \/ rec'.ev.known = job[w].plan.known /\ rec'.ev.arena = job[w].plan.arena
         \/ job[w].pc = "write" /\ rec'.ev.known = {w} /\ rec'.ev.arena = job[w].arena
  <1>1. TypeOK /\ w \in Agent /\ job[w] \in Jobs /\ rec \in Records
    BY AgentKinds, JobFields DEF Typed, TypeOK
  <1>2. \A e : rec' = [rec EXCEPT !.ev = e] => rec'.ev = e
    BY <1>1 DEF Records
  <1>3. CASE (Retain(w) \/ Widen(w)) /\ ~RetainRefused(w)
    <2>1. PICK b : rec' = [rec EXCEPT !.ev = Sees(job[w].arena, {}, b, job[w].made)]
      BY <1>1, <1>3, Retaining
    <2>2. Sees(job[w].arena, {}, b, job[w].made).known = {}
      BY DEF Sees
    <2> QED
      BY <1>2, <2>1, <2>2
  <1>4. CASE RetainRefused(w)
    BY <1>4 DEF RetainRefused
  <1>5. CASE PublishRecord(w)
    <2>1. Allocation(w).known = {w} /\ Allocation(w).arena = job[w].arena
      BY DEF Allocation, Sees
    <2>2. job[w].pc = "write" /\ (rec' = rec \/ rec' = [rec EXCEPT !.ev = Allocation(w)])
      BY <1>5 DEF PublishRecord, At
    <2> QED
      BY <1>2, <2>1, <2>2
  <1>6. CASE Unpoint(w)
    <2>1. PICK t \in BOOLEAN : rec' = Retained(w, [job[w].plan EXCEPT !.terminate = t])
      BY <1>1, <1>6, Planning
    <2>2. /\ [job[w].plan EXCEPT !.terminate = t].known = job[w].plan.known
          /\ [job[w].plan EXCEPT !.terminate = t].arena = job[w].plan.arena
      BY <1>1 DEF Jobs, Evidence
    <2> QED
      BY <1>2, <2>1, <2>2 DEF Retained
  <1>7. CASE Keep(w)
    BY <1>2, <1>7 DEF Keep, Retained
  <1> QED
    BY <1>3, <1>4, <1>5, <1>6, <1>7 DEF Evidences

(* BatchesSound is inductive.                                              *)
LEMMA BatchesSoundStep ==
  ASSUME Typed, Next, BatchesSound
  PROVE  BatchesSound'
  <1>1. TypeOK
    BY DEF Typed
  <1>2. ASSUME NEW v \in Worker, job'[v] = job[v]
        PROVE  BatchSound(v)'
    <2>1. BatchSound(v)
      BY DEF BatchesSound
    <2>2. ~CreateSessions(v)
      <3>1. CreateSessions(v) => job[v].pc = "create" /\ job'[v].pc = "await"
        BY <1>1, GoesWhere DEF Goes
      <3> QED
        BY <1>2, <3>1
    <2> QED
      BY <1>2, <2>1, <2>2, BatchHow DEF BatchSound, Cleaning
  <1>3. ASSUME NEW w \in Worker, Rests(w)
        PROVE  BatchSound(w)'
    <2>1. /\ job'[w].pc \in Outside /\ batch' = batch /\ job'[w].after = "idle"
          /\ job'[w].pc \in Before => job[w].pc \in Before
      BY <1>3, RestsHow
    <2>2. BatchSound(w)
      BY DEF BatchesSound
    <2> QED
      BY <2>1, <2>2 DEF BatchSound, Cleaning, Outside, Publishing
  <1>4. ASSUME NEW w \in Worker, Works(w)
        PROVE  BatchSound(w)'
    <2>1. BatchSound(w)
      BY DEF BatchesSound
    <2>2. /\ job'[w].pc \in Before \/ job'[w].after = "forget" =>
               (job[w].pc \in Before \/ job[w].after = "forget") /\ ~CreateSessions(w)
          /\ job'[w].pc = "await" => CreateSessions(w) /\ job'[w].arena = job[w].arena
          /\ job'[w].pc \in Publishing =>
               /\ job'[w].arena = job[w].arena
               /\ Answered(w) \/ job[w].pc \in Publishing
      BY <1>4, PcBack
    <2>3. job'[w].pc \in Before \/ Cleaning(w)' => batch'[w].state = "none"
      <3>1. job'[w].pc \in Before \/ Cleaning(w)' => batch[w].state = "none" /\ ~CreateSessions(w)
        BY <2>1, <2>2 DEF BatchSound, Cleaning
      <3> QED
        BY <3>1, BatchHow
    <2>4. job'[w].pc = "await" => batch'[w].arena = job'[w].arena
      <3>1. CreateSessions(w) => batch'[w].arena = job[w].arena
        <4>1. CreateSessions(w) => job[w].pc = "create"
          BY DEF CreateSessions, At
        <4>2. CreateSessions(w) => batch[w].state = "none"
          BY <2>1, <4>1 DEF BatchSound, Before
        <4>3. CreateSessions(w) => batch' = [batch EXCEPT ![w] = [state |-> "flying", arena |-> job[w].arena]]
          BY DEF CreateSessions
        <4> QED
          BY <1>1, <4>3 DEF TypeOK
      <3> QED
        BY <2>2, <3>1
    <2>5. job'[w].pc \in Publishing =>
            batch'[w].arena = job'[w].arena /\ batch'[w].state \in {"live", "over"}
      <3>1. job'[w].pc \in Publishing => batch[w].arena = job[w].arena /\ batch[w].state \in {"live", "over"}
        <4>1. Answered(w) => job[w].pc = "await" /\ batch[w].state = "live"
          BY DEF Answered, At
        <4> QED
          BY <2>1, <2>2, <4>1 DEF BatchSound
      <3> QED
        BY <2>2, <3>1, BatchHow
    <2> QED
      BY <2>3, <2>4, <2>5 DEF BatchSound
  <1>5. \A v \in Worker : BatchSound(v)'
    <2>1. \A v \in Worker : job'[v] = job[v] \/ Rests(v) \/ Works(v)
      BY AgentKinds, ByWhom, RestsHow, WorksHow, CancellingHow, AroundKeeps DEF OthersStay
    <2> QED
      BY <1>2, <1>3, <1>4, <2>1
  <1>6. ASSUME NEW w \in Worker, job[w].pc \in Publishing
        PROVE  KnownAt({w}, job[w].arena)
    BY <1>6 DEF BatchesSound, BatchSound, KnownAt
  <1>7. KnownIn(rec.ev)'
    <2>1. /\ rec.ev.known \in SUBSET Worker /\ KnownAt(rec.ev.known, rec.ev.arena)
          /\ \A w \in Worker : job[w].plan.known \in SUBSET Worker /\ KnownAt(job[w].plan.known, job[w].plan.arena)
      BY <1>1, RecFields, JobFields, AgentKinds DEF BatchesSound, KnownIn
    <2>2. \/ rec'.ev = rec.ev \/ rec'.ev.known = {}
          \/ \E w \in Worker :
               \/ rec'.ev.known = job[w].plan.known /\ rec'.ev.arena = job[w].plan.arena
               \/ job[w].pc = "write" /\ rec'.ev.known = {w} /\ rec'.ev.arena = job[w].arena
      <3>1. rec \in Records
        BY <1>1 DEF TypeOK
      <3>2. \/ rec'.ev = rec.ev \/ rec' = NoRecord \/ \E w \in Worker : Evidences(w)
        BY <3>1, RecordHow DEF Records, Owning, Cancelled
      <3>3. NoRecord.ev.known = {}
        BY DEF NoRecord, NoEvidence, Sees
      <3> QED
        BY <3>2, <3>3, EvidenceKnown
    <2>3. PICK K, a : /\ K \in SUBSET Worker /\ KnownAt(K, a)
                      /\ rec'.ev.known = K /\ (rec'.ev.arena = a \/ K = {})
      <3>1. KnownAt({}, None)
        BY DEF KnownAt
      <3>2. \A w \in Worker : job[w].pc = "write" => KnownAt({w}, job[w].arena) /\ {w} \in SUBSET Worker
        BY <1>6 DEF Publishing
      <3> QED
        BY <2>1, <2>2, <3>1, <3>2
    <2>4. \A v \in K : batch'[v].state \in {"live", "over"} /\ batch'[v].arena = a
      BY <2>3, KnownStays
    <2> QED
      BY <2>3, <2>4 DEF KnownIn, KnownAt
  <1>8. ASSUME NEW x \in Agent
        PROVE  KnownIn(job[x].plan)'
    <2>1. /\ rec.ev.known \in SUBSET Worker /\ KnownAt(rec.ev.known, rec.ev.arena)
          /\ job[x].plan.known \in SUBSET Worker /\ KnownAt(job[x].plan.known, job[x].plan.arena)
      BY <1>1, RecFields, JobFields DEF BatchesSound, KnownIn
    <2>2. PICK K, a : /\ K \in SUBSET Worker /\ KnownAt(K, a)
                      /\ job'[x].plan.known = K /\ (job'[x].plan.arena = a \/ K = {})
      <3>1. KnownAt({}, None)
        BY DEF KnownAt
      <3>2. \A w \in Worker : job[w].pc \in Publishing => KnownAt({w}, job[w].arena)
        BY <1>6
      <3>3. \A w \in Worker : job[w].pc = "await" /\ batch[w].state = "live" => KnownAt({w}, job[w].arena)
        BY DEF BatchesSound, BatchSound, KnownAt
      <3>4. x \in Worker => {x} \in SUBSET Worker
        OBVIOUS
      <3> QED
        BY <2>1, <3>1, <3>2, <3>3, <3>4, PlanHow
    <2>3. \A v \in K : batch'[v].state \in {"live", "over"} /\ batch'[v].arena = a
      BY <2>2, KnownStays
    <2> QED
      BY <2>2, <2>3 DEF KnownIn, KnownAt
  <1> QED
    BY <1>5, <1>7, <1>8 DEF BatchesSound

(***************************************************************************)
(* The game sessions and the pointer.                                      *)
(***************************************************************************)
LEMMA SessionsHow ==
  ASSUME Typed, Next, NEW a \in Arena
  PROVE  \/ gs'[a] = gs[a]
         \/ /\ gs[a] = "none" /\ gs'[a] = "up"
            /\ \/ \E w \in Worker : (LaunchAnswered(w) \/ LaunchUncertain(w)) /\ a = job[w].arena
               \/ \E x \in Agent : Replay(x) /\ a = job[x].arena
         \/ /\ gs'[a] = "terminated"
            /\ \/ \E w \in Worker : LaunchRefused(w) /\ a = job[w].arena
               \/ \E x \in Agent : TerminateSession(x) /\ a = job[x].plan.arena
               \/ \E x \in Agent : Kill(x) /\ a = job[x].arena
               \/ OtherLeaves /\ a = dir.arena /\ dir.packed \ {"other"} = {}
  <1>1. gs \in [Arena -> {"none", "up", "terminated"}]
    BY DEF Typed, TypeOK
  <1>2. \A b : /\ Created(b)[a] = gs[a] \/ (a = b /\ gs[a] = "none" /\ Created(b)[a] = "up")
               /\ Terminated(b)[a] = gs[a] \/ (a = b /\ Terminated(b)[a] = "terminated")
    BY <1>1 DEF Created, Terminated
  <1>3. \/ gs' = gs
        \/ \E w \in Worker : LaunchAnswered(w) \/ LaunchRefused(w) \/ LaunchUncertain(w)
        \/ \E x \in Agent : TerminateSession(x) \/ Replay(x) \/ Kill(x)
        \/ OtherLeaves
    BY SessionsKept DEF Next, Compensate
  <1>4. ASSUME NEW w \in Worker, LaunchAnswered(w) \/ LaunchUncertain(w)
        PROVE  gs'[a] = gs[a] \/ (a = job[w].arena /\ gs[a] = "none" /\ gs'[a] = "up")
    BY <1>2, <1>4 DEF LaunchAnswered, LaunchUncertain
  <1>5. ASSUME NEW w \in Worker, LaunchRefused(w)
        PROVE  gs'[a] = gs[a] \/ (a = job[w].arena /\ gs'[a] = "terminated")
    BY <1>2, <1>5 DEF LaunchRefused, Terminated
  <1>6. ASSUME NEW x \in Agent, TerminateSession(x)
        PROVE  gs'[a] = gs[a] \/ (a = job[x].plan.arena /\ gs'[a] = "terminated")
    BY <1>2, <1>6 DEF TerminateSession
  <1>7. ASSUME NEW x \in Agent, Replay(x)
        PROVE  gs'[a] = gs[a] \/ (a = job[x].arena /\ gs[a] = "none" /\ gs'[a] = "up")
    BY <1>2, <1>7 DEF Replay
  <1>8. ASSUME NEW x \in Agent, Kill(x)
        PROVE  gs'[a] = gs[a] \/ (a = job[x].arena /\ gs'[a] = "terminated")
    BY <1>2, <1>8 DEF Kill
  <1>9. CASE OtherLeaves
    BY <1>2, <1>9 DEF OtherLeaves
  <1> QED
    BY <1>3, <1>4, <1>5, <1>6, <1>7, <1>8, <1>9

(* A game session that was made is never unmade.                           *)
LEMMA SessionsStay ==
  ASSUME Typed, Next, NEW a \in Arena, gs[a] # "none"
  PROVE  gs'[a] # "none"
  BY SessionsHow

(* What becomes of the pointer. *)
LEMMA PointerHow ==
  ASSUME Typed, Next
  PROVE  \/ dir' = dir /\ published' = published
         \/ dir'.status = "none" /\ published' = published
         \/ /\ dir'.arena = dir.arena /\ dir'.creator = dir.creator /\ published' = published
            /\ dir'.status = dir.status \/ (dir.status = "active" /\ dir'.status = "terminating")
            /\ "claim" \in dir.packed => "claim" \in dir'.packed \/ \E x \in Agent : Unpack(x)
         \/ \E w \in Worker : Point(w) /\ published' = published
         \/ \E w \in Worker :
              /\ PublishPointer(w) /\ dir.status = "creating" /\ dir.creator = w
              /\ dir'.status = "active" /\ dir'.arena = dir.arena /\ "claim" \in dir'.packed
              /\ published' = published \union {job[w].arena}
  <1>1. dir \in Pointers
    BY DEF Typed, TypeOK
  <1>2. NoPointer.status = "none"
    BY DEF NoPointer
  <1>3. \/ dir' = dir
        \/ \E w \in Worker : Pack(w) \/ RemovePointer(w) \/ Point(w) \/ RetainIntent(w) \/ LaunchRefused(w)
                             \/ PublishPointer(w) \/ Unpoint(w)
        \/ \E x \in Agent : Unpack(x) \/ Kill(x)
        \/ PointerAges \/ ArenaReopens \/ OtherJoins \/ OtherLeaves
    BY PointerKept DEF Next, WorkerStep, Compensate
  <1>4. published' = published \/ \E w \in Worker : PublishPointer(w)
    BY OfferedKept DEF Next
  <1>5. CASE \E w \in Worker : PublishPointer(w)
    <2>1. PICK w \in Worker : PublishPointer(w)
      BY <1>5
    <2>2. CASE dir' = dir /\ published' = published
      BY <2>2
    <2>3. CASE /\ dir.status = "creating" /\ dir.creator = w
               /\ dir' = [dir EXCEPT !.status = "active", !.open = TRUE, !.creator = None, !.packed = {"claim"}]
               /\ published' = published \union {job[w].arena}
      <3>1. dir'.status = "active" /\ dir'.arena = dir.arena /\ "claim" \in dir'.packed
        BY <1>1, <2>3 DEF Pointers
      <3> QED
        BY <2>1, <2>3, <3>1
    <2> QED
      BY <2>1, <2>2, <2>3 DEF PublishPointer
  <1>6. ASSUME NEW w \in Worker, Pack(w) \/ RemovePointer(w) \/ RetainIntent(w) \/ LaunchRefused(w) \/ Unpoint(w)
        PROVE  \/ dir' = dir \/ dir'.status = "none"
               \/ /\ dir'.arena = dir.arena /\ dir'.creator = dir.creator /\ dir'.status = dir.status
                  /\ "claim" \in dir'.packed
    <2>1. CASE Pack(w)
      BY <1>1, <2>1 DEF Pack, Pointers
    <2>2. CASE RemovePointer(w) \/ RetainIntent(w) \/ LaunchRefused(w) \/ Unpoint(w)
      BY <1>2, <2>2 DEF RemovePointer, RetainIntent, LaunchRefused, Unpoint, Unpointed
    <2> QED
      BY <1>6, <2>1, <2>2
  <1>7. ASSUME NEW x \in Agent, Unpack(x)
        PROVE  \/ dir' = dir
               \/ /\ dir'.arena = dir.arena /\ dir'.creator = dir.creator
                  /\ dir'.status = dir.status \/ (dir.status = "active" /\ dir'.status = "terminating")
    <2>1. \/ dir' = dir
          \/ \E rest : /\ dir.status = "active"
                       /\ dir' = [dir EXCEPT !.packed = rest, !.status = IF rest = {} THEN "terminating" ELSE @]
      BY <1>7 DEF Unpack
    <2> QED
      BY <1>1, <2>1 DEF Pointers
  <1>8. ASSUME NEW x \in Agent, Kill(x)
        PROVE  dir' = dir \/ dir'.status = "none"
    BY <1>2, <1>8 DEF Kill
  <1>9. CASE PointerAges \/ ArenaReopens \/ OtherJoins
    <2>1. \/ dir' = NoPointer
          \/ \E b : dir' = [dir EXCEPT !.open = b]
          \/ dir' = [dir EXCEPT !.packed = @ \union {"other"}]
      BY <1>9 DEF PointerAges, ArenaReopens, OtherJoins
    <2>2. \/ dir'.status = "none"
          \/ /\ dir'.arena = dir.arena /\ dir'.creator = dir.creator /\ dir'.status = dir.status
             /\ "claim" \in dir.packed => "claim" \in dir'.packed
      BY <1>1, <1>2, <2>1 DEF Pointers
    <2>3. published' = published
      BY <1>9, OfferedKept
    <2> QED
      BY <2>2, <2>3
  <1>10. CASE OtherLeaves
    <2>1. /\ dir.status = "active"
          /\ \E rest : /\ dir' = [dir EXCEPT !.packed = rest, !.status = IF rest = {} THEN "terminating" ELSE @]
                       /\ rest = dir.packed \ {"other"}
      BY <1>10 DEF OtherLeaves
    <2>2. /\ dir'.arena = dir.arena /\ dir'.creator = dir.creator /\ dir'.packed = dir.packed \ {"other"}
          /\ dir'.status = dir.status \/ (dir.status = "active" /\ dir'.status = "terminating")
      BY <1>1, <2>1 DEF Pointers
    <2>3. published' = published
      BY <1>10, OfferedKept
    <2> QED
      BY <2>2, <2>3
  <1>11. ASSUME \A w \in Worker : ~PublishPointer(w)
         PROVE  \/ dir' = dir
                \/ dir'.status = "none"
                \/ /\ dir'.arena = dir.arena /\ dir'.creator = dir.creator
                   /\ dir'.status = dir.status \/ (dir.status = "active" /\ dir'.status = "terminating")
                   /\ "claim" \in dir.packed => "claim" \in dir'.packed \/ \E x \in Agent : Unpack(x)
                \/ \E w \in Worker : Point(w)
    <2>1. CASE \E x \in Agent : Unpack(x)
      BY <1>7, <2>1
    <2>2. CASE \E w \in Worker : Pack(w) \/ RemovePointer(w) \/ RetainIntent(w) \/ LaunchRefused(w) \/ Unpoint(w)
      BY <1>6, <2>2
    <2>3. CASE \E x \in Agent : Kill(x)
      BY <1>8, <2>3
    <2>4. CASE PointerAges \/ ArenaReopens \/ OtherJoins
      BY <1>9, <1>11, <2>4
    <2>5. CASE OtherLeaves
      BY <1>10, <1>11, <2>5
    <2> QED
      BY <1>3, <1>11, <2>1, <2>2, <2>3, <2>4, <2>5
  <1> QED
    BY <1>4, <1>5, <1>11

(* The claim stays packed unless somebody unpacks it.                      *)
LEMMA PackedStays ==
  ASSUME Typed, Next, NEW a, Packed(a), \A x \in Agent : ~Unpack(x)
  PROVE  Packed(a)'
  <1>1. \A w \in Worker : Point(w) => dir'.status = "creating"
    BY DEF Point
  <1> QED
    BY <1>1, PointerHow DEF Packed

(* Reserved seats stay reserved while nobody compensates, refuses the      *)
(* launch or empties the arena.                                            *)
LEMMA ReservedStays ==
  ASSUME Typed, Next, BatchesSound, NEW v \in Worker, NEW a \in Arena, Reserved(v, a),
         \A x \in Agent : ~ReleaseSessions(x) /\ ~TerminateSession(x) /\ ~Kill(x),
         \A w \in Worker : LaunchRefused(w) => job[w].arena # a,
         OtherLeaves => dir.arena # a \/ "claim" \in dir.packed
  PROVE  Reserved(v, a)'
  <1>1. gs'[a] = "up"
    BY SessionsHow DEF Reserved
  <1>2. batch'[v].state = "live" /\ batch'[v].arena = a
    <2>1. CASE OtherLeaves
      <3>1. batch' = batch \/ (dir.arena # a /\ batch' = Ends(In(dir.arena, {"live"})))
        BY <2>1 DEF OtherLeaves
      <3>2. v \notin In(dir.arena, {"live"}) \/ dir.arena = a
        BY DEF In, Reserved
      <3>3. TypeOK
        BY DEF Typed
      <3>4. batch'[v] = batch[v]
        BY <3>1, <3>2, <3>3, EndsOf
      <3> QED
        BY <3>4 DEF Reserved
    <2>2. CASE ~OtherLeaves
      <3>1. ~CreateSessions(v) \/ batch[v].state # "none"
        BY DEF Reserved
      <3> QED
        BY <2>2, <3>1, BatchHow DEF Reserved
    <2> QED
      BY <2>1, <2>2
  <1> QED
    BY <1>1, <1>2 DEF Reserved

(* How a request advances towards its activation. *)
LEMMA Advances ==
  ASSUME Typed, NEW w \in Worker, Works(w), job'[w].pc \in Launching \union Publishing
  PROVE  \/ Point(w)
         \/ Pack(w) /\ job'[w].pc = "retain" /\ job'[w].arena = dir.arena /\ ~job'[w].made
         \/ RetainIntent(w) /\ Goes(w, "intent", {"launch"})
         \/ LaunchAnswered(w) /\ Goes(w, "launch", {"retain"})
         \/ (Retain(w) \/ Widen(w)) /\ (Goes(w, "retain", {"widen", "create"}) \/ Goes(w, "widen", {"create"}))
         \/ CreateSessions(w) /\ Goes(w, "create", {"await"})
         \/ Answered(w) /\ Goes(w, "await", {IF job[w].made THEN "point" ELSE "write"})
         \/ PublishPointer(w) /\ Goes(w, "point", {"write"})
         \/ PublishRecord(w) /\ Goes(w, "write", {"activate"}) /\ rec' = [rec EXCEPT !.ev = Allocation(w)]
  <1>1. TypeOK /\ w \in Agent /\ job[w] \in Jobs /\ WorkerShape(job[w])
    BY AgentKinds, JobFields DEF Typed, Shapes
  <1>2. job'[w].pc \in {"intent", "launch", "retain", "widen", "create", "await", "point", "write", "activate"}
    BY DEF Launching, Publishing
  <1>3. CASE \/ Own(w) \/ GiveUp(w) \/ RetainIntent(w) \/ LaunchAnswered(w) \/ LaunchRefused(w) \/ CreateSessions(w)
             \/ Answered(w) \/ Keep(w) \/ Close(w) \/ Replay(w) \/ Kill(w)
    BY <1>1, <1>2, <1>3, GoesWhere DEF Goes
  <1>4. CASE Fence(w) \/ FindStranded(w) \/ Pack(w)
    <2>1. job[w].pc = "place" => ~job[w].made
      BY <1>1 DEF WorkerShape
    <2> QED
      BY <1>1, <1>2, <1>4, <2>1, SetsWhat
  <1>5. ~Forget(w) /\ ~ForgetIntent(w) /\ ~LaunchUncertain(w)
    <2>1. Forget(w) \/ ForgetIntent(w) \/ LaunchUncertain(w) =>
            \E p \in {"read", "failed"} : job'[w] = [Fresh EXCEPT !.pc = p]
      BY <1>1, SetsWhat
    <2>2. Forget(w) \/ ForgetIntent(w) \/ LaunchUncertain(w) => job'[w].pc \in {"read", "failed"}
      BY <2>1, FreshPlan
    <2> QED
      BY <1>2, <2>2
  <1>6. CASE (Retain(w) \/ Widen(w)) /\ ~RetainRefused(w)
    <2>1. \/ Moves(w, "widen", {"create"})
          \/ Moves(w, "retain", {"widen"})
      BY <1>1, <1>6, Retaining
    <2>2. Goes(w, "widen", {"create"}) \/ Goes(w, "retain", {"widen", "create"})
      BY <1>1, <2>1, MovesShape DEF Goes, Same
    <2> QED
      BY <1>6, <2>2
  <1>7. ~((Retain(w) \/ Widen(w)) /\ RetainRefused(w))
    BY <1>1, <1>2, TurnsWhere
  <1>8. CASE PreflightRejected(w) \/ Incomplete(w) \/ PublishPointer(w) \/ PublishRecord(w) \/ Activate(w)
    BY <1>1, <1>2, <1>8, TurnsWhere DEF Turns, Goes
  <1>9. ~Unpoint(w)
    <2>1. Unpoint(w) => \E e : Plans(w, "keep", e)
      BY <1>1, Planning
    <2>2. Unpoint(w) => job'[w].pc = "keep"
      BY <1>1, <2>1, PlansShape
    <2> QED
      BY <1>2, <2>2
  <1>10. ~ReleaseSessions(w) /\ ~Unpack(w) /\ ~TerminateSession(w)
    <2>1. ReleaseSessions(w) \/ Unpack(w) \/ TerminateSession(w) =>
            /\ job[w].pc \in Compensating
            /\ job'[w] = Fails(w) \/ job'[w].pc \in {"unpack", "terminate", job[w].after}
      BY <1>1, CompensatesHow DEF Goes, Compensating
    <2>2. job[w].pc \in Compensating => job[w].after \in {"forget", "close"}
      BY <1>1 DEF WorkerShape, Compensating
    <2> QED
      BY <1>2, <2>1, <2>2, FreshPlan
  <1> QED
    BY <1>3, <1>4, <1>5, <1>6, <1>7, <1>8, <1>9, <1>10 DEF Works, WorkerStep, Compensate

(***************************************************************************)
(* The seats of an open claim.                                             *)
(***************************************************************************)
LEMMA CompensateMoves ==
  ASSUME Typed, NEW x \in Agent, Compensate(x)
  PROVE  job'[x].pc # job[x].pc
  <1>1. TypeOK /\ job[x].after \notin {"unpack", "terminate"}
    BY AgentKinds DEF Typed, Shapes, WorkerShape, CancellerShape
  <1>2. Fails(x).pc \in {"failed", "idle"}
    BY FreshPlan
  <1>3. CASE ReleaseSessions(x) \/ Unpack(x) \/ TerminateSession(x)
    BY <1>1, <1>2, <1>3, CompensatesHow DEF Goes
  <1>4. CASE Replay(x) \/ Kill(x)
    <2>1. \E P \in {{"kill"}, {"forgetIntent"}, {"expire"}} :
            Moves(x, "replay", P) \/ (Moves(x, "kill", P) /\ P # {"kill"})
      BY <1>1, <1>4, ReplayMoves
    <2> QED
      BY <1>1, <2>1, MovesShape
  <1> QED
    BY <1>3, <1>4 DEF Compensate

(* Nobody's step is a compensation, a launch or a creation of sessions.    *)
LEMMA AroundLeaves ==
  ASSUME Typed, Around
  PROVE  /\ \A x \in Agent : ~Compensate(x)
         /\ \A w \in Worker : ~LaunchRefused(w) /\ ~CreateSessions(w)
  <1>1. job' = job /\ TypeOK
    BY AroundKeeps DEF Typed
  <1>2. \A w \in Worker : LaunchRefused(w) \/ CreateSessions(w) => job'[w].pc # job[w].pc
    BY <1>1, GoesWhere DEF Goes
  <1> QED
    BY <1>1, <1>2, CompensateMoves

(* The request that works keeps its seats on the way to its activation.    *)
LEMMA SeatedStep ==
  ASSUME Typed, Next, BatchesSound, PointerSound, NEW w \in Worker, Works(w), Seated(w)
  PROVE  Seated(w)'
  <1>1. /\ TypeOK /\ w \in Agent /\ job[w] \in Jobs /\ WorkerShape(job[w]) /\ dir \in Pointers
        /\ rec \in Records /\ BatchSound(w)
    BY AgentKinds, JobFields DEF Typed, Shapes, TypeOK, BatchesSound
  <1>2. CASE job'[w].pc \notin Launching \union Publishing
    BY <1>2 DEF Seated, Launching, Publishing, Joining
  <1>3. CASE Point(w)
    BY <1>1, <1>3, PointsTo DEF Seated, Publishing, Joining
  <1>4. CASE Pack(w) /\ job'[w].pc = "retain" /\ job'[w].arena = dir.arena /\ ~job'[w].made
    <2>1. dir.status = "active" /\ dir' = [dir EXCEPT !.packed = @ \union {"claim"}] /\ published' = published
      BY <1>4 DEF Pack, Available
    <2>2. "claim" \in dir'.packed /\ dir.arena \in published
      BY <1>1, <2>1 DEF Pointers, PointerSound
    <2> QED
      BY <1>4, <2>1, <2>2 DEF Seated, Publishing, Joining, Packed
  <1>5. CASE RetainIntent(w) /\ Goes(w, "intent", {"launch"})
    BY <1>5 DEF Goes, Seated, Publishing, Joining
  <1>6. CASE LaunchAnswered(w) /\ Goes(w, "launch", {"retain"})
    BY <1>1, <1>6 DEF Goes, Same, Seated, Publishing, WorkerShape
  <1>7. CASE (Retain(w) \/ Widen(w)) /\ (Goes(w, "retain", {"widen", "create"}) \/ Goes(w, "widen", {"create"}))
    <2>1. dir' = dir /\ published' = published
      BY <1>7 DEF Retain, Widen
    <2> QED
      BY <1>7, <2>1 DEF Goes, Same, Seated, Publishing, Joining, Packed
  <1>8. CASE CreateSessions(w) /\ Goes(w, "create", {"await"})
    <2>1. dir' = dir /\ published' = published
      BY <1>8 DEF CreateSessions
    <2>2. batch'[w].state = "flying"
      BY <1>1, <1>8 DEF CreateSessions, TypeOK
    <2> QED
      BY <1>8, <2>1, <2>2 DEF Goes, Same, Seated, Publishing, Joining, Packed
  <1>9. CASE Answered(w) /\ Goes(w, "await", {IF job[w].made THEN "point" ELSE "write"})
    <2>1. UNCHANGED <<dir, gs, batch, published>> /\ batch[w].state = "live"
      BY <1>9 DEF Answered
    <2>2. Reserved(w, job[w].arena) /\ (job[w].made \/ Packed(job[w].arena))
      BY <1>1, <1>9, <2>1 DEF Goes, Seated, Reserved, BatchSound, Joining
    <2> QED
      BY <1>9, <2>1, <2>2 DEF Goes, Same, Seated, Publishing, Joining, Packed, Reserved
  <1>10. CASE PublishPointer(w) /\ Goes(w, "point", {"write"})
    <2>1. UNCHANGED <<gs, batch>>
      BY <1>10 DEF PublishPointer
    <2>2. /\ dir' = [dir EXCEPT !.status = "active", !.open = TRUE, !.creator = None, !.packed = {"claim"}]
          /\ published' = published \union {job[w].arena}
      <3>1. ~CleanUp(w, "unpoint", Sees(job[w].arena, {w}, FALSE, TRUE))
        <4>1. CleanUp(w, "unpoint", Sees(job[w].arena, {w}, FALSE, TRUE)) => job'[w].pc = "unpoint"
          BY <1>1 DEF CleanUp, TypeOK, Jobs
        <4> QED
          BY <1>10, <4>1 DEF Goes
      <3> QED
        BY <1>10, <3>1 DEF PublishPointer
    <2>3. "claim" \in dir'.packed
      BY <1>1, <2>2 DEF Pointers
    <2>4. Reserved(w, job[w].arena)
      BY <1>10 DEF Goes, Seated, Publishing
    <2> QED
      BY <1>10, <2>1, <2>2, <2>3, <2>4 DEF Goes, Same, Seated, Publishing, Joining, Packed, Reserved
  <1>11. CASE PublishRecord(w) /\ Goes(w, "write", {"activate"}) /\ rec' = [rec EXCEPT !.ev = Allocation(w)]
    <2>1. UNCHANGED <<dir, gs, batch, published>>
      BY <1>11 DEF PublishRecord
    <2>2. Reserved(w, job[w].arena) /\ Packed(job[w].arena)
      BY <1>11 DEF Goes, Seated, Publishing
    <2>3. rec'.ev = Allocation(w)
      BY <1>1, <1>11 DEF Records
    <2>4. rec'.ev = Allocation(w)'
      BY <1>11, <2>3 DEF Goes, Same, Allocation
    <2> QED
      BY <1>11, <2>1, <2>2, <2>4 DEF Goes, Same, Seated, Publishing, Joining, Packed, Reserved
  <1> QED
    BY <1>2, <1>3, <1>4, <1>5, <1>6, <1>7, <1>8, <1>9, <1>10, <1>11, Advances

(* Clocks, GameLift and other parties leave the seats alone.               *)
LEMMA SeatedAround ==
  ASSUME Typed, Next, BatchesSound, PointerSound, Around, NEW v \in Worker, Seated(v)
  PROVE  Seated(v)'
  <1>1. /\ job' = job /\ \A x \in Agent : ~Compensate(x)
        /\ \A w \in Worker : ~LaunchRefused(w) /\ ~CreateSessions(w)
    BY AroundKeeps, AroundLeaves
  <1>2. TypeOK /\ BatchSound(v) /\ WorkerShape(job[v]) /\ rec \in Records
    BY DEF Typed, TypeOK, Shapes, BatchesSound
  <1>3. OtherLeaves => dir.status = "active" /\ dir.arena \in published
    BY DEF OtherLeaves, PointerSound
  <1>4. ASSUME NEW a \in Arena, Packed(a) \/ a \notin published, Reserved(v, a)
        PROVE  Reserved(v, a)'
    <2>1. OtherLeaves => dir.arena # a \/ "claim" \in dir.packed
      BY <1>3, <1>4 DEF Packed
    <2>2. \A x \in Agent : ~ReleaseSessions(x) /\ ~TerminateSession(x) /\ ~Kill(x)
      BY <1>1 DEF Compensate
    <2> QED
      BY <1>1, <1>4, <2>1, <2>2, ReservedStays
  <1>5. \A a : Packed(a) => Packed(a)'
    BY <1>1, PackedStays DEF Compensate
  <1>6. rec'.ev = rec.ev
    <2>1. LeaseExpires => rec'.ev = rec.ev
      BY <1>2 DEF LeaseExpires, Records
    <2> QED
      BY <2>1, RecordKept DEF Around
  <1>7. job[v].pc \in Joining \union Publishing =>
          /\ job[v].arena \in Arena
          /\ Packed(job[v].arena) \/ job[v].arena \notin published
    <2>1. job[v].pc \in Joining \union Publishing => job[v].arena \in Arena
      BY <1>2, AgentKinds, JobFields DEF WorkerShape, Joining, Publishing
    <2> QED
      BY <1>2, <2>1 DEF Seated, PointerSound, WorkerShape, Joining, Publishing, Launching
  <1>8. job'[v].pc = "await" /\ batch'[v].state = "live" => gs'[job'[v].arena] = "up"
    <2> SUFFICES ASSUME job[v].pc = "await", batch'[v].state = "live"
                 PROVE  gs'[job[v].arena] = "up"
      BY <1>1
    <2>1. batch[v].arena = job[v].arena
      BY <1>2 DEF BatchSound
    <2>2. CASE batch[v].state = "live"
      <3>1. Reserved(v, job[v].arena)
        BY <2>1, <2>2 DEF Seated, Reserved
      <3>2. Reserved(v, job[v].arena)'
        BY <1>1, <1>4, <1>7, <3>1 DEF Joining
      <3> QED
        BY <1>1, <3>2 DEF Reserved
    <2>3. CASE batch[v].state # "live"
      <3>1. GameLiftReserves(v) /\ gs[batch[v].arena] = "up"
        BY <1>1, <2>3, BatchHow
      <3>2. gs' = gs
        BY <3>1 DEF GameLiftReserves
      <3> QED
        BY <2>1, <3>1, <3>2
    <2> QED
      BY <2>2, <2>3
  <1>9. job'[v].pc \in Publishing => Reserved(v, job[v].arena)'
    <2>1. job[v].pc \in Publishing => Reserved(v, job[v].arena)
      BY DEF Seated
    <2> QED
      BY <1>1, <1>4, <1>7, <2>1
  <1> QED
    BY <1>1, <1>5, <1>6, <1>8, <1>9 DEF Seated, Allocation

(* Connection data once given stays good while nobody cancels. *)
LEMMA ActiveStays ==
  ASSUME Typed, Next, RecordSound, Titles, rec'.status = "active", ~Around
  PROVE  \/ rec.status = "active" /\ UNCHANGED <<rec, dir, gs, batch, published>>
         \/ \E w \in Worker : /\ Activate(w) /\ UNCHANGED <<dir, gs, batch, published>>
                              /\ rec' = [rec EXCEPT !.status = "active", !.owner = None, !.lease = "none"]
  <1>1. Open' /\ rec \in Records
    BY DEF Open, Typed, TypeOK
  <1>2. /\ Open
        /\ \A c \in Canceller : Cancelling(c) => UNCHANGED <<rec, dir, gs, batch, published>>
    BY <1>1, OpenCancellers
  <1>3. CASE rec.status = "active"
    <2>1. ASSUME NEW w \in Worker, Works(w)
          PROVE  UNCHANGED <<rec, dir, gs, batch, published>>
      <3>1. Working(w)
        BY <1>3, <2>1, WorksHow DEF Own, Fence, FindStranded, Stranded
      <3>2. job[w].pc = "keep"
        BY <1>2, <1>3, <3>1 DEF Titles, Entitled
      <3>3. Keep(w)
        <4>1. ~Compensate(w)
          BY <3>2 DEF Compensate, ReleaseSessions, Unpack, TerminateSession, Replay, Kill, At
        <4> QED
          BY <2>1, <3>2, <4>1
             DEF Works, WorkerStep, Own, Fence, FindStranded, Stranded, Forget, ForgetIntent, Pack, GiveUp, Point,
                 RetainIntent, LaunchAnswered, LaunchRefused, LaunchUncertain, Retain, Widen, PreflightRejected,
                 CreateSessions, Answered, Incomplete, PublishPointer, PublishRecord, Activate, Unpoint, Close, At
      <3>4. UNCHANGED <<dir, gs, batch, published>>
        BY <3>3 DEF Keep
      <3>5. rec' = rec
        BY <1>3, <3>3 DEF Keep, Retained, MayRetain, Owns
      <3> QED
        BY <3>4, <3>5
    <2> QED
      BY <1>2, <1>3, <2>1, RestsHow, ByWhom
  <1>4. CASE rec.status # "active"
    <2>1. PICK w \in Worker : /\ Activate(w)
                              /\ rec' = [rec EXCEPT !.status = "active", !.owner = None, !.lease = "none"]
      <3>1. ~(rec' = rec)
        BY <1>4
      <3>2. NoRecord.status = "none" /\ Cancelled(rec).status = "cancelled"
        BY <1>1 DEF NoRecord, Cancelled, Records
      <3>3. \A v \in Worker : Owning(v).status = "allocating"
        BY <1>1 DEF Owning, Records
      <3> QED
        BY <1>1, <1>4, <3>1, <3>2, <3>3, RecordHow DEF Records
    <2> QED
      BY <2>1 DEF Activate
  <1> QED
    BY <1>3, <1>4

(* SeatsSound is inductive.                                                *)
LEMMA SeatsSoundStep ==
  ASSUME Typed, Next, RecordSound, OneWorks, Titles, BatchesSound, PointerSound, SeatsSound, ~SlowCleaner
  PROVE  SeatsSound'
  <1>1. ASSUME Open', NEW v \in Worker
        PROVE  Seated(v)'
    <2>1. /\ Open /\ Seated(v)
          /\ \A c \in Canceller : Cancelling(c) => UNCHANGED <<rec, dir, gs, batch, published>>
      BY <1>1, OpenCancellers DEF SeatsSound
    <2>2. CASE job'[v].pc \in Outside
      BY <2>2 DEF Seated, Outside, Publishing, Joining
    <2>3. ASSUME NEW w \in Worker, Rests(w)
          PROVE  Seated(v)'
      <3>1. /\ OthersStay(w) /\ job'[w].pc \in Outside
            /\ UNCHANGED <<rec, dir, gs, batch, published>>
        BY <2>3, RestsHow
      <3>2. CASE v = w
        BY <2>2, <3>1, <3>2
      <3>3. CASE v # w
        <4>1. job'[v] = job[v]
          BY <3>1, <3>3, AgentKinds DEF OthersStay
        <4> QED
          BY <2>1, <3>1, <4>1 DEF Seated, Reserved, Packed, Allocation
      <3> QED
        BY <3>2, <3>3
    <2>4. ASSUME NEW w \in Worker, Works(w)
          PROVE  Seated(v)'
      <3>1. CASE v = w
        BY <2>1, <2>4, <3>1, SeatedStep
      <3>2. CASE v # w
        <4>1. job'[v] = job[v] /\ ~Working(v)
          BY <2>4, <3>2, Alone
        <4> QED
          BY <2>2, <4>1 DEF Working
      <3> QED
        BY <3>1, <3>2
    <2>5. ASSUME NEW c \in Canceller, Cancelling(c)
          PROVE  Seated(v)'
      <3>1. job'[v] = job[v] /\ UNCHANGED <<rec, dir, gs, batch, published>>
        BY <2>1, <2>5, CancellingHow
      <3> QED
        BY <2>1, <3>1 DEF Seated, Reserved, Packed, Allocation
    <2>6. CASE Around
      BY <2>1, <2>6, SeatedAround
    <2> QED
      BY <2>3, <2>4, <2>5, <2>6, ByWhom
  <1>2. ASSUME rec'.status = "active"
        PROVE  \E v \in Worker : /\ rec'.ev = Sees(rec'.ev.arena, {v}, FALSE, FALSE)
                                 /\ Reserved(v, rec.ev.arena)' /\ Packed(rec.ev.arena)'
    <2>1. rec \in Records /\ TypeOK
      BY DEF Typed, TypeOK
    <2>2. CASE rec.status = "active" /\ UNCHANGED <<rec, dir, gs, batch, published>>
      BY <2>2 DEF SeatsSound, Reserved, Packed
    <2>3. ASSUME NEW w \in Worker, Activate(w), UNCHANGED <<dir, gs, batch, published>>,
                 rec' = [rec EXCEPT !.status = "active", !.owner = None, !.lease = "none"]
          PROVE  \E v \in Worker : /\ rec'.ev = Sees(rec'.ev.arena, {v}, FALSE, FALSE)
                                   /\ Reserved(v, rec.ev.arena)' /\ Packed(rec.ev.arena)'
      <3>1. Open'
        BY <1>2 DEF Open
      <3>2. Open /\ job[w].pc = "activate"
        BY <2>3, <3>1, OpenBack DEF Activate, At
      <3>3. Reserved(w, job[w].arena) /\ Packed(job[w].arena) /\ rec.ev = Allocation(w)
        BY <3>2 DEF SeatsSound, Seated, Publishing
      <3>4. rec'.ev = Allocation(w)
        BY <2>1, <2>3, <3>3 DEF Records
      <3>5. Allocation(w).arena = job[w].arena
        BY DEF Allocation, Sees
      <3>6. rec'.ev = Sees(rec'.ev.arena, {w}, FALSE, FALSE)
        BY <3>4, <3>5 DEF Allocation
      <3>7. rec'.ev.arena = job[w].arena
        BY <3>4, <3>5
      <3>8. Reserved(w, rec.ev.arena)' /\ Packed(rec.ev.arena)'
        BY ONLY <2>3, <3>3, <3>7 DEF Reserved, Packed
      <3> QED
        BY <3>6, <3>8
    <2>4. CASE Around
      <3>1. /\ job' = job /\ (\A x \in Agent : ~Compensate(x))
            /\ \A w \in Worker : ~LaunchRefused(w)
        BY <2>4, AroundKeeps, AroundLeaves
      <3>2. rec' = rec
        <4>1. ~LeaseExpires
          <5>1. LeaseExpires => rec.status # "active"
            BY DEF LeaseExpires, RecordSound, RecordForm
          <5>2. LeaseExpires => rec'.status = rec.status
            BY <2>1 DEF LeaseExpires, Records
          <5> QED
            BY <1>2, <5>1, <5>2
        <4> QED
          BY <2>4, <4>1, RecordKept DEF Around
      <3>3. PICK v \in Worker : /\ rec.ev = Sees(rec.ev.arena, {v}, FALSE, FALSE)
                                /\ Reserved(v, rec.ev.arena) /\ Packed(rec.ev.arena)
        BY <1>2, <3>2 DEF SeatsSound
      <3>4. rec.ev.arena \in Arena
        BY <3>3 DEF Packed, Typed, TypeOK
      <3>5. OtherLeaves => dir.arena # rec.ev.arena \/ "claim" \in dir.packed
        BY <3>3 DEF OtherLeaves, Packed
      <3>6. \A x \in Agent : ~ReleaseSessions(x) /\ ~TerminateSession(x) /\ ~Kill(x) /\ ~Unpack(x)
        BY <3>1 DEF Compensate
      <3>7. \A a \in Arena : Reserved(v, a) /\ a = rec.ev.arena => Reserved(v, a)'
        BY <3>1, <3>5, <3>6, ReservedStays
      <3>8. \A a : Packed(a) => Packed(a)'
        BY <3>6, PackedStays
      <3> QED
        BY <3>2, <3>3, <3>4, <3>7, <3>8 DEF Reserved, Packed
    <2> QED
      BY <1>2, <2>2, <2>3, <2>4, ActiveStays
  <1> QED
    BY <1>1, <1>2 DEF SeatsSound

(* A request that made an arena goes on with it until it ends.             *)
LEMMA MadeStays ==
  ASSUME Typed, NEW w \in Worker, Rests(w) \/ Works(w), job[w].made
  PROVE  Ended(w)' \/ (job'[w].made /\ job'[w].arena = job[w].arena)
  <1>1. TypeOK /\ w \in Agent /\ job[w] \in Jobs /\ WorkerShape(job[w])
    BY AgentKinds, JobFields DEF Typed, Shapes
  <1>2. job[w].pc \notin {"idle", "read", "place", "forget"} \union Replaying
    BY <1>1 DEF WorkerShape, Compensating
  <1>3. CASE Throws(w) \/ Die(w) \/ LaunchUncertain(w)
    <2>1. \E p \in {"failed", "dead"} : job'[w] = [Fresh EXCEPT !.pc = p]
      BY <1>1, <1>3, EndMoves, FailsHow, SetsWhat DEF Becomes
    <2> QED
      BY <2>1, FreshPlan DEF Ended
  <1>4. ~Start(w) /\ ~Fence(w) /\ ~FindStranded(w) /\ ~Forget(w) /\ ~ForgetIntent(w) /\ ~Pack(w) /\ ~Point(w)
    BY <1>2 DEF Start, Fence, FindStranded, Stranded, Forget, ForgetIntent, Pack, Point, At, Replaying
  <1>5. CASE \/ FindAnswer(w) \/ Own(w) \/ GiveUp(w) \/ RetainIntent(w) \/ LaunchAnswered(w) \/ LaunchRefused(w)
             \/ CreateSessions(w) \/ Answered(w) \/ Keep(w) \/ Close(w) \/ Replay(w) \/ Kill(w)
    <2>1. Same(w)
      BY <1>1, <1>5, GoesWhere DEF Goes
    <2> QED
      BY <2>1 DEF Same
  <1>6. CASE (Retain(w) \/ Widen(w)) /\ ~RetainRefused(w)
    <2>1. \/ Moves(w, "widen", {"create"})
          \/ Moves(w, "retain", {"widen"})
      BY <1>1, <1>6, Retaining
    <2> QED
      BY <1>1, <2>1, MovesShape
  <1>7. CASE RetainRefused(w)
    BY <1>1, <1>7, TurnsWhere DEF Turns
  <1>8. CASE PreflightRejected(w) \/ Incomplete(w) \/ PublishPointer(w) \/ PublishRecord(w) \/ Activate(w)
    BY <1>1, <1>8, TurnsWhere DEF Turns, Goes, Same
  <1>9. CASE Unpoint(w)
    <2>1. \E e : Plans(w, "keep", e)
      BY <1>1, <1>9, Planning
    <2> QED
      BY <1>1, <2>1, PlansShape
  <1>10. CASE ReleaseSessions(w) \/ Unpack(w) \/ TerminateSession(w)
    <2>1. Same(w) \/ job'[w] = Fails(w)
      BY <1>1, <1>10, CompensatesHow DEF Goes
    <2>2. job'[w] = Fails(w) => Ended(w)'
      BY FreshPlan DEF Ended
    <2> QED
      BY <2>1, <2>2 DEF Same
  <1> QED
    BY <1>3, <1>4, <1>5, <1>6, <1>7, <1>8, <1>9, <1>10 DEF Rests, Works, WorkerStep, Compensate

(* PointerSound is inductive.                                              *)
LEMMA PointerSoundStep ==
  ASSUME Typed, Next, RecordSound, OneWorks, Titles, BatchesSound, PointerSound, ~SlowCleaner
  PROVE  PointerSound'
  <1>1. TypeOK /\ dir \in Pointers /\ published \subseteq Arena
    BY DEF Typed, TypeOK
  <1>2. \A a \in Arena : gs[a] # "none" => gs'[a] # "none"
    BY SessionsStay
  <1>3. ASSUME NEW w \in Worker
        PROVE  job'[w] = job[w] \/ Rests(w) \/ Works(w)
    BY AgentKinds, ByWhom, RestsHow, WorksHow, CancellingHow, AroundKeeps DEF OthersStay
  <1>4. ASSUME NEW w \in Worker, PublishPointer(w)
        PROVE  /\ job[w].pc = "point" /\ job[w].arena \in Arena /\ gs[job[w].arena] # "none"
               /\ job'[w].pc \notin Launching
               /\ \A v \in Worker : v # w => ~Working(v) /\ job'[v] = job[v]
    <2>1. job[w].pc = "point"
      BY <1>4 DEF PublishPointer, At
    <2>2. job[w].arena \in Arena
      BY <2>1, <1>1, AgentKinds, JobFields DEF Typed, Shapes, WorkerShape
    <2>3. Works(w)
      BY <1>4, <2>1 DEF Works, WorkerStep, FindAnswer, At
    <2>4. job'[w].pc \in {"write", "unpoint"}
      BY <1>1, <1>4, TurnsWhere DEF Goes, Turns
    <2> QED
      BY <2>1, <2>2, <2>3, <2>4, Alone DEF PointerSound, Launching, Publishing
  <1>5. published \subseteq published'
    BY PointerHow
  <1>6. \A a \in published' : a \in published \/ (a \in Arena /\ gs[a] # "none")
    <2>1. published' = published \/ \E w \in Worker : PublishPointer(w) /\ published' = published \union {job[w].arena}
      BY PointerHow
    <2> QED
      BY <1>4, <2>1
  <1>7. \A a \in published' : gs'[a] # "none"
    BY <1>1, <1>2, <1>6 DEF PointerSound
  <1>8. ASSUME NEW w \in Worker, Point(w)
        PROVE  \E a \in Arena : /\ dir' = [status |-> "creating", open |-> TRUE, arena |-> a, creator |-> w, packed |-> {}]
                                /\ a \notin published /\ job'[w].made /\ job'[w].arena = a /\ job'[w].pc = "intent"
    BY <1>1, <1>8, PointsTo DEF PointerSound
  <1>9. \A w \in Worker : Point(w) => published' = published
    BY DEF Point
  <1>10. dir'.status \in {"active", "terminating"} => dir'.arena \in published'
    <2>1. ASSUME NEW w \in Worker, PublishPointer(w), dir.status = "creating", dir.creator = w,
                 dir'.arena = dir.arena, published' = published \union {job[w].arena}
          PROVE  dir'.arena \in published'
      BY <1>4, <2>1 DEF PointerSound, Ended
    <2> QED
      BY <1>5, <1>8, <2>1, PointerHow DEF PointerSound
  <1>11. dir'.status = "creating" => dir'.arena \notin published'
    <2>1. CASE dir' = dir /\ published' = published
      BY <2>1 DEF PointerSound
    <2>2. CASE \E w \in Worker : Point(w)
      BY <1>8, <1>9, <2>2
    <2> QED
      BY <2>1, <2>2, PointerHow DEF PointerSound
  <1>12. ASSUME NEW w \in Worker, Rests(w) \/ Works(w), job[w].made
         PROVE  Ended(w)' \/ (job'[w].made /\ job'[w].arena = job[w].arena)
    BY <1>12, MadeStays
  <1>13. ASSUME NEW w \in Worker, dir'.status = "creating", dir'.creator = w
         PROVE  Ended(w)' \/ (job'[w].made /\ job'[w].arena = dir'.arena)
    <2>1. CASE \E v \in Worker : Point(v)
      BY <1>8, <1>13, <2>1
    <2>2. CASE dir.status = "creating" /\ dir.creator = w /\ dir'.arena = dir.arena
      <3>1. Ended(w) \/ (job[w].made /\ job[w].arena = dir.arena)
        BY <2>2 DEF PointerSound
      <3> QED
        BY <1>3, <1>12, <2>2, <3>1, EndedStays
    <2> QED
      BY <1>13, <2>1, <2>2, PointerHow
  <1>14. ASSUME NEW w \in Worker, job'[w].pc \in Launching \union Publishing
         PROVE  /\ job'[w].pc \in Joining \union Publishing => gs'[job'[w].arena] # "none"
                /\ job'[w].pc \in Launching /\ job'[w].made => job'[w].arena \notin published'
    <2>1. WorkerShape(job[w]) /\ WorkerShape(job'[w]) /\ job[w] \in Jobs
      BY <1>1, AgentKinds, JobFields, TypedStep DEF Typed, Shapes
    <2>2. /\ job[w].pc \in Launching \union Publishing => job[w].arena \in Arena
          /\ job[w].pc \in Joining \union Publishing => gs[job[w].arena] # "none"
          /\ job[w].pc \in Launching /\ job[w].made => job[w].arena \notin published
      BY <1>1, <2>1, AgentKinds, JobFields DEF PointerSound, Launching, Publishing, WorkerShape
    <2>3. job[w].pc \in Launching /\ job[w].made /\ job'[w].pc \in Launching => job[w].arena \notin published'
      <3>1. published' = published \/ \E v \in Worker : PublishPointer(v)
        BY PointerHow
      <3>2. ASSUME NEW v \in Worker, PublishPointer(v), job[w].pc \in Launching, job'[w].pc \in Launching
            PROVE  FALSE
        BY <1>4, <3>2 DEF Working, Outside, Launching
      <3> QED
        BY <2>2, <3>1, <3>2
    <2>4. CASE job'[w] = job[w]
      BY <1>2, <1>14, <2>2, <2>3, <2>4 DEF Joining, Launching
    <2>5. CASE Rests(w)
      BY <1>14, <2>5, RestsHow DEF Outside, Launching, Publishing
    <2>6. CASE Works(w)
      <3>1. CASE Point(w)
        BY <1>8, <1>9, <3>1 DEF Joining, Publishing
      <3>2. CASE Pack(w) /\ job'[w].pc = "retain" /\ job'[w].arena = dir.arena /\ ~job'[w].made
        <4>1. gs[dir.arena] = "up" /\ gs' = gs
          BY <3>2 DEF Pack
        <4> QED
          BY <3>2, <4>1
      <3>3. CASE LaunchAnswered(w) /\ Goes(w, "launch", {"retain"})
        <4>1. job[w].arena \in Arena /\ gs' = Created(job[w].arena)
          BY <2>2, <3>3 DEF LaunchAnswered, Goes, Launching
        <4>2. gs'[job[w].arena] # "none"
          BY <1>1, <4>1 DEF Created, TypeOK
        <4> QED
          BY <2>3, <3>3, <4>2 DEF Goes, Same, Launching
      <3>4. CASE /\ job[w].pc \in Joining \union Publishing /\ Same(w)
                 /\ job[w].pc \in Launching \/ job'[w].pc \notin Launching
        <4>1. job[w].arena \in Arena /\ gs'[job[w].arena] # "none"
          BY <1>2, <2>2, <3>4 DEF Joining, Launching
        <4> QED
          BY <2>3, <3>4, <4>1 DEF Same
      <3>5. CASE RetainIntent(w) /\ Goes(w, "intent", {"launch"})
        BY <2>3, <3>5 DEF Goes, Same, Joining, Launching, Publishing
      <3> QED
        <4>1. \/ \E from \in {"retain", "widen", "create", "await"}, P \in SUBSET Places : Goes(w, from, P)
              \/ Goes(w, "point", {"write"}) \/ Goes(w, "write", {"activate"})
              \/ Point(w) \/ (RetainIntent(w) /\ Goes(w, "intent", {"launch"}))
              \/ LaunchAnswered(w) /\ Goes(w, "launch", {"retain"})
              \/ Pack(w) /\ job'[w].pc = "retain" /\ job'[w].arena = dir.arena /\ ~job'[w].made
          BY <1>14, <2>6, Advances, PlaceNames
        <4> QED
          BY <3>1, <3>2, <3>3, <3>4, <3>5, <4>1 DEF Goes, Joining, Publishing, Launching
    <2> QED
      BY <1>3, <2>4, <2>5, <2>6
  <1>15. ASSUME NEW w \in Worker, batch'[w].state # "none"
         PROVE  batch'[w].arena \in Arena /\ gs'[batch'[w].arena] # "none"
    <2>1. CASE batch'[w].arena = batch[w].arena /\ batch[w].state # "none"
      BY <1>2, <2>1 DEF PointerSound
    <2>2. CASE CreateSessions(w) /\ batch'[w].arena = job[w].arena
      <3>1. job[w].pc = "create" /\ gs' = gs
        BY <2>2 DEF CreateSessions, At
      <3>2. job[w].arena \in Arena
        BY <1>1, <3>1, AgentKinds, JobFields DEF Typed, Shapes, WorkerShape
      <3> QED
        BY <2>2, <3>1, <3>2 DEF PointerSound, Joining
    <2> QED
      BY <1>15, <2>1, <2>2, BatchHow
  <1>16. /\ \A w \in Worker : job'[w].pc \in Joining \union Publishing => gs'[job'[w].arena] # "none"
         /\ \A w \in Worker : job'[w].pc \in Launching /\ job'[w].made => job'[w].arena \notin published'
    BY <1>14 DEF Joining, Launching
  <1> QED
    BY <1>7, <1>10, <1>11, <1>13, <1>15, <1>16 DEF PointerSound, Ended

Sound == Typed /\ RecordSound /\ OneWorks /\ Titles /\ BatchesSound /\ PointerSound /\ SeatsSound

(* The inductive invariant holds at first ...                              *)
LEMMA SoundInit ==
  ASSUME Init
  PROVE  Sound
  <1>1. /\ Typed /\ rec = NoRecord
        /\ \A x \in Agent : job[x] = Fresh
        /\ \A w \in Worker : batch[w].state = "none" /\ w \in Agent
    BY TypedInit, AgentKinds DEF Init
  <1>2. Fresh.pc = "idle" /\ Fresh.after = "idle" /\ ~Fresh.made /\ Fresh.plan.known = {}
    BY DEF Fresh, NoEvidence, Sees
  <1>3. NoRecord.status = "none" /\ NoRecord.lease = "none" /\ NoRecord.ev.known = {}
    BY DEF NoRecord, NoEvidence, Sees
  <1>4. /\ \A w \in Worker : job[w].pc = "idle" /\ job[w].after = "idle" /\ ~job[w].made
        /\ \A x \in Agent : job[x].pc = "idle" /\ job[x].plan.known = {}
    BY <1>1, <1>2
  <1>5. RecordSound
    BY <1>1, <1>3 DEF RecordSound, RecordForm
  <1>6. OneWorks /\ Titles
    BY <1>4, AgentKinds DEF OneWorks, Titles, Working, Outside
  <1>7. BatchesSound
    BY <1>1, <1>3, <1>4 DEF BatchesSound, BatchSound, KnownIn, KnownAt, Publishing
  <1>8. PointerSound
    <2>1. \/ dir.status = "none" /\ published = {}
          \/ \E a \in Arena : dir.status = "active" /\ dir.arena = a /\ gs[a] = "up" /\ published = {a}
      BY DEF Init, NoPointer
    <2> QED
      BY <1>1, <1>4, <2>1 DEF PointerSound, Joining, Publishing, Launching
  <1>9. SeatsSound
    BY <1>1, <1>3, <1>4 DEF SeatsSound, Seated, Publishing, Joining
  <1> QED
    BY <1>1, <1>5, <1>6, <1>7, <1>8, <1>9 DEF Sound

(* ... and every step keeps it.                                            *)
LEMMA SoundStep ==
  ASSUME ~SlowCleaner, Sound, [Next]_vars
  PROVE  Sound'
  <1>1. CASE Next
    <2>1. Typed'
      BY TypedStep DEF Sound
    <2>2. RecordSound' /\ OneWorks' /\ Titles'
      BY <1>1, RecordSoundStep, OneWorksStep, TitlesStep DEF Sound
    <2>3. BatchesSound' /\ PointerSound' /\ SeatsSound'
      BY <1>1, BatchesSoundStep, PointerSoundStep, SeatsSoundStep DEF Sound
    <2> QED
      BY <2>1, <2>2, <2>3 DEF Sound
  <1>2. CASE UNCHANGED vars
    <2>1. Typed'
      BY TypedStep DEF Sound
    <2>2. RecordSound' /\ OneWorks' /\ Titles'
      BY <1>2 DEF Sound, vars, RecordSound, RecordForm, Ended, OneWorks, Titles, Open, Working, Entitled, Cleaning
    <2>3. BatchesSound' /\ PointerSound'
      BY <1>2 DEF Sound, vars, BatchesSound, BatchSound, KnownIn, KnownAt, Cleaning, PointerSound, Ended
    <2>4. SeatsSound'
      BY <1>2 DEF Sound, vars, SeatsSound, Seated, Open, Reserved, Packed, Allocation
    <2> QED
      BY <2>1, <2>2, <2>3, <2>4 DEF Sound
  <1> QED
    BY <1>1, <1>2

(* So it always holds, unless two requests work off the same evidence.     *)
LEMMA AlwaysSound ==
  ASSUME ~SlowCleaner
  PROVE  Spec => []Sound
  <1>1. Sound /\ [Next]_vars => Sound'
    BY SoundStep
  <1> QED
    BY <1>1, SoundInit, PTL DEF Spec

(* Unless two requests work off the same stale evidence, connection data   *)
(* that a party can fetch leads into a running arena in which its player   *)
(* sessions are reserved.                                                  *)
THEOREM PlacedIsReserved ==
  ASSUME ~SlowCleaner
  PROVE  Spec => []ActiveIsReserved
  <1>1. Sound => ActiveIsReserved
    <2> SUFFICES ASSUME Sound, rec.status = "active"
                 PROVE  /\ rec.ev.known # {} /\ gs[rec.ev.arena] = "up"
                        /\ \A w \in rec.ev.known : batch[w] = [state |-> "live", arena |-> rec.ev.arena]
      BY DEF ActiveIsReserved
    <2>1. PICK w \in Worker : /\ rec.ev = Sees(rec.ev.arena, {w}, FALSE, FALSE)
                              /\ Reserved(w, rec.ev.arena)
      BY DEF Sound, SeatsSound
    <2>2. \A a : Sees(a, {w}, FALSE, FALSE).known = {w}
      BY DEF Sees
    <2>3. rec.ev.known = {w}
      BY <2>1, <2>2
    <2>4. batch[w] = [state |-> "live", arena |-> rec.ev.arena]
      BY <2>1 DEF Reserved, Sound, Typed, TypeOK, Batches
    <2> QED
      BY <2>1, <2>3, <2>4 DEF Reserved
  <1> QED
    BY <1>1, AlwaysSound, PTL

(***************************************************************************)
(* The claim as its members see it.                                        *)
(***************************************************************************)
StateOf(r) ==
  CASE r.status \in {"none", "allocating"} -> "open"
    [] r.status = "active" -> "placed"
    [] OTHER -> r.status
PlacementOf(r) == IF r.status # "active" THEN None ELSE CHOOSE w \in Worker : w \in r.ev.known
HeldIn(b) == {w \in Worker : b[w].state = "live"}

(* The members' view of a record, by its status.                           *)
LEMMA StatesOf ==
  ASSUME NEW r \in Records
  PROVE  /\ r.status \in {"none", "allocating"} => StateOf(r) = "open"
         /\ r.status = "active" => StateOf(r) = "placed"
         /\ r.status = "cancelling" => StateOf(r) = "cancelling"
         /\ r.status = "cancelled" => StateOf(r) = "cancelled"
         /\ r.status # "active" => PlacementOf(r) = None
         /\ r.status \in {"none", "allocating", "active", "cancelling", "cancelled"}
  BY DEF StateOf, PlacementOf, Records

(* How a step changes the members' view of the record.                     *)
LEMMA LifeHow ==
  ASSUME Typed, Next
  PROVE  \/ StateOf(rec') = StateOf(rec) /\ PlacementOf(rec') = PlacementOf(rec)
         \/ \E w \in Worker : /\ Activate(w) /\ StateOf(rec) = "open" /\ StateOf(rec') = "placed"
                              /\ rec'.status = "active" /\ batch' = batch
         \/ /\ StateOf(rec) \in {"open", "placed"} /\ StateOf(rec') = "cancelling"
            /\ PlacementOf(rec') = None /\ batch' = batch
         \/ /\ StateOf(rec) \in {"open", "cancelling"} /\ StateOf(rec') = "cancelled"
            /\ PlacementOf(rec') = PlacementOf(rec) /\ batch' = batch
  <1>1. rec \in Records /\ rec' \in Records
    BY TypedStep DEF Typed, TypeOK
  <1>2. \A r \in {rec, rec'} :
          /\ r.status \in {"none", "allocating"} => StateOf(r) = "open"
          /\ r.status = "active" => StateOf(r) = "placed"
          /\ r.status = "cancelling" => StateOf(r) = "cancelling"
          /\ r.status = "cancelled" => StateOf(r) = "cancelled"
          /\ r.status # "active" => PlacementOf(r) = None
    BY <1>1, StatesOf
  <1>3. CASE rec' = rec
    BY <1>3
  <1>4. ASSUME rec'.status = rec.status, rec'.ev = rec.ev \/ rec.status # "active"
        PROVE  StateOf(rec') = StateOf(rec) /\ PlacementOf(rec') = PlacementOf(rec)
    <2>1. CASE rec.status # "active"
      BY <1>1, <1>2, <1>4, <2>1, StatesOf
    <2>2. CASE rec.status = "active" /\ rec'.ev = rec.ev
      <3>1. PlacementOf(rec') = PlacementOf(rec)
        BY <1>4, <2>2 DEF PlacementOf
      <3> QED
        BY <1>2, <1>4, <2>2, <3>1
    <2> QED
      BY <1>4, <2>1, <2>2
  <1>5. CASE \E w \in Worker : (Own(w) \/ Fence(w)) /\ rec' = Owning(w)
    <2>1. rec.status \in {"none", "allocating"} /\ rec'.status = "allocating"
      BY <1>1, <1>5 DEF Own, Fence, Stranded, Owning, Records
    <2> QED
      BY <1>2, <2>1
  <1>6. CASE rec.status = "allocating" /\ rec' = NoRecord
    <2>1. rec'.status = "none"
      BY <1>6 DEF NoRecord
    <2> QED
      BY <1>2, <1>6, <2>1
  <1>7. CASE \E a : rec' = [rec EXCEPT !.intent = a]
    <2>1. rec'.status = rec.status /\ rec'.ev = rec.ev
      BY <1>1, <1>7 DEF Records
    <2> QED
      BY <1>4, <2>1
  <1>8. CASE \E w \in Worker, e \in Evidence : MayRetain(w) /\ rec' = [rec EXCEPT !.ev = e]
    <2>1. rec.status # "active" /\ rec'.status = rec.status
      BY <1>1, <1>8 DEF MayRetain, Owns, Records
    <2> QED
      BY <1>4, <2>1
  <1>9. CASE \E w \in Worker : /\ Activate(w) /\ Owns(w)
                               /\ rec' = [rec EXCEPT !.status = "active", !.owner = None, !.lease = "none"]
    <2>1. PICK w \in Worker : /\ Activate(w) /\ Owns(w)
                              /\ rec' = [rec EXCEPT !.status = "active", !.owner = None, !.lease = "none"]
      BY <1>9
    <2>2. rec.status = "allocating" /\ rec'.status = "active" /\ batch' = batch
      BY <1>1, <2>1 DEF Owns, Activate, Records
    <2> QED
      BY <1>2, <2>1, <2>2
  <1>10. CASE /\ rec.status = "cancelling" /\ rec' = Cancelled(rec)
              /\ (\E w \in Worker : Close(w)) \/ (\E c \in Canceller : Finish(c))
    <2>1. rec'.status = "cancelled" /\ batch' = batch
      BY <1>1, <1>10 DEF Cancelled, Records, Close, Finish
    <2> QED
      BY <1>2, <1>10, <2>1
  <1>11. CASE \E c \in Canceller : /\ Tombstone(c) /\ rec.status \in {"none", "cancelled"}
                                   /\ rec' = [rec EXCEPT !.status = "cancelled"]
    <2>1. rec'.status = "cancelled" /\ batch' = batch
      BY <1>1, <1>11 DEF Records, Tombstone
    <2> QED
      BY <1>2, <1>11, <2>1
  <1>12. CASE \E c \in Canceller : /\ Mark(c)
                                   /\ rec.status \in {"allocating", "active", "cancelling"}
                                   /\ rec' = [rec EXCEPT !.status = "cancelling"]
    <2>1. rec'.status = "cancelling" /\ batch' = batch
      BY <1>1, <1>12 DEF Records, Mark
    <2> QED
      BY <1>2, <1>12, <2>1
  <1>13. CASE rec' = [rec EXCEPT !.lease = "expired"]
    <2>1. rec'.status = rec.status /\ rec'.ev = rec.ev
      BY <1>1, <1>13 DEF Records
    <2> QED
      BY <1>4, <2>1
  <1> QED
    BY <1>3, <1>5, <1>6, <1>7, <1>8, <1>9, <1>10, <1>11, <1>12, <1>13, RecordHow

(* The placement is the one request whose seats the record publishes.      *)
LEMMA PlacementIs ==
  ASSUME NEW r, NEW b,
         r.status = "active" =>
           \E w \in Worker : r.ev = Sees(r.ev.arena, {w}, FALSE, FALSE) /\ b[w].state = "live"
  PROVE  /\ PlacementOf(r) = None \/ PlacementOf(r) \in HeldIn(b)
         /\ None \notin Worker
  <1>1. ASSUME r.status = "active"
        PROVE  PlacementOf(r) \in HeldIn(b)
    <2>1. PICK w \in Worker : r.ev = Sees(r.ev.arena, {w}, FALSE, FALSE) /\ b[w].state = "live"
      BY <1>1
    <2>2. \A a : Sees(a, {w}, FALSE, FALSE).known = {w}
      BY DEF Sees
    <2>3. r.ev.known = {w}
      BY <2>1, <2>2
    <2>4. PlacementOf(r) = w
      BY <1>1, <2>3 DEF PlacementOf
    <2> QED
      BY <2>1, <2>4 DEF HeldIn
  <1>2. None \notin Worker
    BY AllocationAssumption DEF Agent
  <1>3. r.status # "active" => PlacementOf(r) = None
    BY DEF PlacementOf
  <1> QED
    BY <1>1, <1>2, <1>3

(* A step gives seats back or reserves those of one request.               *)
LEMMA HeldHow ==
  ASSUME Sound, Next
  PROVE  \/ HeldIn(batch') \subseteq HeldIn(batch)
         \/ \E v \in Worker : HeldIn(batch') = HeldIn(batch) \union {v}
  <1>1. Typed /\ BatchesSound /\ TypeOK
    BY DEF Sound, Typed
  <1>2. ASSUME NEW v \in Worker, batch'[v].state = "live", batch[v].state # "live"
        PROVE  HeldIn(batch') = HeldIn(batch) \union {v}
    <2>1. GameLiftReserves(v)
      BY <1>1, <1>2, BatchHow
    <2>2. batch' = [batch EXCEPT ![v].state = "live"] \/ batch' = Ends({v})
      BY <2>1 DEF GameLiftReserves
    <2>3. \A w \in Worker : w # v => batch'[w] = batch[w]
      BY <1>1, <2>2, EndsOf DEF TypeOK
    <2> QED
      BY <1>2, <2>3 DEF HeldIn
  <1> QED
    BY <1>2 DEF HeldIn

(* Unless two requests work off the same stale evidence, a claim is placed *)
(* once, by a request that holds its seats, keeps them until somebody      *)
(* cancels, and is never placed again: the matchmaker implements           *)
(* ClaimLife.                                                              *)
THEOREM ImplementsClaimLife ==
  ASSUME ~SlowCleaner
  PROVE  Spec => LifeSpec
  <1>1. Init => Life!Init
    <2> SUFFICES ASSUME Init
                 PROVE  Life!Init
      OBVIOUS
    <2>1. rec = NoRecord /\ NoRecord.status = "none" /\ \A w \in Worker : batch[w].state = "none"
      BY DEF Init, NoRecord
    <2>2. StateOf(rec) = "open" /\ PlacementOf(rec) = None /\ HeldIn(batch) = {}
      BY <2>1 DEF StateOf, PlacementOf, HeldIn
    <2> QED
      BY <2>2 DEF Life!Init, StateOf, PlacementOf, HeldIn
  <1>2. Sound /\ Sound' /\ [Next]_vars => [Life!Next]_(Life!vars)
    <2> SUFFICES ASSUME Sound, Sound', [Next]_vars
                 PROVE  Life!Next \/ UNCHANGED Life!vars
      OBVIOUS
    <2>1. CASE UNCHANGED vars
      BY <2>1 DEF vars, Life!vars
    <2>2. CASE Next
      <3>1. Typed /\ rec \in Records
        BY DEF Sound, Typed, TypeOK
      <3>2. /\ PlacementOf(rec) = None \/ PlacementOf(rec) \in HeldIn(batch)
            /\ None \notin Worker
        <4>1. rec.status = "active" =>
                \E w \in Worker : rec.ev = Sees(rec.ev.arena, {w}, FALSE, FALSE) /\ batch[w].state = "live"
          BY DEF Sound, SeatsSound, Reserved
        <4> QED
          BY <4>1, PlacementIs
      <3>3. PlacementOf(rec') = None \/ PlacementOf(rec') \in HeldIn(batch')
        <4>1. rec'.status = "active" =>
                \E w \in Worker : rec'.ev = Sees(rec'.ev.arena, {w}, FALSE, FALSE) /\ batch'[w].state = "live"
          BY DEF Sound, SeatsSound, Reserved
        <4> QED
          BY <4>1, PlacementIs
      <3>4. CASE StateOf(rec') = StateOf(rec) /\ PlacementOf(rec') = PlacementOf(rec)
        <4>1. CASE HeldIn(batch') \subseteq HeldIn(batch)
          <5>1. PICK R \in SUBSET Worker : HeldIn(batch') = HeldIn(batch) \ R /\ PlacementOf(rec) \notin R
            <6>1. HeldIn(batch) \ HeldIn(batch') \in SUBSET Worker
              BY DEF HeldIn
            <6> QED
              BY <3>2, <3>3, <3>4, <4>1, <6>1
          <5>2. Life!GiveBack(R)
            BY <3>4, <5>1 DEF Life!GiveBack, StateOf, PlacementOf, HeldIn
          <5> QED
            BY <5>2 DEF Life!Next
        <4>2. ASSUME NEW v \in Worker, HeldIn(batch') = HeldIn(batch) \union {v}
              PROVE  Life!Next
          <5>1. Life!Obtain(v)
            BY <3>4, <4>2 DEF Life!Obtain, StateOf, PlacementOf, HeldIn
          <5> QED
            BY <5>1 DEF Life!Next
        <4> QED
          BY <2>2, <4>1, <4>2, HeldHow
      <3>5. ASSUME NEW w \in Worker, StateOf(rec) = "open", StateOf(rec') = "placed",
                   rec'.status = "active", batch' = batch
            PROVE  Life!Next
        <4>1. PICK v \in Worker : rec'.ev = Sees(rec'.ev.arena, {v}, FALSE, FALSE)
          BY <3>5 DEF Sound, SeatsSound
        <4>2. rec'.ev.known = {v}
          <5>1. \A a : Sees(a, {v}, FALSE, FALSE).known = {v}
            BY DEF Sees
          <5> QED
            BY <4>1, <5>1
        <4>3. PlacementOf(rec') = v
          BY <3>5, <4>2 DEF PlacementOf
        <4>4. v \in HeldIn(batch) /\ HeldIn(batch') = HeldIn(batch)
          BY <3>2, <3>3, <3>5, <4>3
        <4>5. Life!Place(v)
          BY <3>5, <4>3, <4>4 DEF Life!Place, StateOf, PlacementOf, HeldIn
        <4> QED
          BY <4>5 DEF Life!Next
      <3>6. CASE /\ StateOf(rec) \in {"open", "placed"} /\ StateOf(rec') = "cancelling"
                 /\ PlacementOf(rec') = None /\ batch' = batch
        <4>1. Life!Cancel
          BY <3>6 DEF Life!Cancel, StateOf, PlacementOf
        <4> QED
          BY <4>1 DEF Life!Next
      <3>7. CASE /\ StateOf(rec) \in {"open", "cancelling"} /\ StateOf(rec') = "cancelled"
                 /\ PlacementOf(rec') = PlacementOf(rec) /\ batch' = batch
        <4>1. Life!Cancelled
          BY <3>7 DEF Life!Cancelled, StateOf, PlacementOf
        <4> QED
          BY <4>1 DEF Life!Next
      <3> QED
        BY <2>2, <3>1, <3>4, <3>5, <3>6, <3>7, LifeHow
    <2> QED
      BY <2>1, <2>2
  <1> QED
    BY <1>1, <1>2, AlwaysSound, PTL DEF Spec, LifeSpec, Life!Spec

=============================================================================
