------------------------ MODULE AllocationProperties ------------------------
(***************************************************************************)
(* What the matchmaker's allocation of a claim must keep, whoever dies.    *)
(***************************************************************************)
EXTENDS PartyAllocation

TypeOK ==
  /\ rec \in Records
  /\ dir \in Pointers
  /\ gs \in [Arena -> {"none", "up", "terminated"}]
  /\ batch \in [Worker -> Batches]
  /\ claim \in {"active", "cancelling", "cancelled"}
  /\ job \in [Agent -> Jobs]
  /\ published \subseteq Arena
  /\ stray \subseteq Arena

(* Connection data the party can fetch leads into a running arena in which *)
(* its player sessions are reserved.                                       *)
ActiveIsReserved ==
  rec.status = "active" =>
    /\ rec.ev.known # {} /\ gs[rec.ev.arena] = "up"
    /\ \A w \in rec.ev.known : batch[w] = [state |-> "live", arena |-> rec.ev.arena]

AllEnded == \A w \in Worker : Ended(w) \/ At(w, "idle")

(* Every player session held for the claim, or still on its way, in an     *)
(* arena that runs can be found from the record, whatever its status: the  *)
(* evidence is about that arena and knows the session, has it looked for,  *)
(* or has the arena ended.  The evidence is written before the call and    *)
(* goes only after a compensation (handler.ts:838-840, 1101-1112, 313-319)  *)
LeadsTo(e, w) ==
  e.arena = batch[w].arena /\ (w \in e.known \/ e.window \/ e.terminate)
SessionsAreFound ==
  \A w \in Worker :
    batch[w].state \in {"flying", "live"} /\ gs[batch[w].arena] = "up" => LeadsTo(rec.ev, w)

(* "If GameLift creation races cancellation, the allocator compensates     *)
(* every returned reservation"                                             *)
(* (docs/durable-party-allocation-foundation.md:39): when all requests    *)
(* have ended a cancelled claim holds no player session.                   *)
CancelledIsClean ==
  rec.status = "cancelled" /\ AllEnded =>
    \A a \in Arena : gs[a] = "up" => In(a, {"live"}) = {}

(* "On any incomplete response, publication race, cancellation, or         *)
(* retryable capacity/composition failure, release every returned player   *)
(* session and the directory reservation"                                  *)
(* (docs/durable-party-allocation-foundation.md:49).                       *)
CancelledIsUnpacked ==
  rec.status = "cancelled" /\ AllEnded => "claim" \notin dir.packed

(* Every game session that runs was offered to players or is named by the  *)
(* claim's record, also by the tombstone of a cancelled claim, whoever     *)
(* died: its identity is durable before GameLift is asked and goes only    *)
(* after the session has ended (handler.ts:1061-1064).  Not those that a   *)
(* cancellation makes by replaying a creation only the pointer names.      *)
LaunchedIsNamed ==
  \A a \in Arena \ stray : gs[a] = "up" => a \in published \union {rec.intent, rec.ev.arena}

(* "Replaying the exact idempotency token and durable metadata returns     *)
(* that original GameSession (or creates it once), even after the public   *)
(* pointer expired or another claim replaced it" (handler.ts:1666): every  *)
(* game session that runs was offered, is named by the record or the       *)
(* pointer, or is about to be ended by the request that replayed it.       *)
NoOrphanArena ==
  \A a \in Arena : gs[a] = "up" =>
    \/ a \in published \union {rec.intent, rec.ev.arena}
    \/ dir.status = "creating" /\ a = dir.arena
    \/ \E x \in Agent : At(x, "kill") /\ a = job[x].arena

(* The claim as its members see it.                                        *)
Life == INSTANCE ClaimLife WITH
  Request <- Worker, Nobody <- None,
  state <- CASE rec.status \in {"none", "allocating"} -> "open"
             [] rec.status = "active" -> "placed"
             [] OTHER -> rec.status,
  placement <- IF rec.status # "active" THEN None ELSE CHOOSE w \in Worker : w \in rec.ev.known,
  held <- {w \in Worker : batch[w].state = "live"}

(* A claim is placed once, its seats are kept until somebody cancels, and  *)
(* it is never placed again after that: PartyAllocation implements         *)
(* ClaimLife.                                                              *)
LifeSpec == Life!Spec

(* The record names a creation whose game session has ended: nobody can    *)
(* end it once more, and every cancellation throws.                        *)
Unendable ==
  /\ rec.status = "cancelling" /\ ~HasEvidence /\ rec.intent # None
  /\ gs[rec.intent] = "terminated"

(* Once a member has asked to cancel, the control plane's claim becomes    *)
(* cancelled and the party may queue again, unless the record names a      *)
(* creation that cannot be ended.                                          *)
CancellationCompletesIfEndable == claim = "cancelling" ~> claim = "cancelled" \/ Unendable

(* "An expired allocator or cancellation first fences the old owner,       *)
(* replays and terminates that exact generation, and only then permits a   *)
(* fresh allocator generation"                                             *)
(* (docs/durable-party-allocation-foundation.md:52): a cancellation that   *)
(* was asked for completes.                                                *)
CancellationCompletes == claim = "cancelling" ~> claim = "cancelled"
=============================================================================
