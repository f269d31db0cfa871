----------------------------- MODULE InputLoops -----------------------------
(***************************************************************************)
(* Room's loops over the array of queued frames, to compare with the       *)
(* operators on the set.  The array of a set of frames is in the order of  *)
(* their numbers, as are the frames of a message.                          *)
(***************************************************************************)
EXTENDS InputStreamProperties, SequencesExt

Older(S, f) == {g \in S : g.seq < f.seq}
BySeq(S) == [n \in 1..Cardinality(S) |-> CHOOSE f \in S : Cardinality(Older(S, f)) = n - 1]

First(I) == CHOOSE i \in I : \A j \in I : i <= j

(* The loop at Room.ts 903: each frame goes before the first newer one.     *)
InsertFrame(q, f) ==
  LET newer == {i \in DOMAIN q : q[i].seq > f.seq}
  IN  IF f.seq <= lastAppliedSeq \/ \E i \in DOMAIN q : q[i].seq = f.seq THEN q
      ELSE IF newer = {} THEN Append(q, f) ELSE InsertAt(q, First(newer), f)

InsertFrames(q, frames) ==
  LET at[n \in 0..Len(frames)] == IF n = 0 THEN q ELSE InsertFrame(at[n - 1], frames[n])
  IN  at[Len(frames)]

(* The loops at Room.ts 913 and 999: k times, drop the first frame without  *)
(* an edge, or the first frame, which is then acknowledged; the loop of the *)
(* trim never lowers the acknowledgement.                                   *)
DropFrame(d, trim) ==
  LET droppable == {i \in DOMAIN d.queue : ~CarriesAction(d.queue[i])}
      dropAt == IF droppable = {} THEN 1 ELSE First(droppable)
  IN  [queue |-> RemoveAt(d.queue, dropAt),
       ack |-> IF dropAt = 1 /\ (trim => d.ack < d.queue[1].seq) THEN d.queue[1].seq ELSE d.ack]

DropFrames(q, ack, k, trim) ==
  LET at[n \in 0..k] == IF n = 0 THEN [queue |-> q, ack |-> ack] ELSE DropFrame(at[n - 1], trim)
  IN  IF k <= 0 THEN [queue |-> q, ack |-> ack] ELSE at[k]

(* The frames of the message that arrives next. *)
Arriving == IF up # <<>> /\ Head(up).kind = "input" THEN Head(up).frames ELSE {}

Joined == inputQueue \cup {f \in Arriving : f.seq > lastAppliedSeq /\ f.seq \notin Seqs(inputQueue)}

ShedsAsLoop(Q, k, trim) ==
  DropFrames(BySeq(Q), lastAppliedSeq, k, trim) =
    [queue |-> BySeq(Q \ Shed(Q, k)), ack |-> AckOf(Q, Shed(Q, k), lastAppliedSeq)]

(* The operators on sets compute what the loops compute, for the message    *)
(* that arrives next and for a trim of any size (enqueueInputFrames,        *)
(* trimStandingBacklog).                                                    *)
SheddingMatchesLoops ==
  /\ InsertFrames(BySeq(inputQueue), BySeq(Arriving)) = BySeq(Joined)
  /\ ShedsAsLoop(Joined, Cardinality(Joined) - QueueLimit, FALSE)
  /\ \A k \in 0..Cardinality(inputQueue) : ShedsAsLoop(inputQueue, k, TRUE)
=============================================================================
