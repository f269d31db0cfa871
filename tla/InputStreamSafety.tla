-------------------------- MODULE InputStreamSafety --------------------------
(***************************************************************************)
(* The types of InputStream, AppliedInOrder, GateHasKeeper,                 *)
(* FirstCopyIsFresh, ReplayCoversServer and SheddingMatchesLoops, for every *)
(* value of its constants.                                                 *)
(*                                                                         *)
(* Order.  A handoff forgets what was acknowledged, so that the             *)
(* acknowledgement alone does not keep old frames out: what does is that    *)
(* nothing old is left to send.  OrderInv says so of every place a frame    *)
(* may be in.                                                              *)
(*                                                                         *)
(* Gate.  Whatever a handoff loses, a shut gate is going to be released.    *)
(*                                                                         *)
(* Flow.  The client's memory has no gaps, so a message repeats all that    *)
(* an earlier one held and that redundancy still covers; the queue sheds    *)
(* its oldest frames first.  So the acknowledgement passes only frames that *)
(* arrived, and the client forgets only what it has passed.                 *)
(*                                                                         *)
(* Loops.  Splicing one element of the array is adding or taking the frame  *)
(* of the set, so that after n rounds the array is that of a set known in   *)
(* closed form; the least n at which it would not be cannot exist.          *)
(***************************************************************************)
EXTENDS InputLoops, FiniteSetTheorems, FunctionTheorems, WellFoundedInduction, SequenceTheorems, TLAPS

-----------------------------------------------------------------------------
(* Sets of numbers and of frames.                                          *)

LEMMA LeastExists ==
  ASSUME NEW S, S \subseteq Nat, S # {}
  PROVE  \E x \in S : \A y \in S : x <= y
<1>1. PICK x \in S : \A y \in S : ~(<<y, x>> \in OpToRel(<, Nat))
  BY NatLessThanWellFounded, WFMin
<1>2. \A y \in S : y \in Nat /\ ~(y < x)
  BY <1>1 DEF OpToRel
<1>3. \A y \in S : x <= y
  BY <1>2
<1> QED
  BY <1>3

LEMMA GreatestExists ==
  ASSUME NEW m \in Nat, NEW S, S \subseteq 0..m, S # {}
  PROVE  \E x \in S : \A y \in S : y <= x
<1> DEFINE T == {m - y : y \in S}
<1>1. \A y \in S : y \in Nat /\ y <= m /\ m - y \in T /\ m - y \in Nat
  OBVIOUS
<1>2. T \subseteq Nat /\ T # {}
  BY <1>1
<1>3. PICK t \in T : \A y \in T : t <= y
  <2> HIDE DEF T
  <2> QED
    BY <1>2, LeastExists
<1>4. PICK x \in S : t = m - x
  BY <1>3
<1>5. ASSUME NEW y \in S
      PROVE  y <= x
  <2>1. t <= m - y
    BY <1>1, <1>3
  <2> QED
    BY <2>1, <1>1, <1>4
<1> QED
  BY <1>5

LEMMA FramesFinite ==
  ASSUME NEW Q, Q \subseteq Frames
  PROVE  IsFiniteSet(Q) /\ Cardinality(Q) \in Nat
<1> DEFINE P == (1..MaxSeq) \X SUBSET Edges
           f == [p \in P |-> [seq |-> p[1], edges |-> p[2]]]
<1>1. IsFiniteSet(P)
  <2>1. MaxSeq \in Int /\ 1 \in Int /\ IsFiniteSet(Edges)
    BY StreamAssumption
  <2>2. IsFiniteSet(1..MaxSeq)
    BY <2>1, FS_Interval
  <2>3. IsFiniteSet(SUBSET Edges)
    BY <2>1, FS_SUBSET
  <2> QED
    BY <2>2, <2>3, FS_Product
<1>2. f \in Surjection(P, Frames)
  <2>1. f \in [P -> Frames]
    BY DEF Frames
  <2>2. ASSUME NEW g \in Frames
        PROVE  \E p \in P : f[p] = g
    <3>1. <<g.seq, g.edges>> \in P /\ f[<<g.seq, g.edges>>] = g
      BY DEF Frames
    <3> QED
      BY <3>1
  <2> QED
    BY <2>1, <2>2 DEF Surjection
<1>3. IsFiniteSet(Frames)
  BY <1>1, <1>2, FS_Surjection
<1> QED
  BY <1>3, FS_Subset, FS_CardinalityType

LEMMA OldestFrame ==
  ASSUME NEW Q, Q \subseteq Frames, Q # {}
  PROVE  OldestOf(Q) \in Q /\ \A g \in Q : OldestOf(Q).seq <= g.seq
<1>1. Seqs(Q) \subseteq Nat /\ Seqs(Q) # {}
  BY DEF Seqs, Frames
<1>2. PICK s \in Seqs(Q) : \A t \in Seqs(Q) : s <= t
  BY <1>1, LeastExists
<1>3. \E f \in Q : \A g \in Q : f.seq <= g.seq
  BY <1>2 DEF Seqs
<1> QED
  BY <1>3 DEF OldestOf

LEMMA NewestFrame ==
  ASSUME NEW Q, Q \subseteq Frames, Q # {}
  PROVE  NewestOf(Q) \in Q /\ \A g \in Q : g.seq <= NewestOf(Q).seq
<1>1. Seqs(Q) \subseteq 0..MaxSeq /\ Seqs(Q) # {} /\ MaxSeq \in Nat
  BY StreamAssumption DEF Seqs, Frames
<1>2. PICK s \in Seqs(Q) : \A t \in Seqs(Q) : t <= s
  BY <1>1, GreatestExists
<1>3. \E f \in Q : \A g \in Q : g.seq <= f.seq
  BY <1>2 DEF Seqs
<1> QED
  BY <1>3 DEF NewestOf

(* The acknowledgement stays where it is or follows a frame that was shed   *)
(* as the first of the queue.                                               *)
ShedAsFirst(Q, D) ==
  {f \in D : CarriesAction(f) \/ \A g \in Q : CarriesAction(g) => f.seq < g.seq}

LEMMA AckOfShed ==
  ASSUME NEW Q, Q \subseteq Frames, NEW D, D \subseteq Q, NEW ack \in 0..MaxSeq
  PROVE  /\ AckOf(Q, D, ack) \in 0..MaxSeq /\ AckOf(Q, D, ack) >= ack
         /\ AckOf(Q, D, ack) = ack \/ AckOf(Q, D, ack) \in Seqs(ShedAsFirst(Q, D))
<1> DEFINE first == ShedAsFirst(Q, D)
<1>1. first \subseteq Frames
  BY DEF ShedAsFirst
<1>2. AckOf(Q, D, ack) = IF first = {} \/ NewestOf(first).seq <= ack THEN ack ELSE NewestOf(first).seq
  BY DEF AckOf, ShedAsFirst
<1>3. CASE first = {} \/ NewestOf(first).seq <= ack
  <2>1. AckOf(Q, D, ack) = ack /\ MaxSeq \in Nat
    BY <1>2, <1>3, StreamAssumption
  <2> QED
    BY <2>1
<1>4. CASE first # {} /\ ~(NewestOf(first).seq <= ack)
  <2> HIDE DEF first
  <2>1. NewestOf(first) \in first
    BY <1>1, <1>4, NewestFrame
  <2>2. NewestOf(first).seq \in 0..MaxSeq /\ NewestOf(first).seq \in Seqs(first)
    BY <2>1, <1>1, StreamAssumption DEF Frames, Seqs
  <2>3. AckOf(Q, D, ack) = NewestOf(first).seq
    BY <1>2, <1>4
  <2>4. NewestOf(first).seq >= ack
    BY <2>2, <1>4, StreamAssumption
  <2> QED
    BY <2>2, <2>3, <2>4 DEF first
<1> QED
  BY <1>3, <1>4

-----------------------------------------------------------------------------
(* Types.                                                                  *)

LEMMA Numbers ==
  /\ MaxSeq \in Nat /\ MaxDowns \in Nat /\ QueueLimit \in Nat /\ SnapEvery \in Nat \ {0}
  /\ 0 \in Clips /\ 0 \in 0..MaxSeq
BY StreamAssumption DEF Clips

LEMMA StripType ==
  ASSUME NEW f \in Frames
  PROVE  /\ ReplaySafeInput(f) \in Frames /\ ReplaySafeInput(f).seq = f.seq
         /\ Gated(f) \in Frames /\ Gated(f).seq = f.seq
BY DEF ReplaySafeInput, Gated, Frames

LEMMA ToServerType ==
  ASSUME TypeOK, NEW msgs \in Seq(UpMessages)
  PROVE  ToServer(msgs) \in Seq(UpMessages)
BY DEF ToServer, TypeOK, ChannelType

LEMMA ToClientType ==
  ASSUME TypeOK, NEW msgs \in Seq(DownMessages)
  PROVE  ToClient(msgs) \in Seq(DownMessages)
BY DEF ToClient, TypeOK, ChannelType

LEMMA DoneType ==
  ASSUME TypeOK
  PROVE  Done \in Seq(UpMessages)
<1>1. CASE activeClip = 0
  BY <1>1 DEF Done
<1>2. CASE activeClip # 0
  <2>1. [kind |-> "killCamDone", clip |-> activeClip] \in UpMessages
    BY <1>2 DEF TypeOK, ClientType, UpMessages
  <2> QED
    BY <2>1, <1>2 DEF Done
<1> QED
  BY <1>1, <1>2

(* The frames a display frame cuts, and what it keeps and sends of them. *)
Cut(st, n) == {[seq |-> seq + i, edges |-> IF i = 1 THEN st ELSE {}] : i \in 1..n}

LEMMA CutType ==
  ASSUME TypeOK, NEW st \in SUBSET Edges, NEW n \in Nat, seq + n <= MaxSeq
  PROVE  /\ Cut(st, n) \subseteq Frames
         /\ \A f \in Cut(st, n) : seq < f.seq /\ f.seq <= seq + n
         /\ \A f, g \in Cut(st, n) : f.seq = g.seq => f = g
<1>1. seq \in Nat /\ MaxSeq \in Nat
  BY StreamAssumption DEF TypeOK, ClientType
<1>2. \A i \in 1..n : /\ seq + i \in 1..MaxSeq /\ seq < seq + i /\ seq + i <= seq + n
                      /\ (IF i = 1 THEN st ELSE {}) \in SUBSET Edges
  BY <1>1
<1>3. Cut(st, n) \subseteq Frames
  BY <1>2 DEF Cut, Frames
<1>4. \A f \in Cut(st, n) : seq < f.seq /\ f.seq <= seq + n
  BY <1>2 DEF Cut
<1>5. \A f, g \in Cut(st, n) : f.seq = g.seq => f = g
  <2>1. ASSUME NEW i \in 1..n, NEW k \in 1..n, seq + i = seq + k
        PROVE  i = k
    BY <2>1, <1>1
  <2> QED
    BY <2>1 DEF Cut
<1> QED
  BY <1>3, <1>4, <1>5

LEMMA RenderType ==
  ASSUME TypeOK, NEW E \in SUBSET Edges, NEW n \in 0..MaxBurst, RenderFrame(E, n)
  PROVE  TypeOK'
<1> DEFINE ended == newGeneration
           replay == replayActive /\ ~ended
           st == staged \cup (IF replay THEN E \cap ReplaySafe ELSE E)
           kept == Newest(pending \cup Cut(st, n), PendingCap)
           flush == n > 0 /\ (st # {} \/ (seq + n) % 2 = 0)
           message == [kind |-> "input", frames |-> Newest(kept, Redundancy)]
           msgs == (IF ended THEN Done ELSE <<>>) \o (IF flush THEN <<message>> ELSE <<>>)
<1>1. /\ n \in Nat /\ seq \in Nat /\ MaxSeq \in Nat /\ seq + n <= MaxSeq
      /\ seq' = seq + n
  BY Numbers DEF RenderFrame, TypeOK, ClientType
<1>2. st \in SUBSET Edges /\ st \cap ReplaySafe \in SUBSET Edges
  BY DEF TypeOK, ClientType
<1>3. kept \in SUBSET Frames
  <2>1. Cut(st, n) \subseteq Frames
    BY <1>1, <1>2, CutType
  <2> QED
    BY <2>1 DEF Newest, TypeOK, ClientType
<1>4. {ReplaySafeInput(f) : f \in kept} \in SUBSET Frames
  BY <1>3, StripType
<1>5. msgs \in Seq(UpMessages)
  <2>1. message \in UpMessages
    BY <1>3 DEF Newest, UpMessages
  <2>2. (IF flush THEN <<message>> ELSE <<>>) \in Seq(UpMessages)
    BY <2>1
  <2>3. (IF ended THEN Done ELSE <<>>) \in Seq(UpMessages)
    BY DoneType
  <2> QED
    BY <2>2, <2>3
<1>6. /\ up' = ToServer(msgs)
      /\ activeClip' = (IF ended THEN 0 ELSE activeClip)
      /\ newGeneration' = FALSE
      /\ drainable' = 0
      /\ IF drainable # 0
         THEN playing' = drainable /\ StartReplay(IF n > 0 THEN {} ELSE st, kept)
         ELSE /\ playing' = IF ended THEN 0 ELSE playing
              /\ replayActive' = replay
              /\ staged' = IF n > 0 THEN {} ELSE st
              /\ pending' = kept
      /\ UNCHANGED <<linkVars, hasSnapshot, baseline, reloaded, down, serverVars>>
  BY DEF RenderFrame, Cut
<1> HIDE DEF st, kept, msgs
<1>7. seq' \in 0..MaxSeq
  BY <1>1
<1>8. /\ playing' \in Clips /\ replayActive' \in BOOLEAN
      /\ staged' \subseteq Edges /\ pending' \subseteq Frames
  <2>1. CASE drainable # 0
    BY <2>1, <1>2, <1>4, <1>6 DEF StartReplay, TypeOK, ClientType
  <2>2. CASE drainable = 0
    BY <2>2, <1>2, <1>3, <1>6, Numbers DEF TypeOK, ClientType
  <2> QED
    BY <2>1, <2>2
<1>9. ClientType'
  BY <1>6, <1>7, <1>8, Numbers DEF TypeOK, ClientType, linkVars
<1>10. ChannelType'
  BY <1>5, <1>6, ToServerType DEF TypeOK, ChannelType
<1>11. ServerType' /\ HistoryType'
  BY <1>6 DEF TypeOK, ServerType, HistoryType, serverVars, queueVars, bodyVars
<1> QED
  BY <1>9, <1>10, <1>11 DEF TypeOK

LEMMA EndReplayType ==
  ASSUME TypeOK, EndReplay
  PROVE  TypeOK'
<1>1. ClientType'
  BY Numbers DEF EndReplay, TypeOK, ClientType, linkVars, frameVars
<1>2. ChannelType'
  BY DoneType, ToServerType DEF EndReplay, TypeOK, ChannelType
<1>3. ServerType' /\ HistoryType'
  BY DEF EndReplay, TypeOK, ServerType, HistoryType, serverVars, queueVars, bodyVars
<1> QED
  BY <1>1, <1>2, <1>3 DEF TypeOK

LEMMA LoseType ==
  ASSUME TypeOK, Lose
  PROVE  /\ link' \in {"open", "joining", "closed"} /\ closes' \in Nat
         /\ ChannelType'
<1>1. PICK k \in 0..Len(up) : up' = SubSeq(up, 1, k)
  BY DEF Lose
<1>2. up' \in Seq(UpMessages)
  BY <1>1 DEF TypeOK, ChannelType
<1> QED
  BY <1>2 DEF Lose, TypeOK, ChannelType, ClientType

LEMMA CloseType ==
  ASSUME TypeOK, Close \/ Reload
  PROVE  TypeOK'
<1>1. Lose
  BY DEF Close, Reload
<1>2. ClientType'
  BY <1>1, LoseType, Numbers
     DEF Close, Reload, TypeOK, ClientType, replayVars
<1>3. ChannelType'
  BY <1>1, LoseType
<1>4. ServerType' /\ HistoryType'
  BY DEF Close, Reload, TypeOK, ServerType, HistoryType, serverVars, queueVars, bodyVars
<1> QED
  BY <1>2, <1>3, <1>4 DEF TypeOK

LEMMA ClientReceiveType ==
  ASSUME TypeOK, ClientReceive
  PROVE  TypeOK'
<1> DEFINE m == Head(down)
<1>1. m \in DownMessages /\ down' \in Seq(DownMessages)
  BY DEF ClientReceive, TypeOK, ChannelType
<1>2. ClientType'
  <2>1. CASE m.kind = "killCam"
    <3>1. m.clip \in Clips
      BY <1>1, <2>1 DEF DownMessages
    <3>2. {ReplaySafeInput(f) : f \in pending} \subseteq Frames
      BY StripType DEF TypeOK, ClientType
    <3> QED
      BY <2>1, <3>1, <3>2 DEF ClientReceive, StartReplay, TypeOK, ClientType
  <2>2. CASE m.kind # "killCam"
    BY <2>2, Numbers
       DEF ClientReceive, TypeOK, ClientType, frameVars, replayVars
  <2> QED
    BY <2>1, <2>2
<1>3. ChannelType' /\ ServerType' /\ HistoryType'
  BY <1>1 DEF ClientReceive, TypeOK, ChannelType, ServerType, HistoryType,
     serverVars, queueVars, bodyVars
<1> QED
  BY <1>2, <1>3 DEF TypeOK

LEMMA ServerReceiveType ==
  ASSUME TypeOK, ServerReceive
  PROVE  TypeOK'
<1> DEFINE m == Head(up)
<1>1. m \in UpMessages /\ up' \in Seq(UpMessages)
  BY DEF ServerReceive, TypeOK, ChannelType
<1>2. /\ inputQueue' \subseteq Frames /\ lastAppliedSeq' \in 0..MaxSeq
      /\ arrived' \subseteq 1..MaxSeq /\ activeKillCamId' \in Clips
  <2>1. CASE m.kind = "killCamDone"
    BY <2>1, Numbers
       DEF ServerReceive, TypeOK, ServerType, HistoryType
  <2>2. CASE m.kind = "input"
    <3>1. m.frames \subseteq Frames
      BY <1>1, <2>2 DEF UpMessages
    <3>2. Seqs(m.frames) \subseteq 1..MaxSeq
      BY <3>1 DEF Seqs, Frames
    <3>3. arrived' \subseteq 1..MaxSeq /\ activeKillCamId' \in Clips
      BY <2>2, <3>2 DEF ServerReceive, TypeOK, ServerType, HistoryType
    <3>4. CASE ~inRun
      BY <2>2, <3>3, <3>4 DEF ServerReceive, TypeOK, ServerType
    <3>5. CASE inRun
      <4> DEFINE all == inputQueue \cup {f \in m.frames : f.seq > lastAppliedSeq
                                                         /\ f.seq \notin Seqs(inputQueue)}
                 shed == Shed(all, Cardinality(all) - QueueLimit)
      <4>1. inputQueue' = all \ shed /\ lastAppliedSeq' = AckOf(all, shed, lastAppliedSeq)
        BY <2>2, <3>5 DEF ServerReceive, EnqueueInputFrames
      <4>2. all \subseteq Frames /\ shed \subseteq all /\ lastAppliedSeq \in 0..MaxSeq
        BY <3>1 DEF Shed, TypeOK, ServerType
      <4> HIDE DEF all, shed
      <4> QED
        BY <3>3, <4>1, <4>2, AckOfShed
    <3> QED
      BY <3>4, <3>5
  <2>3. m.kind = "killCamDone" \/ m.kind = "input"
    BY <1>1 DEF UpMessages
  <2> QED
    BY <2>1, <2>2, <2>3
<1>3. ServerType' /\ HistoryType'
  BY <1>2 DEF ServerReceive, TypeOK, ServerType, HistoryType
<1>4. ClientType' /\ ChannelType'
  BY <1>1 DEF ServerReceive, TypeOK, ClientType, ChannelType, clientVars, linkVars,
     frameVars, replayVars
<1> QED
  BY <1>3, <1>4 DEF TypeOK

(* What a tick makes of the queue: the trim leaves Q, and the consumer      *)
(* takes at most the oldest frame of it.                                    *)
LEMMA TickType ==
  ASSUME TypeOK, NEW event \in {"none", "downed", "revived", "extracted"}, Tick(event)
  PROVE  TypeOK'
<1> DEFINE D == Trimmed
           Q == inputQueue \ D
           ack == AckOf(inputQueue, D, lastAppliedSeq)
<1>1. /\ TrimStandingBacklog
      /\ ConsumeInputFrame(Q, ack)
      /\ StepEvent(event, Remaining(Q))
  BY DEF Tick
<1>2. /\ D \subseteq inputQueue /\ inputQueue \subseteq Frames /\ Q \subseteq inputQueue
      /\ lastAppliedSeq \in 0..MaxSeq
  BY DEF Trimmed, Shed, TypeOK, ServerType
<1>3. ack \in 0..MaxSeq
  BY <1>2, AckOfShed
<1>4. Q # {} => OldestOf(Q) \in Frames
  BY <1>2, OldestFrame
<1> HIDE DEF D, Q, ack
<1>5. Remaining(Q) \subseteq Frames
  BY <1>2 DEF Remaining
<1>6. /\ lastAppliedSeq' \in 0..MaxSeq /\ starved' \in BOOLEAN /\ holdTicks' \in Nat
      /\ applied' \in Seq(Frames)
  <2>1. CASE Holds(Q) /\ AwaitPair(ack)
    BY <2>1, <1>3 DEF AwaitPair, TypeOK, ServerType, HistoryType
  <2>2. CASE Q = {} /\ Starve(ack)
    BY <2>2, <1>3 DEF Starve, TypeOK, HistoryType
  <2>3. CASE Q # {} /\ Apply(OldestOf(Q))
    <3>1. OldestOf(Q).seq \in 0..MaxSeq /\ Gated(OldestOf(Q)) \in Frames
      BY <2>3, <1>4, StripType, Numbers DEF Frames
    <3>2. applied \in Seq(Frames) /\ applied' = Append(applied, Gated(OldestOf(Q)))
      BY <2>3 DEF Apply, TypeOK, HistoryType
    <3>3. applied' \in Seq(Frames)
      BY <3>1, <3>2
    <3> QED
      BY <2>3, <3>1, <3>3 DEF Apply
  <2> QED
    BY <1>1, <2>1, <2>2, <2>3 DEF ConsumeInputFrame
<1>7. minDepth' \in Nat /\ windowTicks' \in Nat
  BY <1>1, <1>2, FramesFinite, Numbers
     DEF TrimStandingBacklog, Least, Unbounded, TypeOK, ServerType
<1>8. /\ inputQueue' \subseteq Frames /\ inRun' \in BOOLEAN /\ downed' \in BOOLEAN
      /\ activeKillCamId' \in Clips /\ downs' \in Clips
      /\ event = "downed" => activeKillCamId' # 0
  <2>1. CASE event = "none"
    BY <1>1, <1>5, <2>1 DEF StepEvent, bodyVars, TypeOK, ServerType
  <2>2. CASE event = "downed"
    <3>1. downs \in 0..MaxDowns /\ downs < MaxDowns
      BY <1>1, <2>2 DEF StepEvent, TypeOK, ServerType, Clips
    <3>2. downs + 1 \in 0..MaxDowns /\ downs + 1 # 0
      BY <3>1, Numbers
    <3> QED
      BY <1>1, <2>2, <3>2 DEF StepEvent, TypeOK, ServerType, Clips
  <2>3. CASE event \in {"revived", "extracted"}
    BY <1>1, <1>5, <2>3, Numbers DEF StepEvent, TypeOK, ServerType
  <2> QED
    BY <2>1, <2>2, <2>3
<1>9. tick' \in Nat
  BY Numbers DEF Tick, TypeOK, ServerType
<1>10. ServerType' /\ HistoryType'
  BY <1>6, <1>7, <1>8, <1>9 DEF Tick, TypeOK, ServerType, HistoryType
<1>11. down' \in Seq(DownMessages)
  <2> DEFINE cam == IF event = "downed" THEN <<KillCamMessage>> ELSE <<>>
             snap == IF tick' = 0 THEN <<[kind |-> "snap", ack |-> lastAppliedSeq']>> ELSE <<>>
  <2>1. cam \in Seq(DownMessages)
    <3>1. event = "downed" => KillCamMessage \in DownMessages
      BY <1>8 DEF KillCamMessage, DownMessages
    <3> QED
      BY <3>1
  <2>2. snap \in Seq(DownMessages)
    <3>1. [kind |-> "snap", ack |-> lastAppliedSeq'] \in DownMessages
      BY <1>6 DEF DownMessages
    <3> QED
      BY <3>1
  <2>3. cam \o snap \in Seq(DownMessages)
    BY <2>1, <2>2
  <2> QED
    BY <2>3, ToClientType DEF Tick
<1>12. ClientType' /\ ChannelType'
  BY <1>11 DEF Tick, TypeOK, ClientType, ChannelType, clientVars, linkVars, frameVars, replayVars
<1> QED
  BY <1>10, <1>12 DEF TypeOK

LEMMA RejoinType ==
  ASSUME TypeOK, Disconnect \/ Rejoin
  PROVE  TypeOK'
<1>1. CASE Disconnect
  BY <1>1 DEF Disconnect, TypeOK, ClientType, ChannelType, ServerType, HistoryType, clientVars,
     linkVars, frameVars, replayVars, queueVars, bodyVars
<1>2. CASE Rejoin
  <2>1. down' \in Seq(DownMessages)
    <3> DEFINE cam == IF downed /\ activeKillCamId # 0
                      THEN <<[kind |-> "killCam", clip |-> activeKillCamId]>> ELSE <<>>
    <3>1. cam \in Seq(DownMessages)
      <4>1. activeKillCamId # 0 => [kind |-> "killCam", clip |-> activeKillCamId] \in DownMessages
        BY DEF DownMessages, TypeOK, ServerType
      <4> QED
        BY <4>1
    <3>2. /\ <<[kind |-> "matchStart"]>> \in Seq(DownMessages)
          /\ <<[kind |-> "welcome"]>> \in Seq(DownMessages)
      BY DEF DownMessages
    <3>3. MatchStart \in Seq(DownMessages)
      BY <3>1, <3>2 DEF MatchStart
    <3> QED
      BY <1>2, <3>2, <3>3 DEF Rejoin
  <2>2. ClientType' /\ ChannelType'
    BY <1>2, <2>1 DEF Rejoin, TypeOK, ClientType, ChannelType, frameVars, replayVars
  <2>3. ServerType' /\ HistoryType'
    <3>1. Unbounded \in Nat
      BY Numbers DEF Unbounded
    <3>2. inputQueue' = {} /\ lastAppliedSeq' \in 0..MaxSeq
      BY <1>2, Numbers DEF Rejoin, ResetStream
    <3>3. ServerType'
      BY <1>2, <3>1, <3>2 DEF Rejoin, ResetStream, TypeOK, ServerType, bodyVars
    <3>4. HistoryType'
      <4>1. CASE reloaded
        <5>1. applied' = <<>> /\ arrived' = {}
          BY <1>2, <4>1 DEF Rejoin
        <5> QED
          BY <5>1 DEF HistoryType
      <4>2. CASE ~reloaded
        BY <1>2, <4>2 DEF Rejoin, TypeOK, HistoryType
      <4> QED
        BY <4>1, <4>2
    <3> QED
      BY <3>3, <3>4
  <2> QED
    BY <2>2, <2>3 DEF TypeOK
<1> QED
  BY <1>1, <1>2

LEMMA TypeInit == Init => TypeOK
<1> SUFFICES ASSUME Init
             PROVE  TypeOK
  OBVIOUS
<1>1. Unbounded \in Nat
  BY Numbers DEF Unbounded
<1>2. ClientType /\ ChannelType
  <2>1. ClientType
    BY Numbers DEF Init, ClientType
  <2>2. ChannelType
    BY DEF Init, ChannelType
  <2> QED
    BY <2>1, <2>2
<1>3. ServerType
  BY <1>1, Numbers DEF Init, ServerType
<1>4. HistoryType
  BY DEF Init, HistoryType
<1> QED
  BY <1>2, <1>3, <1>4 DEF TypeOK

LEMMA TypeStep == TypeOK /\ [Next]_vars => TypeOK'
<1> SUFFICES ASSUME TypeOK, [Next]_vars
             PROVE  TypeOK'
  OBVIOUS
<1>1. CASE \E E \in SUBSET Edges, n \in 0..MaxBurst : RenderFrame(E, n)
  BY <1>1, RenderType
<1>2. CASE EndReplay
  BY <1>2, EndReplayType
<1>3. CASE Close \/ Reload
  BY <1>3, CloseType
<1>4. CASE ClientReceive
  BY <1>4, ClientReceiveType
<1>5. CASE ServerReceive
  BY <1>5, ServerReceiveType
<1>6. CASE ServerTick
  BY <1>6, TickType DEF ServerTick
<1>7. CASE Disconnect \/ Rejoin
  BY <1>7, RejoinType
<1>8. CASE UNCHANGED vars
  BY <1>8 DEF vars, clientVars, linkVars, frameVars, replayVars, serverVars, queueVars, bodyVars,
     TypeOK, ClientType, ChannelType, ServerType, HistoryType
<1> QED
  BY <1>1, <1>2, <1>3, <1>4, <1>5, <1>6, <1>7, <1>8 DEF Next

(* Every variable of the stream keeps its type: the queue and what is        *)
(* pending hold frames, the acknowledgement is the number of a frame, and    *)
(* only real clips are announced and answered (Room.ts 902, NetSession.ts    *)
(* 332).                                                                     *)
THEOREM StreamTypeCorrect == Spec => []TypeOK
BY TypeInit, TypeStep, PTL DEF Spec

-----------------------------------------------------------------------------
(* The places of the frames. *)


InputAt(u) == {i \in DOMAIN u : u[i].kind = "input"}
SentSeqs(u) == UNION {Seqs(u[i].frames) : i \in InputAt(u)}
AppliedSeqs == {applied[i].seq : i \in DOMAIN applied}

Unique(S) == \A f, g \in S : f.seq = g.seq => f = g
MessagesUnique(u) == \A i \in InputAt(u) : Unique(u[i].frames)
After(s) == \A a \in AppliedSeqs : a < s

(* A number stands for one frame wherever it is. *)
UniqueInv == Unique(pending) /\ Unique(inputQueue) /\ MessagesUnique(up)
(* Frames anywhere were cut by this page, unless the page is a new one. *)
BoundInv ==
  ~reloaded => \A s \in Seqs(pending) \cup Seqs(inputQueue) \cup SentSeqs(up) \cup AppliedSeqs : s <= seq
(* What is queued, and what the acknowledgement would let into the queue,   *)
(* is newer than everything applied.                                        *)
FreshInv ==
  /\ \A s \in Seqs(inputQueue) : After(s)
  /\ \A s \in Seqs(pending) \cup SentSeqs(up) : s > lastAppliedSeq => After(s)
(* What a closed client keeps for the next connection is newer than all     *)
(* that the server got or still will get from the last one.                 *)
ClosedInv ==
  /\ link = "closed" =>
       /\ down = <<>>
       /\ \A s \in Seqs(pending), t \in Seqs(inputQueue) \cup SentSeqs(up) \cup AppliedSeqs : t < s
  /\ ~peer => link = "closed" /\ SentSeqs(up) = {}
(* A new page that has reconnected starts from nothing. *)
ReloadInv ==
  reloaded =>
    /\ pending = {}
    /\ link # "closed" => inputQueue = {} /\ SentSeqs(up) = {} /\ applied = <<>>
OrderInv == UniqueInv /\ BoundInv /\ FreshInv /\ ClosedInv /\ ReloadInv

-----------------------------------------------------------------------------
(* Numbers, messages and channels.                                         *)

LEMMA SeqTypes ==
  ASSUME TypeOK
  PROVE  /\ Seqs(pending) \subseteq Nat /\ Seqs(inputQueue) \subseteq Nat
         /\ SentSeqs(up) \subseteq Nat /\ AppliedSeqs \subseteq Nat
         /\ seq \in Nat /\ lastAppliedSeq \in Nat
<1>1. \A f \in Frames : f.seq \in Nat
  BY DEF Frames
<1>2. \A i \in InputAt(up) : up[i].frames \subseteq Frames
  <2>1. \A i \in InputAt(up) : up[i] \in UpMessages /\ up[i].kind = "input"
    BY DEF InputAt, TypeOK, ChannelType
  <2> QED
    BY <2>1 DEF UpMessages
<1>3. \A i \in DOMAIN applied : applied[i] \in Frames
  BY DEF TypeOK, HistoryType
<1>4. pending \subseteq Frames /\ inputQueue \subseteq Frames /\ seq \in Nat /\ lastAppliedSeq \in Nat
  BY DEF TypeOK, ClientType, ServerType
<1> QED
  BY <1>1, <1>2, <1>3, <1>4 DEF Seqs, SentSeqs, AppliedSeqs

LEMMA Appended ==
  ASSUME NEW u \in Seq(UpMessages), NEW v \in Seq(UpMessages)
  PROVE  /\ SentSeqs(u \o v) = SentSeqs(u) \cup SentSeqs(v)
         /\ MessagesUnique(u) /\ MessagesUnique(v) => MessagesUnique(u \o v)
<1>1. /\ \A i \in DOMAIN u : i \in DOMAIN (u \o v) /\ (u \o v)[i] = u[i]
      /\ \A i \in DOMAIN v : Len(u) + i \in DOMAIN (u \o v) /\ (u \o v)[Len(u) + i] = v[i]
  OBVIOUS
<1>2. ASSUME NEW i \in DOMAIN (u \o v)
      PROVE  \/ i \in DOMAIN u /\ (u \o v)[i] = u[i]
             \/ i - Len(u) \in DOMAIN v /\ (u \o v)[i] = v[i - Len(u)]
  OBVIOUS
<1> DEFINE w == u \o v
<1>3. /\ \A i \in DOMAIN u : i \in DOMAIN w /\ w[i] = u[i]
      /\ \A i \in DOMAIN v : \E k \in DOMAIN w : w[k] = v[i]
      /\ \A k \in DOMAIN w : (\E i \in DOMAIN u : w[k] = u[i]) \/ \E i \in DOMAIN v : w[k] = v[i]
  BY <1>1, <1>2
<1> HIDE DEF w
<1>4. SentSeqs(w) = SentSeqs(u) \cup SentSeqs(v)
  BY <1>3 DEF SentSeqs, InputAt
<1>5. MessagesUnique(u) /\ MessagesUnique(v) => MessagesUnique(w)
  BY <1>3 DEF MessagesUnique, InputAt
<1> QED
  BY <1>4, <1>5 DEF w

(* Messages that were read, or lost with the connection, leave the others. *)
LEMMA Read ==
  ASSUME NEW u \in Seq(UpMessages), u # <<>>
  PROVE  /\ SentSeqs(Tail(u)) \subseteq SentSeqs(u)
         /\ MessagesUnique(u) => MessagesUnique(Tail(u))
         /\ Head(u).kind = "input" =>
              /\ Head(u).frames \subseteq Frames
              /\ Seqs(Head(u).frames) \subseteq SentSeqs(u)
              /\ MessagesUnique(u) => Unique(Head(u).frames)
<1>1. \A i \in DOMAIN Tail(u) : i + 1 \in DOMAIN u /\ Tail(u)[i] = u[i + 1]
  OBVIOUS
<1>2. 1 \in DOMAIN u /\ Head(u) = u[1] /\ u[1] \in UpMessages
  OBVIOUS
<1>3. \A i \in DOMAIN Tail(u) : \E k \in DOMAIN u : Tail(u)[i] = u[k]
  BY <1>1
<1>4. /\ SentSeqs(Tail(u)) \subseteq SentSeqs(u)
      /\ MessagesUnique(u) => MessagesUnique(Tail(u))
  BY <1>3 DEF SentSeqs, InputAt, MessagesUnique
<1>5. Head(u).kind = "input" => /\ Seqs(Head(u).frames) \subseteq SentSeqs(u)
                                /\ MessagesUnique(u) => Unique(Head(u).frames)
  BY <1>2 DEF SentSeqs, InputAt, MessagesUnique
<1>6. Head(u).kind = "input" => Head(u).frames \subseteq Frames
  BY <1>2 DEF UpMessages
<1> QED
  BY <1>4, <1>5, <1>6

LEMMA Prefix ==
  ASSUME NEW u \in Seq(UpMessages), NEW k \in 0..Len(u)
  PROVE  /\ SentSeqs(SubSeq(u, 1, k)) \subseteq SentSeqs(u)
         /\ MessagesUnique(u) => MessagesUnique(SubSeq(u, 1, k))
<1>1. \A i \in DOMAIN SubSeq(u, 1, k) : i \in DOMAIN u /\ SubSeq(u, 1, k)[i] = u[i]
  OBVIOUS
<1> QED
  BY <1>1 DEF SentSeqs, InputAt, MessagesUnique

LEMMA DoneCarriesNothing == SentSeqs(Done) = {} /\ MessagesUnique(Done)
<1>1. \A i \in DOMAIN Done : Done[i].kind = "killCamDone"
  BY DEF Done
<1> QED
  BY <1>1 DEF SentSeqs, InputAt, MessagesUnique

LEMMA Stripped ==
  ASSUME NEW P, P \subseteq Frames
  PROVE  /\ Seqs({ReplaySafeInput(f) : f \in P}) = Seqs(P)
         /\ Unique(P) => Unique({ReplaySafeInput(f) : f \in P})
<1>1. \A f \in P : ReplaySafeInput(f).seq = f.seq
  BY StripType
<1> QED
  BY <1>1 DEF Seqs, Unique

-----------------------------------------------------------------------------
(* Steps.                                                                  *)

(* Steps that move no frame. *)
LEMMA NothingMoves ==
  ASSUME TypeOK, OrderInv,
         link' = link, peer' = peer, seq' = seq, reloaded' = reloaded,
         Seqs(pending)' \subseteq Seqs(pending), Unique(pending)', reloaded => pending' = {},
         SentSeqs(up)' \subseteq SentSeqs(up), MessagesUnique(up)',
         link = "closed" => down' = <<>>,
         UNCHANGED <<inputQueue, lastAppliedSeq, applied>>
  PROVE  OrderInv'
<1>1. AppliedSeqs' = AppliedSeqs /\ \A s : After(s)' <=> After(s)
  BY DEF AppliedSeqs, After
<1>2. UniqueInv'
  BY DEF OrderInv, UniqueInv
<1>3. BoundInv'
  BY <1>1 DEF OrderInv, BoundInv
<1>4. FreshInv'
  BY <1>1 DEF OrderInv, FreshInv
<1>5. ClosedInv'
  BY <1>1 DEF OrderInv, ClosedInv
<1>6. ReloadInv'
  BY DEF OrderInv, ReloadInv
<1> QED
  BY <1>2, <1>3, <1>4, <1>5, <1>6 DEF OrderInv

LEMMA KeptFrames ==
  ASSUME TypeOK, OrderInv, ~reloaded,
         NEW st \in SUBSET Edges, NEW n \in Nat, seq + n <= MaxSeq, NEW k
  PROVE  LET kept == Newest(pending \cup Cut(st, n), k) IN
         /\ kept \subseteq Frames /\ Unique(kept)
         /\ \A s \in Seqs(kept) : s \in Seqs(pending) \/ (seq < s /\ s <= seq + n /\ s \in Nat)
<1> DEFINE new == Cut(st, n)
<1>1. /\ new \subseteq Frames /\ pending \subseteq Frames
      /\ \A f \in new : seq < f.seq /\ f.seq <= seq + n
      /\ \A f, g \in new : f.seq = g.seq => f = g
  BY CutType DEF TypeOK, ClientType
<1>2. \A f \in Frames : f.seq \in Nat
  BY DEF Frames
<1>3. \A f \in pending : f.seq <= seq
  BY DEF OrderInv, BoundInv, Seqs
<1>4. Unique(pending)
  BY DEF OrderInv, UniqueInv
<1> HIDE DEF new
<1>5. Unique(pending \cup new)
  BY <1>1, <1>2, <1>3, <1>4, SeqTypes DEF Unique
<1>6. Newest(pending \cup new, k) \subseteq pending \cup new
  BY DEF Newest
<1>7. \A s \in Seqs(pending \cup new) : s \in Seqs(pending) \/ (seq < s /\ s <= seq + n /\ s \in Nat)
  BY <1>1, <1>2 DEF Seqs
<1> DEFINE kept == Newest(pending \cup new, k)
<1> HIDE DEF kept
<1>8. kept \subseteq pending \cup new
  BY <1>6 DEF kept
<1>9. kept \subseteq Frames /\ Unique(kept) /\ Seqs(kept) \subseteq Seqs(pending \cup new)
  BY <1>1, <1>5, <1>8 DEF Unique, Seqs
<1> QED
  BY <1>7, <1>9 DEF kept, new

LEMMA RenderOrder ==
  ASSUME TypeOK, OrderInv, NEW E \in SUBSET Edges, NEW n \in 0..MaxBurst, RenderFrame(E, n)
  PROVE  OrderInv'
<1> DEFINE ended == newGeneration
           replay == replayActive /\ ~ended
           st == staged \cup (IF replay THEN E \cap ReplaySafe ELSE E)
           kept == Newest(pending \cup Cut(st, n), PendingCap)
           flush == n > 0 /\ (st # {} \/ (seq + n) % 2 = 0)
           message == [kind |-> "input", frames |-> Newest(kept, Redundancy)]
           tell == IF ended THEN Done ELSE <<>>
           ship == IF flush THEN <<message>> ELSE <<>>
<1>1. /\ n \in Nat /\ seq + n <= MaxSeq /\ ~reloaded /\ st \in SUBSET Edges
      /\ seq' = seq + n
  BY Numbers, StreamAssumption DEF RenderFrame, TypeOK, ClientType
<1>2. /\ up' = ToServer(tell \o ship)
      /\ IF drainable # 0
         THEN StartReplay(IF n > 0 THEN {} ELSE st, kept)
         ELSE pending' = kept
      /\ UNCHANGED <<link, reloaded, down, peer, inputQueue, lastAppliedSeq, applied>>
  BY DEF RenderFrame, Cut, linkVars, serverVars, queueVars
<1>3. /\ kept \subseteq Frames /\ Unique(kept)
      /\ \A s \in Seqs(kept) : s \in Seqs(pending) \/ (seq < s /\ s <= seq + n /\ s \in Nat)
  BY <1>1, KeptFrames
<1> HIDE DEF st, kept
<1>4. Seqs(pending)' = Seqs(kept) /\ Unique(pending)'
  <2>1. pending' = kept \/ pending' = {ReplaySafeInput(f) : f \in kept}
    BY <1>2 DEF StartReplay
  <2>2. Seqs(pending') = Seqs(kept) /\ Unique(pending')
    BY <2>1, <1>3, Stripped
  <2> QED
    BY <2>2 DEF Seqs, Unique
<1>5. /\ SentSeqs(up') \subseteq SentSeqs(up) \cup Seqs(kept)
      /\ MessagesUnique(up')
      /\ link = "closed" => up' = up
  <2>1. message \in UpMessages /\ Newest(kept, Redundancy) \subseteq kept
    BY <1>3 DEF Newest, UpMessages
  <2>2. ship \in Seq(UpMessages) /\ tell \in Seq(UpMessages) /\ up \in Seq(UpMessages)
    BY <2>1, DoneType DEF TypeOK, ChannelType
  <2>3. SentSeqs(ship) \subseteq Seqs(kept) /\ MessagesUnique(ship)
    <3>1. \A i \in DOMAIN ship : ship[i] = message
      OBVIOUS
    <3>2. Unique(message.frames) /\ Seqs(message.frames) \subseteq Seqs(kept)
      BY <2>1, <1>3 DEF Unique, Seqs
    <3> HIDE DEF ship, message
    <3> QED
      BY <3>1, <3>2 DEF SentSeqs, MessagesUnique, InputAt
  <2>4. SentSeqs(tell) = {} /\ MessagesUnique(tell)
    <3>1. SentSeqs(<<>>) = {} /\ MessagesUnique(<<>>)
      BY DEF SentSeqs, MessagesUnique, InputAt
    <3> QED
      BY <3>1, DoneCarriesNothing
  <2> HIDE DEF ship, tell
  <2>5. tell \o ship \in Seq(UpMessages)
    BY <2>2
  <2>6. SentSeqs(tell \o ship) \subseteq Seqs(kept) /\ MessagesUnique(tell \o ship)
    BY <2>2, <2>3, <2>4, Appended
  <2>7. MessagesUnique(up)
    BY DEF OrderInv, UniqueInv
  <2>8. /\ SentSeqs(up \o (tell \o ship)) = SentSeqs(up) \cup SentSeqs(tell \o ship)
        /\ MessagesUnique(up \o (tell \o ship))
    BY <2>2, <2>5, <2>6, <2>7, Appended
  <2> QED
    BY <1>2, <2>6, <2>7, <2>8 DEF ToServer
<1>6. SentSeqs(up)' = SentSeqs(up') /\ MessagesUnique(up)' = MessagesUnique(up')
  BY DEF SentSeqs, MessagesUnique, InputAt, Seqs, Unique
<1>7. AppliedSeqs' = AppliedSeqs /\ Seqs(inputQueue)' = Seqs(inputQueue) /\ \A s : After(s)' <=> After(s)
  BY <1>2 DEF AppliedSeqs, After, Seqs
<1>8. \A t \in Seqs(pending) \cup Seqs(inputQueue) \cup SentSeqs(up) \cup AppliedSeqs : t <= seq /\ t \in Nat
  BY <1>1, SeqTypes DEF OrderInv, BoundInv
<1>9. UniqueInv'
  BY <1>2, <1>4, <1>5, <1>6 DEF OrderInv, UniqueInv, Unique
<1>10. BoundInv'
  BY <1>1, <1>3, <1>4, <1>5, <1>6, <1>7, <1>8, SeqTypes DEF BoundInv
<1>11. FreshInv'
  <2>1. \A s \in Seqs(kept) : s > lastAppliedSeq => After(s)
    BY <1>3, <1>8, SeqTypes DEF OrderInv, FreshInv, After
  <2> QED
    BY <1>2, <1>4, <1>5, <1>6, <1>7, <2>1 DEF OrderInv, FreshInv
<1>12. ClosedInv'
  <2>1. ASSUME link = "closed", NEW s \in Seqs(kept),
               NEW t \in Seqs(inputQueue) \cup SentSeqs(up) \cup AppliedSeqs
        PROVE  t < s
    BY <1>3, <1>8, <2>1, SeqTypes DEF OrderInv, ClosedInv
  <2> QED
    BY <1>2, <1>4, <1>5, <1>6, <1>7, <2>1 DEF OrderInv, ClosedInv
<1>13. ReloadInv'
  BY <1>1, <1>2 DEF ReloadInv
<1> QED
  BY <1>9, <1>10, <1>11, <1>12, <1>13 DEF OrderInv

LEMMA EndReplayOrder ==
  ASSUME TypeOK, OrderInv, EndReplay
  PROVE  OrderInv'
<1>1. up' = up \/ up' = up \o Done
  BY DEF EndReplay, ToServer
<1>2. /\ up \in Seq(UpMessages) /\ Done \in Seq(UpMessages) /\ MessagesUnique(up)
      /\ SentSeqs(Done) = {} /\ MessagesUnique(Done)
  BY DoneType, DoneCarriesNothing DEF TypeOK, ChannelType, OrderInv, UniqueInv
<1>3. SentSeqs(up') = SentSeqs(up) /\ MessagesUnique(up')
  <2>1. /\ SentSeqs(up \o Done) = SentSeqs(up) \cup SentSeqs(Done)
        /\ MessagesUnique(up) /\ MessagesUnique(Done) => MessagesUnique(up \o Done)
    BY <1>2, Appended
  <2>2. SentSeqs(up) \cup SentSeqs(Done) = SentSeqs(up)
    BY <1>2
  <2> QED
    BY <1>1, <1>2, <2>1, <2>2
<1>4. SentSeqs(up)' = SentSeqs(up') /\ MessagesUnique(up)' = MessagesUnique(up')
  BY DEF SentSeqs, MessagesUnique, InputAt, Seqs, Unique
<1>5. UNCHANGED <<link, peer, seq, reloaded, pending, down, inputQueue, lastAppliedSeq, applied>>
  BY DEF EndReplay, linkVars, frameVars, serverVars, queueVars
<1>6. /\ Seqs(pending)' = Seqs(pending) /\ Unique(pending)' /\ (reloaded => pending' = {})
      /\ (link = "closed" => down' = <<>>)
  BY <1>5 DEF OrderInv, UniqueInv, ReloadInv, ClosedInv, Seqs, Unique
<1> QED
  BY <1>3, <1>4, <1>5, <1>6, NothingMoves

LEMMA CloseOrder ==
  ASSUME TypeOK, OrderInv, Close \/ Reload
  PROVE  OrderInv'
<1>1. /\ link' = "closed" /\ down' = <<>> /\ pending' = {}
      /\ Close => reloaded' = reloaded /\ seq' = seq
      /\ Reload => reloaded' = TRUE
      /\ UNCHANGED <<peer, inputQueue, lastAppliedSeq, applied>>
  BY DEF Close, Reload, Lose, serverVars, queueVars
<1>2. PICK k \in 0..Len(up) : up' = SubSeq(up, 1, k)
  BY DEF Close, Reload, Lose
<1>3. SentSeqs(up') \subseteq SentSeqs(up) /\ MessagesUnique(up')
  BY <1>2, Prefix DEF TypeOK, ChannelType, OrderInv, UniqueInv
<1>4. SentSeqs(up)' = SentSeqs(up') /\ MessagesUnique(up)' = MessagesUnique(up')
  BY DEF SentSeqs, MessagesUnique, InputAt, Seqs, Unique
<1>5. /\ AppliedSeqs' = AppliedSeqs /\ Seqs(inputQueue)' = Seqs(inputQueue)
      /\ Seqs(pending)' = {} /\ \A s : After(s)' <=> After(s)
  BY <1>1 DEF AppliedSeqs, After, Seqs
<1>6. UniqueInv'
  BY <1>1, <1>3, <1>4 DEF OrderInv, UniqueInv, Unique
<1>7. BoundInv'
  BY <1>1, <1>3, <1>4, <1>5 DEF OrderInv, BoundInv
<1>8. FreshInv'
  BY <1>1, <1>3, <1>4, <1>5 DEF OrderInv, FreshInv
<1>9. ClosedInv' /\ ReloadInv'
  BY <1>1, <1>3, <1>4, <1>5 DEF OrderInv, ClosedInv, ReloadInv
<1> QED
  BY <1>6, <1>7, <1>8, <1>9 DEF OrderInv

LEMMA ClientReceiveOrder ==
  ASSUME TypeOK, OrderInv, ClientReceive
  PROVE  OrderInv'
<1>1. /\ link # "closed" /\ peer /\ link' # "closed"
      /\ UNCHANGED <<seq, up, peer, inputQueue, lastAppliedSeq, applied>>
  BY DEF ClientReceive, OrderInv, ClosedInv, frameVars, serverVars, queueVars
<1>2. \/ reloaded' = reloaded /\ pending' = pending
      \/ reloaded' = FALSE /\ pending' = {}
      \/ reloaded' = reloaded /\ pending' \subseteq pending
      \/ reloaded' = reloaded /\ pending' = {ReplaySafeInput(f) : f \in pending}
  BY DEF ClientReceive, StartReplay, frameVars
<1>3. Seqs(pending)' \subseteq Seqs(pending) /\ Unique(pending)' /\ (pending = {} => pending' = {})
  <2>1. Unique(pending) /\ pending \subseteq Frames
    BY DEF OrderInv, UniqueInv, TypeOK, ClientType
  <2>2. Seqs(pending') \subseteq Seqs(pending) /\ Unique(pending')
    <3>1. CASE pending' = {ReplaySafeInput(f) : f \in pending}
      BY <2>1, <3>1, Stripped
    <3>2. CASE pending' \subseteq pending
      BY <2>1, <3>2 DEF Seqs, Unique
    <3> QED
      BY <1>2, <3>1, <3>2
  <2>3. Seqs(pending)' = Seqs(pending') /\ Unique(pending)' = Unique(pending')
    BY DEF Seqs, Unique
  <2> QED
    BY <1>2, <2>2, <2>3
<1>4. /\ SentSeqs(up)' = SentSeqs(up) /\ MessagesUnique(up)' = MessagesUnique(up)
      /\ AppliedSeqs' = AppliedSeqs /\ Seqs(inputQueue)' = Seqs(inputQueue)
      /\ \A s : After(s)' <=> After(s)
  BY <1>1 DEF SentSeqs, MessagesUnique, InputAt, Seqs, Unique, AppliedSeqs, After
<1>5. UniqueInv'
  BY <1>1, <1>3, <1>4 DEF OrderInv, UniqueInv, Unique
<1>6. BoundInv'
  <2>1. CASE reloaded /\ ~reloaded'
    <3>1. /\ Seqs(pending)' = {} /\ Seqs(inputQueue)' = {}
          /\ SentSeqs(up)' = {} /\ AppliedSeqs' = {}
      <4>1. /\ pending' = {} /\ inputQueue' = {} /\ applied' = <<>>
            /\ SentSeqs(up)' = {}
        BY <2>1, <1>1, <1>2, <1>4 DEF OrderInv, ReloadInv
      <4> QED
        BY <4>1 DEF Seqs, AppliedSeqs
    <3> QED
      BY <3>1 DEF BoundInv
  <2>2. CASE ~reloaded \/ reloaded'
    BY <2>2, <1>1, <1>3, <1>4 DEF OrderInv, BoundInv
  <2> QED
    BY <2>1, <2>2
<1>7. FreshInv'
  BY <1>1, <1>3, <1>4 DEF OrderInv, FreshInv
<1>8. ClosedInv'
  BY <1>1, <1>4 DEF ClosedInv
<1>9. ReloadInv'
  BY <1>1, <1>2, <1>3, <1>4 DEF OrderInv, ReloadInv
<1> QED
  BY <1>5, <1>6, <1>7, <1>8, <1>9 DEF OrderInv

LEMMA ServerReceiveOrder ==
  ASSUME TypeOK, OrderInv, ServerReceive
  PROVE  OrderInv'
<1> DEFINE m == Head(up)
           fresh == {f \in m.frames : f.seq > lastAppliedSeq /\ f.seq \notin Seqs(inputQueue)}
           all == inputQueue \cup fresh
           shed == Shed(all, Cardinality(all) - QueueLimit)
<1>1. /\ up \in Seq(UpMessages) /\ up # <<>> /\ up' = Tail(up) /\ peer
      /\ UNCHANGED <<link, seq, pending, reloaded, down, peer, applied>>
  BY DEF ServerReceive, clientVars, linkVars, frameVars, TypeOK, ChannelType
<1>2. /\ SentSeqs(up)' \subseteq SentSeqs(up) /\ MessagesUnique(up)'
      /\ m.kind = "input" =>
           m.frames \subseteq Frames /\ Seqs(m.frames) \subseteq SentSeqs(up) /\ Unique(m.frames)
  <2>1. SentSeqs(up)' = SentSeqs(up') /\ MessagesUnique(up)' = MessagesUnique(up')
    BY DEF SentSeqs, MessagesUnique, InputAt, Seqs, Unique
  <2> QED
    BY <1>1, <2>1, Read DEF OrderInv, UniqueInv
<1>3. CASE inputQueue' = inputQueue /\ lastAppliedSeq' = lastAppliedSeq
  <2>1. /\ Seqs(pending)' = Seqs(pending) /\ Unique(pending)' /\ (reloaded => pending' = {})
        /\ (link = "closed" => down' = <<>>)
    BY <1>1 DEF OrderInv, UniqueInv, ReloadInv, ClosedInv, Seqs, Unique
  <2> QED
    BY <1>1, <1>2, <1>3, <2>1, NothingMoves
<1>4. CASE m.kind = "input" /\ inRun
  <2>1. inputQueue' = all \ shed /\ lastAppliedSeq' = AckOf(all, shed, lastAppliedSeq)
    BY <1>4 DEF ServerReceive, EnqueueInputFrames
  <2>2. all \subseteq Frames /\ shed \subseteq all /\ lastAppliedSeq \in 0..MaxSeq
    BY <1>2, <1>4 DEF Shed, TypeOK, ServerType
  <2> HIDE DEF shed
  <2>3. lastAppliedSeq' >= lastAppliedSeq /\ lastAppliedSeq' \in Nat
    <3> HIDE DEF all
    <3> QED
      BY <2>1, <2>2, AckOfShed, Numbers
  <2>4. Unique(inputQueue)'
    <3>1. Unique(inputQueue) /\ Unique(m.frames)
      BY <1>2, <1>4 DEF OrderInv, UniqueInv
    <3>2. Unique(all)
      BY <3>1 DEF Unique, Seqs
    <3> QED
      BY <2>1, <3>2 DEF Unique
  <2>5. \A s \in Seqs(inputQueue)' :
          s \in Seqs(inputQueue) \/ (s \in SentSeqs(up) /\ s > lastAppliedSeq)
    BY <1>2, <1>4, <2>1 DEF Seqs
  <2>6. /\ AppliedSeqs' = AppliedSeqs /\ Seqs(pending)' = Seqs(pending)
        /\ \A s : After(s)' <=> After(s)
    BY <1>1 DEF AppliedSeqs, After, Seqs
  <2>7. UniqueInv'
    BY <1>1, <1>2, <2>4 DEF OrderInv, UniqueInv, Unique
  <2>8. BoundInv'
    BY <1>1, <1>2, <2>5, <2>6 DEF OrderInv, BoundInv
  <2>9. FreshInv'
    <3>1. \A s \in Seqs(inputQueue)' : After(s)
      BY <2>5 DEF OrderInv, FreshInv
    <3>2. \A s \in Seqs(pending) \cup SentSeqs(up) : s > lastAppliedSeq' => s > lastAppliedSeq
      BY <2>3, SeqTypes
    <3> QED
      BY <1>2, <2>6, <3>1, <3>2 DEF OrderInv, FreshInv
  <2>10. ClosedInv'
    BY <1>1, <1>2, <2>5, <2>6 DEF OrderInv, ClosedInv
  <2>11. ReloadInv'
    <3>1. ASSUME reloaded, link # "closed"
          PROVE  inputQueue' = {}
      <4>1. Seqs(inputQueue)' = {}
        BY <2>5, <3>1 DEF OrderInv, ReloadInv, Seqs
      <4> QED
        BY <4>1 DEF Seqs
    <3> QED
      BY <1>1, <1>2, <3>1 DEF OrderInv, ReloadInv
  <2> QED
    BY <2>7, <2>8, <2>9, <2>10, <2>11 DEF OrderInv
<1> QED
  BY <1>3, <1>4 DEF ServerReceive

(* A tick takes frames from the queue only, and applies its oldest. *)
LEMMA TickOrder ==
  ASSUME TypeOK, OrderInv, NEW event \in {"none", "downed", "revived", "extracted"}, Tick(event)
  PROVE  OrderInv'
<1> DEFINE D == Trimmed
           Q == inputQueue \ D
           ack == AckOf(inputQueue, D, lastAppliedSeq)
           f == OldestOf(Q)
<1>1. /\ ConsumeInputFrame(Q, ack)
      /\ StepEvent(event, Remaining(Q))
      /\ UNCHANGED <<link, seq, pending, reloaded, up, peer>>
  BY DEF Tick, clientVars, linkVars, frameVars
<1>2. link = "closed" => down' = <<>>
  BY DEF Tick, ToClient, OrderInv, ClosedInv
<1>3. /\ D \subseteq inputQueue /\ Q \subseteq inputQueue /\ inputQueue \subseteq Frames
      /\ lastAppliedSeq \in 0..MaxSeq
  BY DEF Trimmed, Shed, TypeOK, ServerType
<1>4. ack >= lastAppliedSeq /\ ack \in Nat
  BY <1>3, AckOfShed, Numbers
<1> HIDE DEF D, Q, ack
<1>5. inputQueue' = Remaining(Q) \/ inputQueue' = {}
  BY <1>1 DEF StepEvent
<1>6. inputQueue' \subseteq Q
  BY <1>5 DEF Remaining
<1>7. /\ Seqs(pending)' = Seqs(pending) /\ Unique(pending)'
      /\ SentSeqs(up)' = SentSeqs(up) /\ MessagesUnique(up)'
  BY <1>1 DEF OrderInv, UniqueInv, Seqs, Unique, SentSeqs, MessagesUnique, InputAt
<1>8. Seqs(inputQueue)' \subseteq Seqs(inputQueue) /\ Unique(inputQueue)'
  BY <1>3, <1>6 DEF OrderInv, UniqueInv, Seqs, Unique
<1>9. UniqueInv'
  BY <1>7, <1>8 DEF UniqueInv
<1>10. CASE applied' = applied /\ lastAppliedSeq' = ack
  <2>1. AppliedSeqs' = AppliedSeqs /\ \A s : After(s)' <=> After(s)
    BY <1>10 DEF AppliedSeqs, After
  <2>2. \A s \in Seqs(pending) \cup SentSeqs(up) : s > ack => s > lastAppliedSeq
    BY <1>4, SeqTypes
  <2>3. BoundInv' /\ FreshInv'
    BY <1>1, <1>7, <1>8, <1>10, <2>1, <2>2 DEF OrderInv, BoundInv, FreshInv
  <2>4. ClosedInv'
    BY <1>1, <1>2, <1>7, <1>8, <2>1 DEF OrderInv, ClosedInv
  <2>5. ReloadInv'
    BY <1>1, <1>3, <1>6, <1>7, <1>10 DEF OrderInv, ReloadInv
  <2> QED
    BY <1>9, <2>3, <2>4, <2>5 DEF OrderInv
<1>11. CASE Q # {} /\ ~Holds(Q) /\ Apply(f)
  <2>1. f \in Q /\ f \in Frames /\ \A g \in Q : f.seq <= g.seq
    BY <1>3, <1>11, OldestFrame
  <2> HIDE DEF f
  <2>2. applied \in Seq(Frames) /\ applied' = Append(applied, Gated(f)) /\ lastAppliedSeq' = f.seq
    BY <1>11 DEF Apply, TypeOK, HistoryType
  <2>3. AppliedSeqs' = AppliedSeqs \cup {f.seq}
    <3>1. Gated(f).seq = f.seq /\ Gated(f) \in Frames
      BY <2>1, StripType
    <3>2. /\ \A i \in DOMAIN applied : i \in DOMAIN applied' /\ applied'[i] = applied[i]
          /\ \A i \in DOMAIN applied' : (i \in DOMAIN applied /\ applied'[i] = applied[i])
                                        \/ applied'[i] = Gated(f)
          /\ \E i \in DOMAIN applied' : applied'[i] = Gated(f)
      <4>1. Len(applied) + 1 \in DOMAIN applied' /\ applied'[Len(applied) + 1] = Gated(f)
        BY <2>2, <3>1
      <4> QED
        BY <2>2, <3>1, <4>1
    <3> QED
      BY <3>1, <3>2 DEF AppliedSeqs
  <2>4. f.seq \in Seqs(inputQueue) /\ f.seq \in Nat /\ After(f.seq)
    BY <1>3, <2>1, SeqTypes DEF OrderInv, FreshInv, Seqs
  <2>5. \A s \in Seqs(inputQueue)' : s \in Seqs(inputQueue) /\ s > f.seq
    <3>1. inputQueue' \subseteq Q \ {f}
      BY <1>5, <1>11 DEF Remaining, f
    <3>2. \A g \in Q \ {f} : g.seq > f.seq
      <4>1. \A g \in Q : g.seq = f.seq => g = f
        BY <1>3, <2>1 DEF OrderInv, UniqueInv, Unique
      <4>2. \A g \in Q : g.seq \in Nat
        BY <1>3 DEF Frames
      <4> QED
        BY <2>1, <2>4, <4>1, <4>2
    <3> QED
      BY <1>3, <3>1, <3>2 DEF Seqs
  <2>6. \A s \in Nat : s > f.seq => After(s)'
    BY <2>3, <2>4, SeqTypes DEF After
  <2>7. BoundInv'
    BY <1>1, <1>7, <1>8, <2>3, <2>4 DEF OrderInv, BoundInv
  <2>8. FreshInv'
    BY <1>7, <2>2, <2>5, <2>6, SeqTypes DEF FreshInv
  <2>9. ClosedInv'
    BY <1>1, <1>2, <1>7, <1>8, <2>3, <2>4 DEF OrderInv, ClosedInv
  <2>10. ReloadInv'
    <3>1. reloaded => link = "closed"
      BY <1>3, <2>1 DEF OrderInv, ReloadInv
    <3> QED
      BY <1>1, <3>1 DEF OrderInv, ReloadInv
  <2> QED
    BY <1>9, <2>7, <2>8, <2>9, <2>10 DEF OrderInv
<1> QED
  BY <1>1, <1>10, <1>11 DEF ConsumeInputFrame, AwaitPair, Starve

LEMMA DisconnectOrder ==
  ASSUME TypeOK, OrderInv, Disconnect
  PROVE  OrderInv'
<1>1. /\ link = "closed" /\ up = <<>>
      /\ UNCHANGED <<link, seq, pending, reloaded, up, down, inputQueue, lastAppliedSeq, applied>>
  BY DEF Disconnect, clientVars, linkVars, frameVars, queueVars
<1>2. SentSeqs(up) = {}
  BY <1>1 DEF SentSeqs, InputAt
<1>3. /\ SentSeqs(up)' = SentSeqs(up) /\ MessagesUnique(up)' = MessagesUnique(up)
      /\ Unique(pending)' = Unique(pending) /\ Unique(inputQueue)' = Unique(inputQueue)
      /\ AppliedSeqs' = AppliedSeqs /\ Seqs(inputQueue)' = Seqs(inputQueue)
      /\ Seqs(pending)' = Seqs(pending) /\ \A s : After(s)' <=> After(s)
  BY <1>1 DEF SentSeqs, MessagesUnique, InputAt, Seqs, Unique, AppliedSeqs, After
<1> QED
  BY <1>1, <1>2, <1>3 DEF OrderInv, UniqueInv, BoundInv, FreshInv, ClosedInv, ReloadInv

(* The acknowledgement starts again; nothing that was sent before is left,  *)
(* and nothing that is left to send is old.                                 *)
LEMMA RejoinOrder ==
  ASSUME TypeOK, OrderInv, Rejoin
  PROVE  OrderInv'
<1>1. /\ link = "closed" /\ ~peer /\ link' = "joining" /\ peer' = TRUE
      /\ inputQueue' = {} /\ lastAppliedSeq' = 0
      /\ applied' = (IF reloaded THEN <<>> ELSE applied)
      /\ UNCHANGED <<up, seq, pending, reloaded>>
  BY DEF Rejoin, ResetStream, frameVars
<1>2. /\ SentSeqs(up)' = {} /\ MessagesUnique(up)' /\ Unique(pending)' /\ Unique(inputQueue)'
      /\ Seqs(pending)' = Seqs(pending) /\ Seqs(inputQueue)' = {}
  <2>1. SentSeqs(up) = {} /\ MessagesUnique(up) /\ Unique(pending)
    BY <1>1 DEF OrderInv, UniqueInv, ClosedInv
  <2> QED
    BY <1>1, <2>1 DEF SentSeqs, MessagesUnique, InputAt, Seqs, Unique
<1>3. AppliedSeqs' \subseteq AppliedSeqs
  BY <1>1 DEF AppliedSeqs
<1>4. UniqueInv'
  BY <1>2 DEF UniqueInv
<1>5. BoundInv'
  BY <1>1, <1>2, <1>3 DEF OrderInv, BoundInv
<1>6. FreshInv'
  <2>1. \A s \in Seqs(pending), t \in AppliedSeqs : t < s
    BY <1>1 DEF OrderInv, ClosedInv
  <2> QED
    BY <1>2, <1>3, <2>1 DEF FreshInv, After
<1>7. ClosedInv' /\ ReloadInv'
  BY <1>1, <1>2 DEF OrderInv, ClosedInv, ReloadInv
<1> QED
  BY <1>4, <1>5, <1>6, <1>7 DEF OrderInv

-----------------------------------------------------------------------------
(* The theorem.                                                            *)

LEMMA OrderInit == Init => OrderInv
<1> SUFFICES ASSUME Init
             PROVE  OrderInv
  OBVIOUS
<1>1. /\ pending = {} /\ inputQueue = {} /\ up = <<>> /\ applied = <<>>
      /\ link = "open" /\ peer /\ ~reloaded
  BY DEF Init
<1>2. Seqs(pending) = {} /\ Seqs(inputQueue) = {} /\ SentSeqs(up) = {} /\ AppliedSeqs = {}
  BY <1>1 DEF Seqs, SentSeqs, InputAt, AppliedSeqs
<1>3. UniqueInv
  BY <1>1 DEF UniqueInv, Unique, MessagesUnique, InputAt
<1> QED
  BY <1>1, <1>2, <1>3 DEF OrderInv, BoundInv, FreshInv, ClosedInv, ReloadInv

LEMMA OrderStep == TypeOK /\ OrderInv /\ [Next]_vars => OrderInv'
<1> SUFFICES ASSUME TypeOK, OrderInv, [Next]_vars
             PROVE  OrderInv'
  OBVIOUS
<1>1. CASE \E E \in SUBSET Edges, n \in 0..MaxBurst : RenderFrame(E, n)
  BY <1>1, RenderOrder
<1>2. CASE EndReplay
  BY <1>2, EndReplayOrder
<1>3. CASE Close \/ Reload
  BY <1>3, CloseOrder
<1>4. CASE ClientReceive
  BY <1>4, ClientReceiveOrder
<1>5. CASE ServerReceive
  BY <1>5, ServerReceiveOrder
<1>6. CASE ServerTick
  BY <1>6, TickOrder DEF ServerTick
<1>7. CASE Disconnect
  BY <1>7, DisconnectOrder
<1>8. CASE Rejoin
  BY <1>8, RejoinOrder
<1>9. CASE UNCHANGED vars
  <2>1. UNCHANGED <<link, peer, seq, reloaded, pending, up, down, inputQueue, lastAppliedSeq, applied>>
    BY <1>9 DEF vars, clientVars, linkVars, frameVars, serverVars, queueVars
  <2>2. /\ SentSeqs(up)' = SentSeqs(up) /\ MessagesUnique(up)' = MessagesUnique(up)
        /\ Unique(pending)' = Unique(pending) /\ Seqs(pending)' = Seqs(pending)
    BY <2>1 DEF SentSeqs, MessagesUnique, InputAt, Seqs, Unique
  <2>3. /\ MessagesUnique(up) /\ Unique(pending) /\ (reloaded => pending = {})
        /\ (link = "closed" => down = <<>>)
    BY DEF OrderInv, UniqueInv, ReloadInv, ClosedInv
  <2> QED
    BY <2>1, <2>2, <2>3, NothingMoves
<1> QED
  BY <1>1, <1>2, <1>3, <1>4, <1>5, <1>6, <1>7, <1>8, <1>9 DEF Next

(* What has been applied grows by frames newer than all before, and starts  *)
(* empty with a page; so its order is kept.                                 *)
LEMMA OrderKept ==
  ASSUME TypeOK, OrderInv, AppliedInOrder, [Next]_vars
  PROVE  AppliedInOrder'
<1>1. CASE applied' = applied
  BY <1>1 DEF AppliedInOrder
<1>2. CASE applied' = <<>>
  BY <1>2 DEF AppliedInOrder
<1>3. ASSUME NEW f \in inputQueue, applied' = Append(applied, Gated(f))
      PROVE  AppliedInOrder'
  <2>1. /\ applied \in Seq(Frames) /\ f \in Frames /\ Gated(f).seq = f.seq
        /\ \A i \in DOMAIN applied : applied[i].seq < f.seq
    BY StripType DEF TypeOK, ServerType, HistoryType, OrderInv, FreshInv, After, AppliedSeqs, Seqs
  <2>2. \A i \in DOMAIN applied' : \/ i \in DOMAIN applied /\ applied'[i] = applied[i]
                                   \/ i = Len(applied) + 1 /\ applied'[i] = Gated(f)
    BY <2>1, <1>3
  <2>3. \A i \in DOMAIN applied : i \in Nat /\ i <= Len(applied) /\ Len(applied) \in Nat
    BY <2>1
  <2>4. \A i, j \in DOMAIN applied : i < j => applied[i].seq < applied[j].seq
    BY DEF AppliedInOrder
  <2>5. ASSUME NEW i \in DOMAIN applied', NEW j \in DOMAIN applied', i < j
        PROVE  applied'[i].seq < applied'[j].seq
    <3>1. i \in DOMAIN applied /\ applied'[i] = applied[i]
      BY <2>1, <2>2, <2>3, <2>5, <1>3
    <3> QED
      BY <2>1, <2>2, <2>4, <2>5, <3>1
  <2> QED
    BY <2>5 DEF AppliedInOrder
<1>4. ASSUME NEW event \in {"none", "downed", "revived", "extracted"}, Tick(event)
      PROVE  applied' = applied \/ \E f \in inputQueue : applied' = Append(applied, Gated(f))
  <2> DEFINE Q == inputQueue \ Trimmed
  <2>1. ConsumeInputFrame(Q, AckOf(inputQueue, Trimmed, lastAppliedSeq))
    BY <1>4 DEF Tick
  <2>2. Q \subseteq inputQueue /\ Q \subseteq Frames
    BY DEF TypeOK, ServerType
  <2> HIDE DEF Q
  <2>3. Q # {} => OldestOf(Q) \in inputQueue
    BY <2>2, OldestFrame
  <2> QED
    BY <2>1, <2>3 DEF ConsumeInputFrame, AwaitPair, Starve, Apply
<1>5. \/ applied' = applied
      \/ applied' = <<>>
      \/ \E f \in inputQueue : applied' = Append(applied, Gated(f))
  <2>1. CASE ServerTick
    BY <2>1, <1>4 DEF ServerTick
  <2>2. CASE Rejoin
    BY <2>2 DEF Rejoin
  <2>3. CASE ~ServerTick /\ ~Rejoin
    BY <2>3 DEF Next, vars, RenderFrame, EndReplay, Close, Reload, ClientReceive, ServerReceive,
       Disconnect, serverVars
  <2> QED
    BY <2>1, <2>2, <2>3
<1> QED
  BY <1>1, <1>2, <1>3, <1>5

(* As long as a page lives, the simulation never sees one of its frames     *)
(* twice or after a newer one (Room.ts 902-978), although a handoff resets  *)
(* the acknowledgement (Room.ts 533), the client repeats frames and the     *)
(* queue sheds: for any bursts, redundancy, limits and numbers of handoffs. *)
THEOREM AppliedOnceInOrder == Spec => []AppliedInOrder
<1>1. Init => AppliedInOrder
  BY DEF Init, AppliedInOrder
<1>2. TypeOK /\ OrderInv /\ AppliedInOrder /\ [Next]_vars => AppliedInOrder'
  BY OrderKept
<1> QED
  BY <1>1, <1>2, TypeInit, TypeStep, OrderInit, OrderStep, PTL DEF Spec

-----------------------------------------------------------------------------
(* The kill-cam gate. *)
Announces(m) == m.kind = "killCam" /\ m.clip = activeKillCamId
Answers(m) == m.kind = "killCamDone" /\ m.clip = activeKillCamId
(* What makes the client forget the clip it holds. *)
Overrides(m) == m.kind = "matchStart" \/ (m.kind = "killCam" /\ m.clip # activeKillCamId)

(* A message that makes the client forget the clip is followed by the clip. *)
Resent ==
  \A i \in DOMAIN down : Overrides(down[i]) => \E j \in DOMAIN down : i < j /\ Announces(down[j])

(* A client that is reconnecting may not answer yet: the clip is still to   *)
(* come, behind the welcome.                                                *)
HandoffInv ==
  /\ link = "closed" => down = <<>>
  /\ link = "joining" /\ peer => down # <<>> /\ Head(down).kind = "welcome"
KeeperInv ==
  /\ activeKillCamId # 0 => downed
  /\ activeKillCamId # 0 /\ Connected => Resent /\ (link = "joining" => Announced)
GateInv == HandoffInv /\ KeeperInv /\ GateHasKeeper

-----------------------------------------------------------------------------
LEMMA NotConnected ==
  ASSUME GateInv, HandoffInv', activeKillCamId' = activeKillCamId, downed' = downed, ~Connected'
  PROVE  GateInv'
BY DEF GateInv, KeeperInv, GateHasKeeper

(* The client says v to the server, and forgets its clip only if it answers. *)
LEMMA Tell ==
  ASSUME TypeOK, GateInv, NEW v \in Seq(UpMessages), up' = ToServer(v),
         UNCHANGED <<link, peer, down, activeKillCamId, downed>>,
         \/ activeClip' = activeClip
         \/ activeClip # 0 => \E i \in DOMAIN v : v[i] = [kind |-> "killCamDone", clip |-> activeClip]
  PROVE  GateInv'
<1>1. HandoffInv' /\ (Connected' <=> Connected) /\ (Announced' <=> Announced) /\ (Resent' <=> Resent)
  BY DEF GateInv, HandoffInv, Connected, Announced, Resent, Announces, Overrides
<1>2. KeeperInv'
  BY <1>1 DEF GateInv, KeeperInv
<1>3. ASSUME activeKillCamId # 0, Connected
      PROVE  (Announced \/ Answered \/ activeClip = activeKillCamId)'
  <2>1. CASE link = "joining"
    BY <1>1, <1>3, <2>1 DEF GateInv, KeeperInv
  <2>2. CASE link # "joining"
    <3>1. up' = up \o v /\ up \in Seq(UpMessages)
      BY <1>3, <2>2 DEF Connected, ToServer, TypeOK, ClientType, ChannelType
    <3>2. /\ \A i \in DOMAIN up : i \in DOMAIN up' /\ up'[i] = up[i]
          /\ \A i \in DOMAIN v : Len(up) + i \in DOMAIN up' /\ up'[Len(up) + i] = v[i]
      BY <3>1
    <3>3. Answered => Answered'
      BY <3>2 DEF Answered
    <3>4. CASE activeClip = activeKillCamId /\ activeClip' # activeClip
      <4>1. PICK i \in DOMAIN v : v[i] = [kind |-> "killCamDone", clip |-> activeClip]
        BY <1>3, <3>4
      <4>2. Answered'
        BY <3>2, <3>4, <4>1 DEF Answered
      <4> QED
        BY <4>2
    <3>5. CASE ~(activeClip = activeKillCamId /\ activeClip' # activeClip)
      BY <1>1, <1>3, <3>3, <3>5 DEF GateInv, GateHasKeeper
    <3> QED
      BY <3>4, <3>5
  <2> QED
    BY <2>1, <2>2
<1>4. GateHasKeeper'
  BY <1>1, <1>3 DEF GateHasKeeper
<1> QED
  BY <1>1, <1>2, <1>4 DEF GateInv

LEMMA RenderGate ==
  ASSUME TypeOK, GateInv, NEW E \in SUBSET Edges, NEW n \in 0..MaxBurst, RenderFrame(E, n)
  PROVE  GateInv'
<1> DEFINE ended == newGeneration
           replay == replayActive /\ ~ended
           st == staged \cup (IF replay THEN E \cap ReplaySafe ELSE E)
           kept == Newest(pending \cup Cut(st, n), PendingCap)
           flush == n > 0 /\ (st # {} \/ (seq + n) % 2 = 0)
           message == [kind |-> "input", frames |-> Newest(kept, Redundancy)]
           tell == IF ended THEN Done ELSE <<>>
           ship == IF flush THEN <<message>> ELSE <<>>
<1>1. /\ up' = ToServer(tell \o ship)
      /\ activeClip' = (IF ended THEN 0 ELSE activeClip)
      /\ UNCHANGED <<link, peer, down, activeKillCamId, downed>>
  BY DEF RenderFrame, Cut, linkVars, serverVars, bodyVars
<1>2. message \in UpMessages
  <2>1. /\ n \in Nat /\ st \in SUBSET Edges /\ seq + n <= MaxSeq
    BY StreamAssumption DEF RenderFrame, TypeOK, ClientType
  <2>2. Cut(st, n) \subseteq Frames /\ pending \subseteq Frames
    BY <2>1, CutType DEF TypeOK, ClientType
  <2>3. Newest(kept, Redundancy) \subseteq Frames
    BY <2>2 DEF Newest
  <2> QED
    BY <2>3 DEF UpMessages
<1> HIDE DEF message
<1>3. tell \in Seq(UpMessages) /\ ship \in Seq(UpMessages)
  BY <1>2, DoneType
<1>4. tell \o ship \in Seq(UpMessages) /\ \A i \in DOMAIN tell : i \in DOMAIN (tell \o ship)
                                                                /\ (tell \o ship)[i] = tell[i]
  <2> HIDE DEF tell, ship
  <2> QED
    BY <1>3
<1>5. ended /\ activeClip # 0 => 1 \in DOMAIN tell /\ tell[1] = [kind |-> "killCamDone", clip |-> activeClip]
  BY DEF Done
<1> HIDE DEF tell, ship
<1> QED
  BY <1>1, <1>4, <1>5, Tell

LEMMA EndReplayGate ==
  ASSUME TypeOK, GateInv, EndReplay
  PROVE  GateInv'
<1>1. /\ up' = ToServer(Done) /\ Done \in Seq(UpMessages)
      /\ UNCHANGED <<link, peer, down, activeKillCamId, downed>>
  BY DoneType DEF EndReplay, linkVars, serverVars, bodyVars
<1>2. activeClip # 0 => 1 \in DOMAIN Done /\ Done[1] = [kind |-> "killCamDone", clip |-> activeClip]
  BY DEF Done
<1> QED
  BY <1>1, <1>2, Tell

LEMMA LeaveGate ==
  ASSUME GateInv, Close \/ Reload \/ Disconnect
  PROVE  GateInv'
<1>1. CASE Close \/ Reload
  BY <1>1, NotConnected
     DEF Close, Reload, Lose, HandoffInv, Connected, serverVars, bodyVars
<1>2. CASE Disconnect
  BY <1>2, NotConnected
     DEF Disconnect, GateInv, HandoffInv, Connected, clientVars, linkVars, bodyVars
<1> QED
  BY <1>1, <1>2

LEMMA ClientReceiveGate ==
  ASSUME TypeOK, GateInv, ClientReceive
  PROVE  GateInv'
<1> DEFINE m == Head(down)
<1>1. /\ down \in Seq(DownMessages) /\ down # <<>> /\ down' = Tail(down)
      /\ link # "closed" /\ link' # "closed"
      /\ UNCHANGED <<up, peer, activeKillCamId, downed>>
  BY DEF ClientReceive, GateInv, HandoffInv, serverVars, bodyVars, frameVars, TypeOK, ChannelType
<1>2. /\ m = down[1]
      /\ \A i \in DOMAIN down : i = 1 \/ (i - 1 \in DOMAIN down' /\ down'[i - 1] = down[i])
      /\ \A i \in DOMAIN down' : i + 1 \in DOMAIN down /\ down'[i] = down[i + 1]
  BY <1>1
<1>3. HandoffInv'
  <2>1. link' = "joining" /\ peer => m.kind # "welcome" /\ link = "joining"
    BY DEF ClientReceive, frameVars
  <2> QED
    BY <1>1, <2>1 DEF GateInv, HandoffInv
<1>4. CASE activeKillCamId # 0 /\ peer
  <2>1. Connected
    BY <1>1, <1>4 DEF Connected
  <2>2. Resent'
    <3>1. ASSUME NEW i \in DOMAIN down', Overrides(down'[i])
          PROVE  \E j \in DOMAIN down' : i < j /\ Announces(down'[j])
      <4>1. PICK j \in DOMAIN down : i + 1 < j /\ Announces(down[j])
        BY <1>2, <1>4, <2>1, <3>1 DEF GateInv, KeeperInv, Resent
      <4>2. j - 1 \in DOMAIN down' /\ down'[j - 1] = down[j] /\ i < j - 1
        BY <1>1, <1>2, <4>1
      <4> QED
        BY <4>1, <4>2
    <3> QED
      BY <1>1, <3>1 DEF Resent, Overrides, Announces
  <2>3. Overrides(m) => Announced'
    <3>1. ASSUME Overrides(m)
          PROVE  Announced'
      <4>1. 1 \in DOMAIN down
        BY <1>1
      <4>2. PICK j \in DOMAIN down : 1 < j /\ Announces(down[j])
        BY <1>2, <1>4, <2>1, <3>1, <4>1 DEF GateInv, KeeperInv, Resent
      <4>3. j - 1 \in DOMAIN down' /\ down'[j - 1] = down[j]
        BY <1>2, <4>2
      <4> QED
        BY <1>1, <4>2, <4>3 DEF Announced, Announces
    <3> QED
      BY <3>1
  <2>4. Announced /\ ~Announces(m) => Announced'
    <3>1. ASSUME Announced, ~Announces(m)
          PROVE  Announced'
      <4>1. PICK j \in DOMAIN down : Announces(down[j])
        BY <3>1 DEF Announced, Announces
      <4>2. j # 1
        BY <1>2, <3>1, <4>1
      <4>3. j - 1 \in DOMAIN down' /\ down'[j - 1] = down[j]
        BY <1>2, <4>2
      <4> QED
        BY <1>1, <4>1, <4>3 DEF Announced, Announces
    <3> QED
      BY <3>1
  <2>5. Announces(m) => activeClip' = activeKillCamId'
    BY <1>1 DEF Announces, ClientReceive
  <2>6. ~Announces(m) /\ ~Overrides(m) => activeClip' = activeClip
    BY DEF Announces, Overrides, ClientReceive, replayVars
  <2>7. Answered' <=> Answered
    BY <1>1 DEF Answered
  <2>8. (Announced \/ Answered \/ activeClip = activeKillCamId)'
    BY <1>1, <1>4, <2>1, <2>3, <2>4, <2>5, <2>6, <2>7 DEF GateInv, GateHasKeeper
  <2>9. link' = "joining" => Announced'
    <3>1. link' = "joining" => link = "joining" /\ m.kind # "welcome"
      BY DEF ClientReceive, frameVars
    <3>2. link = "joining" => m.kind = "welcome"
      BY <1>4 DEF GateInv, HandoffInv
    <3> QED
      BY <3>1, <3>2
  <2> QED
    BY <1>1, <1>3, <1>4, <2>1, <2>2, <2>8, <2>9 DEF GateInv, KeeperInv, GateHasKeeper
<1>5. CASE ~(activeKillCamId # 0 /\ peer)
  BY <1>1, <1>3, <1>5 DEF GateInv, KeeperInv, GateHasKeeper, Connected
<1> QED
  BY <1>4, <1>5

(* An answer that is read opens the gate, if it is the clip's that shut it. *)
LEMMA ServerReceiveGate ==
  ASSUME TypeOK, GateInv, ServerReceive
  PROVE  GateInv'
<1> DEFINE m == Head(up)
<1>1. /\ up \in Seq(UpMessages) /\ up # <<>> /\ up' = Tail(up)
      /\ UNCHANGED <<link, down, peer, downed, activeClip>>
      /\ m \in UpMessages
      /\ m.kind = "input" => activeKillCamId' = activeKillCamId
      /\ m.kind = "killCamDone" =>
           activeKillCamId' = IF activeKillCamId = m.clip THEN 0 ELSE activeKillCamId
  BY DEF ServerReceive, clientVars, linkVars, replayVars, TypeOK, ChannelType
<1>2. m.kind = "input" \/ m.kind = "killCamDone"
  BY <1>1 DEF UpMessages
<1>3. HandoffInv'
  BY <1>1 DEF GateInv, HandoffInv
<1>4. CASE activeKillCamId' = 0
  BY <1>3, <1>4 DEF GateInv, KeeperInv, GateHasKeeper
<1>5. CASE activeKillCamId' # 0
  <2>1. activeKillCamId' = activeKillCamId /\ ~Answers(m)
    BY <1>1, <1>2, <1>5 DEF Answers
  <2>2. Answered => Answered'
    <3>1. ASSUME Answered
          PROVE  Answered'
      <4>1. PICK j \in DOMAIN up : Answers(up[j])
        BY <3>1 DEF Answered, Answers
      <4>2. j # 1
        BY <1>1, <2>1, <4>1
      <4>3. j - 1 \in DOMAIN up' /\ up'[j - 1] = up[j]
        BY <1>1, <4>2
      <4> QED
        BY <2>1, <4>1, <4>3 DEF Answered, Answers
    <3> QED
      BY <3>1
  <2>3. (Connected' <=> Connected) /\ (Announced' <=> Announced) /\ (Resent' <=> Resent)
    BY <1>1, <2>1 DEF Connected, Announced, Resent, Announces, Overrides
  <2> QED
    BY <1>1, <1>3, <2>1, <2>2, <2>3 DEF GateInv, KeeperInv, GateHasKeeper
<1> QED
  BY <1>4, <1>5

LEMMA Concatenated ==
  ASSUME NEW S, NEW u \in Seq(S), NEW v \in Seq(S)
  PROVE  /\ \A i \in DOMAIN u : i \in DOMAIN (u \o v) /\ (u \o v)[i] = u[i]
         /\ \A i \in DOMAIN v : Len(u) + i \in DOMAIN (u \o v) /\ (u \o v)[Len(u) + i] = v[i]
         /\ \A i \in DOMAIN (u \o v) : \/ i \in DOMAIN u /\ (u \o v)[i] = u[i]
                                       \/ i - Len(u) \in DOMAIN v /\ (u \o v)[i] = v[i - Len(u)]
OBVIOUS

LEMMA Ahead ==
  ASSUME NEW S, NEW a \in S, NEW w \in Seq(S)
  PROVE  /\ <<a>> \o w \in Seq(S) /\ <<a>> \o w # <<>> /\ Head(<<a>> \o w) = a
         /\ Len(<<a>> \o w) = Len(w) + 1
         /\ \A i \in 1..Len(w) : (<<a>> \o w)[i + 1] = w[i]
<1>1. <<a>> \in Seq(S) /\ Len(<<a>>) = 1 /\ <<a>>[1] = a
  OBVIOUS
<1> QED
  BY <1>1

LEMMA TickGate ==
  ASSUME TypeOK, GateInv, NEW event \in {"none", "downed", "revived", "extracted"}, Tick(event)
  PROVE  GateInv'
<1> DEFINE cam == IF event = "downed" THEN <<KillCamMessage>> ELSE <<>>
           snap == IF tick' = 0 THEN <<[kind |-> "snap", ack |-> lastAppliedSeq']>> ELSE <<>>
           msgs == cam \o snap
<1>1. /\ UNCHANGED <<link, peer, up, activeClip>>
      /\ down' = ToClient(msgs)
      /\ down \in Seq(DownMessages)
  BY DEF Tick, clientVars, linkVars, replayVars, TypeOK, ChannelType
<1>2. /\ \A i \in DOMAIN msgs : msgs[i].kind # "welcome" /\ msgs[i].kind # "matchStart"
      /\ \A i \in DOMAIN msgs : msgs[i].kind = "killCam" => msgs[i].clip = activeKillCamId'
      /\ event = "downed" => \E i \in DOMAIN msgs : msgs[i].kind = "killCam"
      /\ event # "downed" => \A i \in DOMAIN msgs : msgs[i].kind # "killCam"
  BY DEF KillCamMessage
<1>3. \E Q : StepEvent(event, Q)
  BY DEF Tick
<1>4. /\ activeKillCamId' # 0 => downed'
      /\ activeKillCamId' # 0 /\ event # "downed" => activeKillCamId' = activeKillCamId
  BY <1>3 DEF StepEvent, bodyVars, GateInv, KeeperInv
<1>5. Connected => down' = down \o msgs
  BY <1>1 DEF ToClient, Connected
<1>6. ~Connected => down' = down
  BY <1>1 DEF ToClient, Connected
<1>7. Len(msgs) \in Nat /\ DOMAIN msgs = 1..Len(msgs)
  BY DEF KillCamMessage
<1> HIDE DEF msgs
<1>8. Connected => /\ \A i \in DOMAIN down : i \in DOMAIN down' /\ down'[i] = down[i]
                   /\ \A i \in DOMAIN msgs : Len(down) + i \in DOMAIN down' /\ down'[Len(down) + i] = msgs[i]
                   /\ \A i \in DOMAIN down' : \/ i \in DOMAIN down /\ down'[i] = down[i]
                                              \/ i - Len(down) \in DOMAIN msgs /\ down'[i] = msgs[i - Len(down)]
  <2> DEFINE S == DownMessages \cup {KillCamMessage, [kind |-> "snap", ack |-> lastAppliedSeq']}
  <2>1. down \in Seq(S) /\ msgs \in Seq(S)
    <3>1. KillCamMessage \in S /\ [kind |-> "snap", ack |-> lastAppliedSeq'] \in S /\ DownMessages \subseteq S
      OBVIOUS
    <3>2. cam \in Seq(S) /\ snap \in Seq(S)
      <4> HIDE DEF S
      <4> QED
        BY <3>1
    <3> HIDE DEF S, cam, snap
    <3> QED
      BY <1>1, <3>1, <3>2 DEF msgs
  <2> HIDE DEF S
  <2>2. /\ \A i \in DOMAIN down : i \in DOMAIN (down \o msgs) /\ (down \o msgs)[i] = down[i]
        /\ \A i \in DOMAIN msgs : /\ Len(down) + i \in DOMAIN (down \o msgs)
                                 /\ (down \o msgs)[Len(down) + i] = msgs[i]
        /\ \A i \in DOMAIN (down \o msgs) :
             \/ i \in DOMAIN down /\ (down \o msgs)[i] = down[i]
             \/ i - Len(down) \in DOMAIN msgs /\ (down \o msgs)[i] = msgs[i - Len(down)]
    BY <2>1, Concatenated
  <2> QED
    BY <1>5, <2>2
<1>9. HandoffInv'
  <2>1. CASE Connected /\ down # <<>>
    <3>1. 1 \in DOMAIN down /\ down' # <<>> /\ Head(down') = Head(down)
      BY <1>1, <1>8, <2>1
    <3> QED
      BY <1>1, <2>1, <3>1 DEF GateInv, HandoffInv, Connected
  <2>2. CASE Connected /\ down = <<>>
    BY <1>1, <2>2 DEF GateInv, HandoffInv, Connected
  <2>3. CASE ~Connected
    BY <1>1, <1>6, <2>3 DEF GateInv, HandoffInv, Connected
  <2> QED
    BY <2>1, <2>2, <2>3
<1>10. CASE Connected /\ activeKillCamId' # 0
  <2>1. Resent' /\ (Announced \/ event = "downed" => Announced')
    <3>1. CASE event = "downed"
      <4>1. PICK k \in DOMAIN msgs : msgs[k].kind = "killCam" /\ msgs[k].clip = activeKillCamId'
        BY <1>2, <3>1
      <4>2. Len(down) + k \in DOMAIN down' /\ down'[Len(down) + k] = msgs[k]
        BY <1>8, <1>10, <4>1
      <4>3. Announced'
        BY <4>1, <4>2 DEF Announced
      <4>4. ASSUME NEW i \in DOMAIN down',
                   \/ down'[i].kind = "matchStart"
                   \/ down'[i].kind = "killCam" /\ down'[i].clip # activeKillCamId'
            PROVE  i < Len(down) + k
        <5>1. i \in DOMAIN down
          BY <1>2, <1>8, <1>10, <4>4
        <5> QED
          BY <1>1, <1>7, <4>1, <5>1
      <4> QED
        BY <4>1, <4>2, <4>3, <4>4 DEF Resent, Overrides, Announces
    <3>2. CASE event # "downed"
      <4>1. activeKillCamId' = activeKillCamId /\ activeKillCamId # 0
        BY <1>4, <1>10, <3>2
      <4>2. ASSUME NEW i \in DOMAIN down',
                   \/ down'[i].kind = "matchStart"
                   \/ down'[i].kind = "killCam" /\ down'[i].clip # activeKillCamId
            PROVE  \E j \in DOMAIN down' : i < j /\ down'[j].kind = "killCam" /\ down'[j].clip = activeKillCamId
        <5>1. i \in DOMAIN down /\ down'[i] = down[i]
          BY <1>2, <1>8, <1>10, <3>2, <4>2
        <5>2. PICK j \in DOMAIN down : i < j /\ Announces(down[j])
          BY <1>10, <4>1, <4>2, <5>1 DEF GateInv, KeeperInv, Resent, Overrides
        <5> QED
          BY <1>8, <1>10, <5>2 DEF Announces
      <4>3. Announced => Announced'
        BY <1>8, <1>10, <4>1 DEF Announced
      <4> QED
        BY <3>2, <4>1, <4>2, <4>3 DEF Resent, Overrides, Announces
    <3> QED
      BY <3>1, <3>2
  <2>2. event # "downed" => activeKillCamId' = activeKillCamId /\ (Answered' <=> Answered)
    BY <1>1, <1>4, <1>10 DEF Answered
  <2>3. (Announced \/ Answered \/ activeClip = activeKillCamId)'
    BY <1>1, <1>10, <2>1, <2>2 DEF GateInv, GateHasKeeper
  <2>4. link' = "joining" => Announced'
    BY <1>1, <1>10, <2>1, <2>2 DEF GateInv, KeeperInv
  <2> QED
    BY <1>4, <1>9, <2>1, <2>3, <2>4 DEF GateInv, KeeperInv, GateHasKeeper
<1>11. CASE ~(Connected /\ activeKillCamId' # 0)
  <2>1. ~(Connected' /\ activeKillCamId' # 0)
    BY <1>1, <1>11 DEF Connected
  <2> QED
    BY <1>4, <1>9, <2>1 DEF GateInv, KeeperInv, GateHasKeeper
<1> QED
  BY <1>10, <1>11

(* The clip is sent again behind matchStart. *)
LEMMA RejoinGate ==
  ASSUME TypeOK, GateInv, Rejoin
  PROVE  GateInv'
<1>1. /\ link' = "joining" /\ down' = <<[kind |-> "welcome"]>> \o MatchStart
      /\ UNCHANGED <<activeKillCamId, downed>>
  BY DEF Rejoin, bodyVars
<1>2. CASE activeKillCamId # 0
  <2> DEFINE clip == [kind |-> "killCam", clip |-> activeKillCamId]
             welcome == [kind |-> "welcome"]
             start == [kind |-> "matchStart"]
             S == {clip, welcome, start}
  <2>1. MatchStart = <<start>> \o <<clip>>
    BY <1>2 DEF MatchStart, GateInv, KeeperInv
  <2>2. /\ 3 \in DOMAIN down' /\ down'[3] = clip
        /\ down' # <<>> /\ Head(down') = welcome
        /\ \A i \in DOMAIN down' : i = 3 \/ i < 3
    <3>1. clip \in S /\ welcome \in S /\ start \in S
      OBVIOUS
    <3> HIDE DEF clip, welcome, start, S
    <3>2. <<clip>> \in Seq(S) /\ Len(<<clip>>) = 1 /\ <<clip>>[1] = clip
      BY <3>1
    <3>3. MatchStart \in Seq(S) /\ Len(MatchStart) = 2 /\ MatchStart[2] = clip
      BY <2>1, <3>1, <3>2, Ahead
    <3>4. /\ down' \in Seq(S) /\ down' # <<>> /\ Head(down') = welcome
          /\ Len(down') = 3 /\ down'[3] = clip
      BY <1>1, <3>1, <3>3, Ahead DEF welcome
    <3> QED
      BY <3>4
  <2>3. Announced' /\ Resent'
    BY <1>1, <2>2 DEF Announced, Resent, Announces, Overrides
  <2> QED
    BY <1>1, <2>2, <2>3 DEF GateInv, HandoffInv, KeeperInv, GateHasKeeper
<1>3. CASE activeKillCamId = 0
  <2> DEFINE S == {[kind |-> "welcome"], [kind |-> "matchStart"]}
  <2>1. MatchStart \in Seq(S) /\ [kind |-> "welcome"] \in S
    BY <1>3 DEF MatchStart
  <2>2. down' # <<>> /\ Head(down') = [kind |-> "welcome"]
    <3> HIDE DEF S
    <3> QED
      BY <1>1, <2>1, Ahead
  <2> QED
    BY <1>1, <1>3, <2>2 DEF GateInv, HandoffInv, KeeperInv, GateHasKeeper
<1> QED
  BY <1>2, <1>3

-----------------------------------------------------------------------------
(* The theorem.                                                            *)

LEMMA GateStep == TypeOK /\ GateInv /\ [Next]_vars => GateInv'
<1> SUFFICES ASSUME TypeOK, GateInv, [Next]_vars
             PROVE  GateInv'
  OBVIOUS
<1>1. CASE \E E \in SUBSET Edges, n \in 0..MaxBurst : RenderFrame(E, n)
  BY <1>1, RenderGate
<1>2. CASE EndReplay
  BY <1>2, EndReplayGate
<1>3. CASE Close \/ Reload \/ Disconnect
  BY <1>3, LeaveGate
<1>4. CASE ClientReceive
  BY <1>4, ClientReceiveGate
<1>5. CASE ServerReceive
  BY <1>5, ServerReceiveGate
<1>6. CASE ServerTick
  BY <1>6, TickGate DEF ServerTick
<1>7. CASE Rejoin
  BY <1>7, RejoinGate
<1>8. CASE UNCHANGED vars
  <2>1. UNCHANGED <<link, peer, up, down, activeKillCamId, downed, activeClip>>
    BY <1>8 DEF vars, clientVars, linkVars, replayVars, serverVars, bodyVars
  <2> QED
    BY <2>1 DEF GateInv, HandoffInv, KeeperInv, GateHasKeeper, Connected, Announced, Answered,
       Resent, Announces, Overrides
<1> QED
  BY <1>1, <1>2, <1>3, <1>4, <1>5, <1>6, <1>7, <1>8 DEF Next

(* While a kill cam gates the input of a connected player, its clip is on   *)
(* the way, held by the client or answered (Room.ts 1536, NetSession.ts     *)
(* 332): no handoff, reload or new down leaves the gate shut without        *)
(* anybody to open it.                                                     *)
THEOREM GateIsKept == Spec => []GateHasKeeper
<1>1. Init => GateInv
  BY DEF Init, GateInv, HandoffInv, KeeperInv, GateHasKeeper
<1>2. GateInv => GateHasKeeper
  BY DEF GateInv
<1> QED
  BY <1>1, <1>2, TypeInit, TypeStep, GateStep, PTL DEF Spec

-----------------------------------------------------------------------------
(* What the two ends know of each other's frames. *)

Reached == Seqs(inputQueue) \cup {lastAppliedSeq}

(* No frame is missing between two that are pending. *)
ContiguousInv == \A s \in Seqs(pending), t \in Nat : s <= t /\ t <= seq => t \in Seqs(pending)
(* The acknowledgement is behind the queue, and what the client was told of *)
(* it is behind the acknowledgement.                                        *)
AckInv ==
  /\ ~reloaded => lastAppliedSeq <= seq
  /\ reloaded /\ link # "closed" => lastAppliedSeq = 0
  /\ \A s \in Seqs(inputQueue) : lastAppliedSeq < s
  /\ \A i \in DOMAIN down : down[i].kind = "snap" => down[i].ack <= lastAppliedSeq
(* A message of u that holds a frame as new as s holds s, if a later one    *)
(* can: S are the frames that are pending, n is the newest.                 *)
Repeated(u, S, n) ==
  \A i \in InputAt(u) : \A g \in Seqs(u[i].frames) :
    /\ \A j \in InputAt(u) : i < j => \A s \in Seqs(u[j].frames) : s <= g => s \in Seqs(u[i].frames)
    /\ \A s \in S : s <= g => s \in Seqs(u[i].frames) \/ s <= n - Redundancy
(* Whatever the server's queue has reached, older frames that are still to  *)
(* arrive have arrived before.                                              *)
Passed(S, n, t) == \A s \in S : s <= t => s \in arrived \/ s <= n - Redundancy
ReachInv == \A t \in Reached : /\ \A s \in SentSeqs(up) : s <= t => s \in arrived
                               /\ Passed(Seqs(pending), seq, t)
(* What the server has not applied, or has still to receive, is pending. *)
Replayed(s) == s > baseline /\ s > seq - PendingCap /\ s > lastAppliedSeq => s \in Seqs(pending)
CoverInv ==
  /\ Settled => \A s \in Seqs(inputQueue) \cup SentSeqs(up) : Replayed(s)
  /\ link = "joining" => \E i \in DOMAIN down : down[i].kind = "matchStart"
FlowInv == ContiguousInv /\ AckInv /\ Repeated(up, Seqs(pending), seq) /\ ReachInv /\ CoverInv

(* Of frames without a gap up to m, the newest k are those above m - k.     *)
LEMMA NewestByNumber ==
  ASSUME NEW P, P \subseteq Frames, Unique(P), NEW m \in Nat, NEW k \in Nat,
         \A s \in Seqs(P) : s <= m,
         \A s \in Seqs(P), t \in Nat : s <= t /\ t <= m => t \in Seqs(P)
  PROVE  Newest(P, k) = {f \in P : f.seq > m - k}
<1>1. SUFFICES ASSUME NEW f \in P
               PROVE  Cardinality({g \in P : g.seq > f.seq}) = m - f.seq
  <2>1. \A f \in P : f.seq \in Nat
    BY DEF Frames
  <2>2. \A f \in P : Cardinality({g \in P : g.seq > f.seq}) < k <=> f.seq > m - k
    BY <1>1, <2>1
  <2> QED
    BY <2>2 DEF Newest
<1> DEFINE S == {g \in P : g.seq > f.seq}
           T == (f.seq + 1)..m
           h == [g \in S |-> g.seq]
<1>2. /\ f.seq \in Nat /\ f.seq <= m /\ S \subseteq Frames
      /\ \A g \in P : g.seq \in Nat /\ g.seq <= m
  BY DEF Frames, Seqs
<1>3. h \in [S -> T] /\ \A g \in S : h[g] = g.seq
  BY <1>2
<1>4. \A g, l \in S : h[g] = h[l] => g = l
  BY <1>3 DEF Unique
<1>5. ASSUME NEW t \in T
      PROVE  \E g \in S : h[g] = t
  <2>1. t \in Nat /\ f.seq <= t /\ t <= m /\ t > f.seq /\ f.seq \in Seqs(P)
    BY <1>2 DEF Seqs
  <2>2. t \in Seqs(P)
    BY <2>1
  <2>3. PICK g \in P : g.seq = t
    BY <2>2 DEF Seqs
  <2> QED
    BY <1>3, <2>1, <2>3
<1>6. ExistsBijection(S, T)
  <2> HIDE DEF S, T, h
  <2>1. h \in Bijection(S, T)
    BY <1>3, <1>4, <1>5 DEF Bijection, Injection, IsInjective, Surjection
  <2> QED
    BY <2>1 DEF ExistsBijection
<1>7. IsFiniteSet(S)
  BY <1>2, FramesFinite
<1>8. Cardinality(T) = m - f.seq
  BY <1>2, FS_Interval
<1> HIDE DEF S, T
<1>9. Cardinality(S) = m - f.seq
  BY <1>6, <1>7, <1>8, FS_Bijection
<1> QED
  BY <1>9 DEF S

(* What is kept of the frames after n were cut, and what is sent of them. *)
LEMMA KeptNumbers ==
  ASSUME TypeOK, OrderInv, ContiguousInv, ~reloaded,
         NEW st \in SUBSET Edges, NEW n \in Nat, NEW m, m = seq + n, m <= MaxSeq,
         NEW kept, kept = Newest(pending \cup Cut(st, n), PendingCap)
  PROVE  /\ \A s \in Seqs(kept), t \in Nat : s <= t /\ t <= m => t \in Seqs(kept)
         /\ \A s \in Seqs(pending) : s > m - PendingCap => s \in Seqs(kept)
         /\ Seqs(Newest(kept, Redundancy)) = {s \in Seqs(kept) : s > m - Redundancy}
<1> DEFINE new == Cut(st, n)
           whole == pending \cup new
<1>1. /\ new \subseteq Frames /\ pending \subseteq Frames /\ seq \in Nat /\ m \in Nat
      /\ \A f \in new : seq < f.seq /\ f.seq <= m
      /\ \A f, g \in new : f.seq = g.seq => f = g
      /\ Redundancy \in Nat /\ PendingCap \in Nat
  BY CutType, StreamAssumption DEF TypeOK, ClientType
<1>2. \A f \in Frames : f.seq \in Nat
  BY DEF Frames
<1>3. \A f \in pending : f.seq <= seq
  BY DEF OrderInv, BoundInv, Seqs
<1>4. \A t \in Nat : seq < t /\ t <= m => t \in Seqs(new)
  <2>1. ASSUME NEW t \in Nat, seq < t, t <= m
        PROVE  t \in Seqs(new)
    <3>1. t - seq \in 1..n /\ seq + (t - seq) = t
      BY <1>1, <2>1
    <3>2. [seq |-> seq + (t - seq), edges |-> IF t - seq = 1 THEN st ELSE {}] \in new
      BY <3>1 DEF Cut
    <3> QED
      BY <3>1, <3>2 DEF Seqs
  <2> QED
    BY <2>1
<1> HIDE DEF new
<1>5. Unique(whole)
  <2>1. Unique(pending)
    BY DEF OrderInv, UniqueInv
  <2> QED
    BY <1>1, <1>2, <1>3, <2>1 DEF Unique
<1>6. whole \subseteq Frames /\ \A s \in Seqs(whole) : s \in Nat /\ s <= m
  BY <1>1, <1>2, <1>3 DEF Seqs
<1>7. \A s \in Seqs(whole), t \in Nat : s <= t /\ t <= m => t \in Seqs(whole)
  <2>1. Seqs(whole) = Seqs(pending) \cup Seqs(new)
    BY DEF Seqs
  <2>2. \A s \in Seqs(new) : s \in Nat /\ s > seq
    BY <1>1, <1>2 DEF Seqs
  <2>3. \A s \in Seqs(pending) : s \in Nat
    BY SeqTypes
  <2>4. ASSUME NEW s \in Seqs(pending) \cup Seqs(new), NEW t \in Nat, s <= t, t <= m
        PROVE  t \in Seqs(pending) \cup Seqs(new)
    <3>1. CASE seq < t
      BY <1>4, <2>4, <3>1
    <3>2. CASE ~(seq < t)
      <4>1. s \in Seqs(pending)
        BY <1>1, <2>2, <2>3, <2>4, <3>2
      <4> QED
        BY <1>1, <2>4, <3>2, <4>1 DEF ContiguousInv
    <3> QED
      BY <3>1, <3>2
  <2> HIDE DEF whole
  <2> QED
    BY <2>1, <2>4
<1>0. m \in Nat /\ PendingCap \in Nat /\ Redundancy \in Nat
  BY <1>1
<1>8. kept = {f \in whole : f.seq > m - PendingCap}
  <2>1. kept = Newest(whole, PendingCap)
    BY DEF new
  <2>2. /\ whole \subseteq Frames /\ \A s \in Seqs(whole) : s <= m
    BY <1>6
  <2> HIDE DEF whole
  <2>3. Newest(whole, PendingCap) = {f \in whole : f.seq > m - PendingCap}
    BY ONLY <1>0, <1>5, <1>7, <2>2, NewestByNumber
  <2> QED
    BY <2>1, <2>3
<1>9. Seqs(kept) = {s \in Seqs(whole) : s > m - PendingCap}
  BY <1>8 DEF Seqs
<1>10. /\ kept \subseteq Frames /\ Unique(kept)
       /\ \A s \in Seqs(kept) : s \in Nat /\ s <= m
       /\ \A s \in Seqs(kept), t \in Nat : s <= t /\ t <= m => t \in Seqs(kept)
  <2>1. kept \subseteq whole
    BY <1>8
  <2>2. \A s \in Seqs(kept), t \in Nat : s <= t /\ t <= m => t \in Seqs(kept)
    <3> HIDE DEF whole
    <3> QED
      BY ONLY <1>0, <1>6, <1>7, <1>9
  <2> QED
    BY <1>5, <1>6, <1>9, <2>1, <2>2 DEF Unique
<1>11. \A s \in Seqs(pending) : s > m - PendingCap => s \in Seqs(kept)
  <2>1. Seqs(pending) \subseteq Seqs(whole)
    BY DEF Seqs
  <2> QED
    BY <1>9, <2>1
<1>12. Newest(kept, Redundancy) = {f \in kept : f.seq > m - Redundancy}
  BY ONLY <1>0, <1>10, NewestByNumber
<1>13. Seqs(Newest(kept, Redundancy)) = {s \in Seqs(kept) : s > m - Redundancy}
  BY <1>12 DEF Seqs
<1> QED
  BY <1>10, <1>11, <1>13

(* The queue loses its oldest frames first, where its acknowledgement is    *)
(* concerned: what is left is newer.                                        *)
LEMMA ShedIsOldest ==
  ASSUME NEW Q, Q \subseteq Frames, Unique(Q), NEW k \in Int, NEW ack \in 0..MaxSeq,
         \A s \in Seqs(Q) : ack < s
  PROVE  \A s \in Seqs(Q \ Shed(Q, k)) : AckOf(Q, Shed(Q, k), ack) < s
<1> DEFINE D == Shed(Q, k)
<1>1. D \subseteq Q /\ \A f \in Q : f.seq \in Nat
  BY DEF Shed, Frames
<1>2. ASSUME NEW f \in D, NEW g \in Q, ShedBefore(g, f)
      PROVE  g \in D
  <2> DEFINE F == {h \in Q : ShedBefore(h, f)}
             G == {h \in Q : ShedBefore(h, g)}
  <2>1. Cardinality(F) < k
    BY <1>2 DEF Shed
  <2>2. G \subseteq F /\ F \subseteq Frames /\ G \subseteq Frames
    BY <1>1, <1>2 DEF ShedBefore
  <2>3. Cardinality(G) <= Cardinality(F) /\ Cardinality(G) \in Nat /\ Cardinality(F) \in Nat
    <3> HIDE DEF F, G
    <3> QED
      BY <2>2, FramesFinite, FS_Subset
  <2>4. Cardinality(G) < k
    BY <2>1, <2>3
  <2> QED
    BY <2>4 DEF Shed
<1>3. ASSUME NEW f \in ShedAsFirst(Q, D), NEW g \in Q \ D
      PROVE  f.seq < g.seq
  <2>1. f \in D /\ (CarriesAction(f) \/ (CarriesAction(g) => f.seq < g.seq))
    BY <1>3 DEF ShedAsFirst
  <2>2. ~ShedBefore(g, f) /\ f.seq # g.seq
    BY <1>1, <1>2, <2>1 DEF Unique
  <2> QED
    BY <1>1, <2>1, <2>2 DEF ShedBefore, CarriesAction
<1> HIDE DEF D
<1>4. AckOf(Q, D, ack) = ack \/ AckOf(Q, D, ack) \in Seqs(ShedAsFirst(Q, D))
  BY <1>1, AckOfShed
<1>5. \A s \in Seqs(Q \ D) : AckOf(Q, D, ack) < s
  BY <1>3, <1>4 DEF Seqs
<1> QED
  BY <1>5 DEF D

LEMMA Bounds ==
  ASSUME TypeOK, OrderInv, FlowInv, ~reloaded
  PROVE  /\ \A t \in Reached : t \in Nat /\ t <= seq
         /\ \A s \in Seqs(pending) \cup SentSeqs(up) : s \in Nat /\ s <= seq
BY SeqTypes DEF OrderInv, BoundInv, FlowInv, AckInv, Reached

(* A display frame adds newer frames, and sends the newest. *)
LEMMA RenderFlow ==
  ASSUME TypeOK, OrderInv, FlowInv, NEW E \in SUBSET Edges, NEW n \in 0..MaxBurst, RenderFrame(E, n)
  PROVE  FlowInv'
<1> DEFINE ended == newGeneration
           replay == replayActive /\ ~ended
           st == staged \cup (IF replay THEN E \cap ReplaySafe ELSE E)
           kept == Newest(pending \cup Cut(st, n), PendingCap)
           sent == Newest(kept, Redundancy)
           flush == n > 0 /\ (st # {} \/ (seq + n) % 2 = 0)
           message == [kind |-> "input", frames |-> sent]
           tell == IF ended THEN Done ELSE <<>>
           ship == IF flush THEN <<message>> ELSE <<>>
<1>1. /\ n \in Nat /\ seq + n <= MaxSeq /\ ~reloaded /\ st \in SUBSET Edges /\ seq \in Nat
      /\ seq' = seq + n /\ Redundancy \in Nat /\ PendingCap \in Nat
  BY Numbers, StreamAssumption DEF RenderFrame, TypeOK, ClientType
<1>2. /\ up' = ToServer(tell \o ship)
      /\ IF drainable # 0
         THEN StartReplay(IF n > 0 THEN {} ELSE st, kept)
         ELSE pending' = kept
      /\ UNCHANGED <<link, reloaded, baseline, down, peer, inputQueue, lastAppliedSeq, arrived>>
  BY DEF RenderFrame, Cut, linkVars, serverVars, queueVars
<1>3. /\ kept \subseteq Frames
      /\ \A s \in Seqs(kept) : s \in Seqs(pending) \/ (seq < s /\ s <= seq' /\ s \in Nat)
      /\ \A s \in Seqs(kept), t \in Nat : s <= t /\ t <= seq' => t \in Seqs(kept)
      /\ \A s \in Seqs(pending) : s > seq' - PendingCap => s \in Seqs(kept)
      /\ Seqs(sent) = {s \in Seqs(kept) : s > seq' - Redundancy}
  <2>1. seq' \in Nat /\ seq' <= MaxSeq /\ ContiguousInv
    BY <1>1 DEF FlowInv
  <2> HIDE DEF st
  <2> DEFINE k == kept
  <2>2. /\ k \subseteq Frames
        /\ \A s \in Seqs(k) : s \in Seqs(pending) \/ (seq < s /\ s <= seq + n /\ s \in Nat)
    BY <1>1, KeptFrames
  <2>3. k = Newest(pending \cup Cut(st, n), PendingCap)
    OBVIOUS
  <2> HIDE DEF k
  <2>4. /\ \A s \in Seqs(k), t \in Nat : s <= t /\ t <= seq' => t \in Seqs(k)
        /\ \A s \in Seqs(pending) : s > seq' - PendingCap => s \in Seqs(k)
        /\ Seqs(Newest(k, Redundancy)) = {s \in Seqs(k) : s > seq' - Redundancy}
    BY <1>1, <2>1, <2>3, KeptNumbers
  <2> QED
    BY <1>1, <2>2, <2>4 DEF k
<1> HIDE DEF st, kept
<1>4. Seqs(pending)' = Seqs(kept)
  <2>1. pending' = kept \/ pending' = {ReplaySafeInput(f) : f \in kept}
    BY <1>2 DEF StartReplay
  <2>2. Seqs(pending') = Seqs(kept)
    BY <2>1, <1>3, Stripped
  <2> QED
    BY <2>2 DEF Seqs
<1>5. \/ up' = up
      \/ \E v \in Seq(UpMessages) : up' = up \o v /\ \A i \in InputAt(v) : v[i].frames = sent
  <2>1. message \in UpMessages
    BY <1>3 DEF Newest, UpMessages
  <2>2. ship \in Seq(UpMessages) /\ tell \in Seq(UpMessages)
    BY <2>1, DoneType
  <2>3. /\ \A i \in DOMAIN ship : ship[i] = message
        /\ \A i \in DOMAIN tell : tell[i].kind = "killCamDone"
    BY DEF Done
  <2>4. message.frames = sent
    OBVIOUS
  <2> HIDE DEF ship, tell, message, sent
  <2>5. tell \o ship \in Seq(UpMessages)
    BY <2>2
  <2>6. \A i \in InputAt(tell \o ship) : (tell \o ship)[i].frames = sent
    BY <2>2, <2>3, <2>4, Concatenated DEF InputAt
  <2> QED
    BY <1>2, <2>5, <2>6 DEF ToServer
<1> HIDE DEF sent
<1>6. Seqs(inputQueue)' = Seqs(inputQueue) /\ Reached' = Reached
  BY <1>2 DEF Reached, Seqs
<1>7. /\ \A t \in Reached : t \in Nat /\ t <= seq
      /\ \A s \in Seqs(pending) \cup SentSeqs(up) : s \in Nat /\ s <= seq
  BY <1>1, Bounds
<1>8. SentSeqs(up)' \subseteq SentSeqs(up) \cup Seqs(sent) /\ Repeated(up', Seqs(kept), seq')
  <2>1. /\ Repeated(up, Seqs(pending), seq)
        /\ \A i \in InputAt(up) : Seqs(up[i].frames) \subseteq SentSeqs(up)
    BY DEF FlowInv, SentSeqs
  <2>2. SentSeqs(up)' = SentSeqs(up')
    BY DEF SentSeqs, InputAt, Seqs
  <2>3. ASSUME NEW i \in InputAt(up), NEW g \in Seqs(up[i].frames), NEW s \in Seqs(kept), s <= g
        PROVE  s \in Seqs(up[i].frames) \/ s <= seq' - Redundancy
    <3>1. g <= seq /\ g \in Nat
      BY <1>7, <2>1, <2>3
    <3>2. s \in Seqs(pending)
      BY <1>1, <1>3, <2>3, <3>1
    <3>3. s \in Seqs(up[i].frames) \/ s <= seq - Redundancy
      BY <2>1, <2>3, <3>2 DEF Repeated
    <3> QED
      BY <1>1, <1>7, <3>2, <3>3
  <2>4. CASE up' = up
    BY <2>1, <2>2, <2>3, <2>4 DEF Repeated
  <2>5. ASSUME NEW v \in Seq(UpMessages), up' = up \o v, \A i \in InputAt(v) : v[i].frames = sent
        PROVE  SentSeqs(up') \subseteq SentSeqs(up) \cup Seqs(sent) /\ Repeated(up', Seqs(kept), seq')
    <3>1. up \in Seq(UpMessages)
      BY DEF TypeOK, ChannelType
    <3>2. SentSeqs(v) \subseteq Seqs(sent)
      BY <2>5 DEF SentSeqs
    <3>3. SentSeqs(up') \subseteq SentSeqs(up) \cup Seqs(sent)
      BY <2>5, <3>1, <3>2, Appended
    <3>4. \A i \in InputAt(up') : \/ i \in InputAt(up) /\ up'[i] = up[i]
                                  \/ i \notin DOMAIN up /\ up'[i].frames = sent
      <4>1. /\ \A i \in DOMAIN v : Len(up) + i \notin DOMAIN up
            /\ \A i \in DOMAIN (up \o v) : \/ i \in DOMAIN up /\ (up \o v)[i] = up[i]
                                           \/ i - Len(up) \in DOMAIN v /\ (up \o v)[i] = v[i - Len(up)]
            /\ \A i \in DOMAIN (up \o v) : i - Len(up) \in DOMAIN v => i \notin DOMAIN up
        BY <3>1
      <4> QED
        BY <2>5, <4>1 DEF InputAt
    <3>5. \A i, j \in InputAt(up') : i < j /\ j \in DOMAIN up => i \in DOMAIN up
      BY <2>5, <3>1 DEF InputAt
    <3>6. ASSUME NEW i \in InputAt(up'), NEW g \in Seqs(up'[i].frames), NEW s \in Seqs(kept), s <= g
          PROVE  s \in Seqs(up'[i].frames) \/ s <= seq' - Redundancy
      <4>1. CASE i \in InputAt(up) /\ up'[i] = up[i]
        BY <2>3, <3>6, <4>1
      <4>2. CASE up'[i].frames = sent
        <5>1. s \in Nat
          BY <1>3, <1>7
        <5> QED
          BY <1>1, <1>3, <3>6, <4>2, <5>1
      <4> QED
        BY <3>4, <4>1, <4>2
    <3>7. ASSUME NEW i \in InputAt(up'), NEW g \in Seqs(up'[i].frames), NEW j \in InputAt(up'), i < j,
                 NEW s \in Seqs(up'[j].frames), s <= g
          PROVE  s \in Seqs(up'[i].frames)
      <4>1. CASE j \in InputAt(up) /\ up'[j] = up[j]
        <5>1. j \in DOMAIN up
          BY <4>1 DEF InputAt
        <5>2. i \in InputAt(up) /\ up'[i] = up[i]
          BY <3>4, <3>5, <3>7, <5>1
        <5> QED
          BY <2>1, <3>7, <4>1, <5>2 DEF Repeated
      <4>2. CASE up'[j].frames = sent
        <5>1. s \in Seqs(kept) /\ s > seq' - Redundancy /\ s \in Nat
          BY <1>3, <1>7, <3>7, <4>2
        <5>2. s \in Seqs(up'[i].frames) \/ s <= seq' - Redundancy
          BY <3>6, <3>7, <5>1
        <5> QED
          BY <1>1, <5>1, <5>2
      <4> QED
        BY <3>4, <4>1, <4>2
    <3>8. Repeated(up', Seqs(kept), seq')
      BY ONLY <3>6, <3>7 DEF Repeated
    <3> QED
      BY <3>3, <3>8
  <2> QED
    BY <1>5, <2>2, <2>4, <2>5
<1>9. ContiguousInv'
  BY <1>3, <1>4 DEF ContiguousInv
<1>10. AckInv'
  BY <1>1, <1>2, <1>6, <1>7 DEF FlowInv, AckInv, Reached
<1>11. Repeated(up, Seqs(pending), seq)'
  BY <1>4, <1>8 DEF Repeated, InputAt, Seqs
<1>12. ReachInv'
  <2>1. ASSUME NEW t \in Reached, NEW s \in Seqs(kept), s <= t
        PROVE  s \in arrived \/ s <= seq' - Redundancy
    <3>1. s \in Seqs(pending)
      BY <1>1, <1>3, <1>7, <2>1
    <3>2. s \in arrived \/ s <= seq - Redundancy
      BY <2>1, <3>1 DEF FlowInv, ReachInv, Passed
    <3> QED
      BY <1>1, <1>7, <3>1, <3>2
  <2>2. ASSUME NEW t \in Reached, NEW s \in SentSeqs(up)', s <= t
        PROVE  s \in arrived
    <3>1. CASE s \in SentSeqs(up)
      BY <2>2, <3>1 DEF FlowInv, ReachInv
    <3>2. CASE s \in Seqs(sent)
      <4>1. s \in Seqs(kept) /\ s > seq' - Redundancy /\ s \in Nat
        BY <1>3, <1>7, <3>2
      <4> QED
        BY <1>1, <2>1, <2>2, <4>1
    <3> QED
      BY <1>8, <2>2, <3>1, <3>2
  <2> QED
    BY <1>2, <1>4, <1>6, <2>1, <2>2 DEF ReachInv, Passed
<1>13. CoverInv'
  <2>1. Settled' <=> Settled
    BY <1>2 DEF Settled
  <2>2. ASSUME Settled, NEW s \in Seqs(inputQueue) \cup SentSeqs(up)',
               s > baseline, s > seq' - PendingCap, s > lastAppliedSeq
        PROVE  s \in Seqs(kept)
    <3>1. CASE s \in Seqs(inputQueue) \cup SentSeqs(up)
      <4>1. s > seq - PendingCap
        BY <1>1, <1>7, <2>2, <3>1 DEF Reached
      <4>2. s \in Seqs(pending)
        BY <2>2, <3>1, <4>1 DEF FlowInv, CoverInv, Replayed
      <4> QED
        BY <1>3, <2>2, <4>2
    <3>2. CASE s \in Seqs(sent)
      BY <1>3, <3>2
    <3> QED
      BY <1>8, <2>2, <3>1, <3>2
  <2> QED
    BY <1>2, <1>4, <1>6, <2>1, <2>2 DEF FlowInv, CoverInv, Replayed
<1> QED
  BY <1>9, <1>10, <1>11, <1>12, <1>13 DEF FlowInv

(* Steps that touch no frame, and leave what is on the way to the client. *)
LEMMA FlowKept ==
  ASSUME TypeOK, OrderInv, FlowInv,
         UNCHANGED <<reloaded, seq, pending, inputQueue, lastAppliedSeq, arrived, down, baseline>>,
         SentSeqs(up)' \subseteq SentSeqs(up), Repeated(up', Seqs(pending), seq),
         link' = link, peer' => peer
  PROVE  FlowInv'
<1>1. /\ Seqs(inputQueue)' = Seqs(inputQueue) /\ Reached' = Reached
      /\ Seqs(pending)' = Seqs(pending)
  BY DEF Reached, Seqs
<1>2. ContiguousInv'
  BY <1>1 DEF FlowInv, ContiguousInv
<1>3. AckInv'
  BY <1>1 DEF FlowInv, AckInv
<1>4. Repeated(up, Seqs(pending), seq)'
  BY <1>1 DEF Repeated, InputAt, Seqs
<1>5. ReachInv'
  BY <1>1 DEF FlowInv, ReachInv, Passed
<1>6. CoverInv'
  BY <1>1 DEF FlowInv, CoverInv, Replayed, Settled
<1> QED
  BY <1>2, <1>3, <1>4, <1>5, <1>6 DEF FlowInv

(* A channel with fewer input messages, at their old places. *)
LEMMA FewerInputs ==
  ASSUME NEW u, NEW v, \A i \in InputAt(v) : i \in InputAt(u) /\ v[i] = u[i], NEW S, NEW n
  PROVE  SentSeqs(v) \subseteq SentSeqs(u) /\ (Repeated(u, S, n) => Repeated(v, S, n))
<1>1. SentSeqs(v) \subseteq SentSeqs(u)
  BY DEF SentSeqs
<1>2. Repeated(u, S, n) => Repeated(v, S, n)
  BY DEF Repeated
<1> QED
  BY <1>1, <1>2

LEMMA EndReplayFlow ==
  ASSUME TypeOK, OrderInv, FlowInv, EndReplay
  PROVE  FlowInv'
<1>1. /\ UNCHANGED <<link, peer, reloaded, seq, pending, inputQueue, lastAppliedSeq, arrived, down, baseline>>
      /\ up' = up \/ up' = up \o Done
  BY DEF EndReplay, linkVars, frameVars, serverVars, queueVars, ToServer
<1>2. \A i \in InputAt(up') : i \in InputAt(up) /\ up'[i] = up[i]
  <2>1. up \in Seq(UpMessages) /\ Done \in Seq(UpMessages)
    BY DoneType DEF TypeOK, ChannelType
  <2>2. \A i \in DOMAIN Done : Done[i].kind = "killCamDone"
    BY DEF Done
  <2>3. \A i \in DOMAIN (up \o Done) : \/ i \in DOMAIN up /\ (up \o Done)[i] = up[i]
                                       \/ i - Len(up) \in DOMAIN Done /\ (up \o Done)[i] = Done[i - Len(up)]
    BY <2>1, Concatenated
  <2> QED
    BY <1>1, <2>2, <2>3 DEF InputAt
<1>3. SentSeqs(up') \subseteq SentSeqs(up) /\ Repeated(up', Seqs(pending), seq)
  BY <1>2, FewerInputs DEF FlowInv
<1>4. SentSeqs(up)' = SentSeqs(up')
  BY DEF SentSeqs, InputAt, Seqs
<1> QED
  BY <1>1, <1>3, <1>4, FlowKept

(* A lost connection leaves the server what it still reads. *)
LEMMA CloseFlow ==
  ASSUME TypeOK, OrderInv, FlowInv, Close \/ Reload
  PROVE  FlowInv'
<1>1. /\ link' = "closed" /\ down' = <<>> /\ pending' = {}
      /\ Close => reloaded' = reloaded /\ seq' = seq
      /\ Reload => reloaded' = TRUE
      /\ UNCHANGED <<peer, inputQueue, lastAppliedSeq, arrived>>
  BY DEF Close, Reload, Lose, serverVars, queueVars
<1>2. PICK k \in 0..Len(up) : up' = SubSeq(up, 1, k)
  BY DEF Close, Reload, Lose
<1>3. \A i \in InputAt(up') : i \in InputAt(up) /\ up'[i] = up[i]
  <2>1. up \in Seq(UpMessages)
    BY DEF TypeOK, ChannelType
  <2>2. \A i \in DOMAIN SubSeq(up, 1, k) : i \in DOMAIN up /\ SubSeq(up, 1, k)[i] = up[i]
    BY <2>1
  <2> QED
    BY <1>2, <2>2 DEF InputAt
<1>4. SentSeqs(up') \subseteq SentSeqs(up) /\ Repeated(up', Seqs(pending), seq)
  BY <1>3, FewerInputs DEF FlowInv
<1>5. /\ SentSeqs(up)' = SentSeqs(up') /\ Seqs(inputQueue)' = Seqs(inputQueue) /\ Reached' = Reached
      /\ Seqs(pending)' = {}
  BY <1>1 DEF SentSeqs, InputAt, Seqs, Reached
<1>6. ContiguousInv'
  BY <1>5 DEF ContiguousInv
<1>7. AckInv'
  BY <1>1, <1>5 DEF FlowInv, AckInv
<1>8. Repeated(up, Seqs(pending), seq)'
  <2>1. Repeated(up', {}, seq')
    BY <1>4 DEF Repeated
  <2> QED
    BY <1>5, <2>1 DEF Repeated, InputAt, Seqs
<1>9. ReachInv'
  BY <1>1, <1>4, <1>5 DEF FlowInv, ReachInv, Passed
<1>10. CoverInv'
  BY <1>1 DEF CoverInv, Settled
<1> QED
  BY <1>6, <1>7, <1>8, <1>9, <1>10 DEF FlowInv

(* What the client hears takes pending frames that were acknowledged, or    *)
(* starts it anew.                                                          *)
LEMMA ClientReceiveFlow ==
  ASSUME TypeOK, OrderInv, HandoffInv, FlowInv, ClientReceive
  PROVE  FlowInv'
<1> DEFINE m == Head(down)
<1>1. /\ down \in Seq(DownMessages) /\ down # <<>> /\ down' = Tail(down) /\ m \in DownMessages
      /\ link # "closed" /\ link' # "closed" /\ peer /\ (link = "joining" => m.kind = "welcome")
      /\ UNCHANGED <<seq, up, peer, inputQueue, lastAppliedSeq, arrived>>
  BY DEF ClientReceive, HandoffInv, OrderInv, ClosedInv, serverVars, queueVars, frameVars,
     TypeOK, ChannelType
<1>2. /\ m = down[1]
      /\ \A i \in DOMAIN down : i = 1 \/ (i - 1 \in DOMAIN down' /\ down'[i - 1] = down[i])
      /\ \A i \in DOMAIN down' : i + 1 \in DOMAIN down /\ down'[i] = down[i + 1]
  BY <1>1
<1>3. /\ SentSeqs(up)' = SentSeqs(up) /\ Seqs(inputQueue)' = Seqs(inputQueue) /\ Reached' = Reached
  BY <1>1 DEF SentSeqs, InputAt, Seqs, Reached
<1>4. \/ m.kind = "matchStart" /\ pending' = {} /\ reloaded' = FALSE /\ baseline' = seq /\ link' = link
      \/ /\ m.kind = "snap" /\ pending' = {f \in pending : f.seq > m.ack}
         /\ UNCHANGED <<reloaded, baseline, link>>
      \/ /\ m.kind = "killCam" /\ pending' = {ReplaySafeInput(f) : f \in pending}
         /\ UNCHANGED <<reloaded, baseline, link>>
      \/ m.kind = "welcome" /\ pending' = pending /\ link' = "open" /\ UNCHANGED <<reloaded, baseline>>
  BY DEF ClientReceive, StartReplay, frameVars
<1>5. m.kind = "snap" => m.ack \in Nat /\ m.ack <= lastAppliedSeq
  BY <1>1, <1>2 DEF FlowInv, AckInv, DownMessages
<1>6. \/ m.kind = "matchStart" /\ Seqs(pending)' = {}
      \/ m.kind = "snap" /\ Seqs(pending)' = {s \in Seqs(pending) : s > m.ack}
      \/ m.kind \in {"killCam", "welcome"} /\ Seqs(pending)' = Seqs(pending)
  <2>1. pending \subseteq Frames
    BY DEF TypeOK, ClientType
  <2>2. Seqs({ReplaySafeInput(f) : f \in pending}) = Seqs(pending)
    BY <2>1, Stripped
  <2>3. Seqs({f \in pending : f.seq > m.ack}) = {s \in Seqs(pending) : s > m.ack}
    BY DEF Seqs
  <2>4. Seqs({}) = {} /\ Seqs(pending)' = Seqs(pending')
    BY DEF Seqs
  <2> QED
    BY <1>4, <2>2, <2>3, <2>4
<1>7. Seqs(pending)' \subseteq Seqs(pending) /\ Seqs(pending) \subseteq Nat /\ seq \in Nat /\ lastAppliedSeq \in Nat
  BY <1>6, SeqTypes
<1> HIDE DEF m
<1>8. ContiguousInv'
  <2>1. ASSUME m.kind = "snap", NEW s \in Seqs(pending), s > m.ack, NEW t \in Nat, s <= t, t <= seq
        PROVE  t \in Seqs(pending) /\ t > m.ack
    BY <1>5, <1>7, <2>1 DEF FlowInv, ContiguousInv
  <2>2. CASE m.kind = "snap"
    BY <1>1, <1>6, <2>1, <2>2 DEF ContiguousInv
  <2>3. CASE m.kind # "snap"
    BY <1>1, <1>6, <2>3 DEF FlowInv, ContiguousInv
  <2> QED
    BY <2>2, <2>3
<1>9. AckInv'
  <2>1. reloaded /\ ~reloaded' => lastAppliedSeq = 0
    BY <1>1 DEF FlowInv, AckInv
  <2>2. reloaded' => reloaded
    BY <1>4
  <2>3. ~reloaded' => lastAppliedSeq <= seq
    BY <1>7, <2>1 DEF FlowInv, AckInv
  <2>4. \A i \in DOMAIN down' : down'[i].kind = "snap" => down'[i].ack <= lastAppliedSeq
    BY <1>2 DEF FlowInv, AckInv
  <2> QED
    BY <1>1, <1>3, <2>2, <2>3, <2>4 DEF FlowInv, AckInv
<1>10. Repeated(up, Seqs(pending), seq)'
  <2>1. Repeated(up, Seqs(pending)', seq)
    BY <1>7 DEF FlowInv, Repeated
  <2> QED
    BY <1>1, <2>1 DEF Repeated, InputAt, Seqs
<1>11. ReachInv'
  BY <1>1, <1>3, <1>7 DEF FlowInv, ReachInv, Passed
<1>12. CoverInv'
  <2>1. link' # "joining"
    BY <1>1, <1>4
  <2>2. ASSUME Settled', NEW s \in Seqs(inputQueue) \cup SentSeqs(up),
               s > baseline', s > seq - PendingCap, s > lastAppliedSeq
        PROVE  s \in Seqs(pending)'
    <3>1. s \in Nat
      BY SeqTypes
    <3>2. CASE m.kind = "matchStart"
      <4>1. baseline' = seq
        BY <1>4, <3>2
      <4>2. s <= seq
        <5>1. CASE ~reloaded
          BY <5>1 DEF OrderInv, BoundInv
        <5>2. CASE reloaded
          BY <1>1, <5>2 DEF OrderInv, ReloadInv, Seqs
        <5> QED
          BY <5>1, <5>2
      <4> QED
        BY <1>7, <2>2, <3>1, <4>1, <4>2
    <3>3. CASE m.kind # "matchStart"
      <4>1. \A i \in DOMAIN down : down[i].kind # "matchStart"
        BY <1>1, <1>2, <2>2, <3>3 DEF Settled
      <4>2. Settled
        BY <1>1, <4>1 DEF Settled, FlowInv, CoverInv, TypeOK, ClientType
      <4>3. s \in Seqs(pending)
        BY <1>4, <2>2, <3>3, <4>2 DEF FlowInv, CoverInv, Replayed
      <4> QED
        BY <1>5, <1>6, <1>7, <2>2, <3>1, <3>3, <4>3
    <3> QED
      BY <3>2, <3>3
  <2> QED
    BY <1>1, <1>3, <2>1, <2>2 DEF CoverInv, Replayed
<1> QED
  BY <1>8, <1>9, <1>10, <1>11, <1>12 DEF FlowInv

(* Steps of the server.  W are the numbers that arrive with the step.       *)
LEMMA ServerFlow ==
  ASSUME TypeOK, OrderInv, FlowInv, NEW W, W \subseteq SentSeqs(up), arrived' = arrived \cup W,
         UNCHANGED <<link, seq, pending, reloaded, baseline, peer>>,
         Seqs(inputQueue)' \subseteq Seqs(inputQueue) \cup W,
         lastAppliedSeq' \in Reached \cup W, lastAppliedSeq' >= lastAppliedSeq,
         \A s \in Seqs(inputQueue)' : lastAppliedSeq' < s,
         SentSeqs(up)' \subseteq SentSeqs(up), Repeated(up', Seqs(pending), seq),
         \A t \in W : /\ \A s \in SentSeqs(up)' : s <= t => s \in W
                      /\ \A s \in Seqs(pending) : s <= t => s \in W \/ s <= seq - Redundancy,
         \A i \in DOMAIN down' : down'[i].kind = "snap" => down'[i].ack <= lastAppliedSeq',
         (\E i \in DOMAIN down : down[i].kind = "matchStart") => \E i \in DOMAIN down' : down'[i].kind = "matchStart"
  PROVE  FlowInv'
<1>1. /\ Seqs(pending)' = Seqs(pending)
      /\ seq \in Nat /\ lastAppliedSeq \in Nat
      /\ \A s \in Reached \cup SentSeqs(up) : s \in Nat
  BY SeqTypes DEF Seqs, Reached
<1>2. Reached' \subseteq Reached \cup W
  BY DEF Reached
<1>3. ContiguousInv'
  BY <1>1 DEF FlowInv, ContiguousInv
<1>4. AckInv'
  <2>1. ~reloaded => lastAppliedSeq' <= seq
    BY Bounds
  <2>2. reloaded /\ link # "closed" => lastAppliedSeq' = 0
    <3>1. reloaded /\ link # "closed" => W = {} /\ Seqs(inputQueue) = {} /\ lastAppliedSeq = 0
      BY DEF OrderInv, ReloadInv, FlowInv, AckInv, Seqs
    <3> QED
      BY <3>1 DEF Reached
  <2> QED
    BY <2>1, <2>2 DEF AckInv
<1>5. Repeated(up, Seqs(pending), seq)'
  BY <1>1 DEF Repeated, InputAt, Seqs
<1>6. ReachInv'
  <2>1. ASSUME NEW t \in Reached'
        PROVE  /\ \A s \in SentSeqs(up)' : s <= t => s \in arrived'
               /\ \A s \in Seqs(pending) : s <= t => s \in arrived' \/ s <= seq - Redundancy
    <3>1. CASE t \in Reached
      BY <3>1 DEF FlowInv, ReachInv, Passed
    <3>2. CASE t \in W
      BY <3>2
    <3> QED
      BY <1>2, <2>1, <3>1, <3>2
  <2> QED
    BY <1>1, <2>1 DEF ReachInv, Passed
<1>7. CoverInv'
  <2>1. Settled' => Settled
    BY DEF Settled
  <2>2. ASSUME Settled, NEW s \in Seqs(inputQueue)' \cup SentSeqs(up)',
               s > baseline, s > seq - PendingCap, s > lastAppliedSeq'
        PROVE  s \in Seqs(pending)
    <3>1. s \in Seqs(inputQueue) \cup SentSeqs(up)
      BY <2>2
    <3>2. s \in Nat /\ lastAppliedSeq' \in Nat
      BY <1>1, <3>1 DEF Reached
    <3>3. s > lastAppliedSeq
      BY <1>1, <2>2, <3>2
    <3> QED
      BY <2>2, <3>1, <3>3 DEF FlowInv, CoverInv, Replayed
  <2> QED
    BY <1>1, <2>1, <2>2 DEF FlowInv, CoverInv, Replayed
<1> QED
  BY <1>3, <1>4, <1>5, <1>6, <1>7 DEF FlowInv

(* A message that is read, and what its frames shed from the queue. *)
LEMMA ServerReceiveFlow ==
  ASSUME TypeOK, OrderInv, FlowInv, ServerReceive
  PROVE  FlowInv'
<1> DEFINE m == Head(up)
           W == IF m.kind = "input" THEN Seqs(m.frames) ELSE {}
           fresh == {f \in m.frames : f.seq > lastAppliedSeq /\ f.seq \notin Seqs(inputQueue)}
           all == inputQueue \cup fresh
           shed == Shed(all, Cardinality(all) - QueueLimit)
<1>1. /\ up \in Seq(UpMessages) /\ up # <<>> /\ up' = Tail(up)
      /\ UNCHANGED <<link, seq, pending, reloaded, baseline, down, peer>>
      /\ m.kind = "input" \/ m.kind = "killCamDone"
  BY DEF ServerReceive, clientVars, linkVars, frameVars, TypeOK, ChannelType
<1>2. arrived' = arrived \cup W
  BY <1>1 DEF ServerReceive
<1>3. /\ W \subseteq SentSeqs(up) /\ SentSeqs(up') \subseteq SentSeqs(up)
      /\ m.kind = "input" => m.frames \subseteq Frames /\ Unique(m.frames)
  BY <1>1, Read DEF OrderInv, UniqueInv
<1>4. SentSeqs(up)' = SentSeqs(up')
  BY DEF SentSeqs, InputAt, Seqs
<1>5. /\ m = up[1] /\ 1 \in DOMAIN up
      /\ \A i \in DOMAIN up' : i + 1 \in DOMAIN up /\ i + 1 > 1 /\ up'[i] = up[i + 1]
      /\ \A i, j \in DOMAIN up' : i < j => i + 1 < j + 1
  BY <1>1
<1> HIDE DEF m
<1>6. \A i \in InputAt(up') : i + 1 \in InputAt(up) /\ i + 1 > 1 /\ up'[i] = up[i + 1]
  BY <1>5 DEF InputAt
<1>7. Repeated(up, Seqs(pending), seq)
  BY DEF FlowInv
<1>8. Repeated(up', Seqs(pending), seq)
  <2>1. ASSUME NEW i \in InputAt(up'), NEW g \in Seqs(up'[i].frames)
        PROVE  /\ \A j \in InputAt(up') : i < j =>
                    \A s \in Seqs(up'[j].frames) : s <= g => s \in Seqs(up'[i].frames)
               /\ \A s \in Seqs(pending) : s <= g => s \in Seqs(up'[i].frames) \/ s <= seq - Redundancy
    <3>1. i + 1 \in InputAt(up) /\ up'[i] = up[i + 1] /\ g \in Seqs(up[i + 1].frames)
      BY <1>6, <2>1
    <3>2. /\ \A j \in InputAt(up) : i + 1 < j =>
                \A s \in Seqs(up[j].frames) : s <= g => s \in Seqs(up[i + 1].frames)
          /\ \A s \in Seqs(pending) : s <= g => s \in Seqs(up[i + 1].frames) \/ s <= seq - Redundancy
      BY <1>7, <3>1 DEF Repeated
    <3>3. \A j \in InputAt(up') : i < j => i + 1 < j + 1
      BY <1>5, <2>1 DEF InputAt
    <3> QED
      BY <1>6, <3>1, <3>2, <3>3
  <2> QED
    BY <2>1 DEF Repeated
<1>9. \A t \in W : /\ \A s \in SentSeqs(up)' : s <= t => s \in W
                   /\ \A s \in Seqs(pending) : s <= t => s \in W \/ s <= seq - Redundancy
  <2>1. ASSUME NEW t \in W
        PROVE  /\ \A s \in SentSeqs(up') : s <= t => s \in W
               /\ \A s \in Seqs(pending) : s <= t => s \in W \/ s <= seq - Redundancy
    <3>1. 1 \in InputAt(up) /\ W = Seqs(up[1].frames)
      BY <1>5, <2>1 DEF InputAt
    <3>2. ASSUME NEW s \in SentSeqs(up'), s <= t
          PROVE  s \in W
      <4>1. PICK i \in InputAt(up') : s \in Seqs(up'[i].frames)
        BY <3>2 DEF SentSeqs
      <4>2. i + 1 \in InputAt(up) /\ 1 < i + 1 /\ s \in Seqs(up[i + 1].frames)
        BY <1>6, <4>1
      <4> QED
        BY <1>7, <2>1, <3>1, <3>2, <4>2 DEF Repeated
    <3> QED
      BY <1>7, <2>1, <3>1, <3>2 DEF Repeated
  <2> QED
    BY <1>4, <2>1
<1>10. /\ Seqs(inputQueue)' \subseteq Seqs(inputQueue) \cup W
       /\ lastAppliedSeq' \in Reached \cup W /\ lastAppliedSeq' >= lastAppliedSeq
       /\ \A s \in Seqs(inputQueue)' : lastAppliedSeq' < s
  <2>1. CASE inputQueue' = inputQueue /\ lastAppliedSeq' = lastAppliedSeq
    <3>1. lastAppliedSeq >= lastAppliedSeq
      BY SeqTypes
    <3> QED
      BY <2>1, <3>1 DEF Reached, FlowInv, AckInv, Seqs
  <2>2. CASE m.kind = "input" /\ inRun
    <3>1. inputQueue' = all \ shed /\ lastAppliedSeq' = AckOf(all, shed, lastAppliedSeq)
      BY <2>2 DEF ServerReceive, EnqueueInputFrames, m
    <3>2. /\ all \subseteq Frames /\ shed \subseteq all /\ lastAppliedSeq \in 0..MaxSeq
          /\ Cardinality(all) - QueueLimit \in Int
      <4>1. all \subseteq Frames
        BY <1>3, <2>2 DEF TypeOK, ServerType
      <4>2. Cardinality(all) \in Nat
        <5> HIDE DEF all
        <5> QED
          BY <4>1, FramesFinite
      <4> QED
        BY <4>1, <4>2, Numbers DEF Shed, TypeOK, ServerType
    <3>3. Unique(all)
      <4>1. Unique(inputQueue) /\ Unique(m.frames)
        BY <1>3, <2>2 DEF OrderInv, UniqueInv
      <4> QED
        BY <4>1 DEF Unique, Seqs
    <3>4. Seqs(all) \subseteq Seqs(inputQueue) \cup W
      BY <2>2 DEF Seqs
    <3>5. \A s \in Seqs(all) : lastAppliedSeq < s
      <4>1. \A f \in inputQueue : lastAppliedSeq < f.seq
        BY DEF FlowInv, AckInv, Seqs
      <4>2. \A f \in all : f.seq \in Nat
        BY <3>2 DEF Frames
      <4> QED
        BY <3>2, <4>1, <4>2 DEF Seqs
    <3> HIDE DEF all
    <3>6. \A s \in Seqs(all \ shed) : AckOf(all, shed, lastAppliedSeq) < s
      BY <3>2, <3>3, <3>5, ShedIsOldest
    <3> HIDE DEF shed
    <3>7. /\ AckOf(all, shed, lastAppliedSeq) >= lastAppliedSeq
          /\ \/ AckOf(all, shed, lastAppliedSeq) = lastAppliedSeq
             \/ AckOf(all, shed, lastAppliedSeq) \in Seqs(ShedAsFirst(all, shed))
      BY <3>2, AckOfShed
    <3>8. Seqs(ShedAsFirst(all, shed)) \subseteq Seqs(all) /\ Seqs(all \ shed) \subseteq Seqs(all)
      BY <3>2 DEF Seqs, ShedAsFirst
    <3>9. Seqs(inputQueue)' = Seqs(all \ shed)
      BY <3>1 DEF Seqs
    <3> QED
      BY <3>1, <3>4, <3>6, <3>7, <3>8, <3>9 DEF Reached
  <2> QED
    BY <2>1, <2>2 DEF ServerReceive, m
<1>11. \A i \in DOMAIN down' : down'[i].kind = "snap" => down'[i].ack <= lastAppliedSeq'
  <2>1. ASSUME NEW i \in DOMAIN down, down[i].kind = "snap"
        PROVE  down[i].ack <= lastAppliedSeq'
    <3>1. down[i] \in DownMessages /\ down[i].ack <= lastAppliedSeq
      BY <2>1 DEF FlowInv, AckInv, TypeOK, ChannelType
    <3>2. down[i].ack \in Nat
      BY <2>1, <3>1 DEF DownMessages
    <3>3. lastAppliedSeq' \in Nat /\ lastAppliedSeq \in Nat
      BY <1>3, <1>10, SeqTypes DEF Reached
    <3> QED
      BY <1>10, <3>1, <3>2, <3>3
  <2> QED
    BY <1>1, <2>1
<1> HIDE DEF W
<1> QED
  BY <1>1, <1>2, <1>3, <1>4, <1>8, <1>9, <1>10, <1>11, ServerFlow

(* A tick trims the queue, applies its oldest frame and may acknowledge it. *)
LEMMA TickFlow ==
  ASSUME TypeOK, OrderInv, FlowInv, NEW event \in {"none", "downed", "revived", "extracted"}, Tick(event)
  PROVE  FlowInv'
<1> DEFINE D == Trimmed
           Q == inputQueue \ D
           ack == AckOf(inputQueue, D, lastAppliedSeq)
           f == OldestOf(Q)
           cam == IF event = "downed" THEN <<KillCamMessage>> ELSE <<>>
           snap == IF tick' = 0 THEN <<[kind |-> "snap", ack |-> lastAppliedSeq']>> ELSE <<>>
           msgs == cam \o snap
<1>1. /\ ConsumeInputFrame(Q, ack)
      /\ StepEvent(event, Remaining(Q))
      /\ down' = ToClient(msgs)
      /\ UNCHANGED <<link, seq, pending, reloaded, baseline, up, peer, arrived>>
  BY DEF Tick, clientVars, linkVars, frameVars
<1>2. /\ inputQueue \subseteq Frames /\ Unique(inputQueue) /\ lastAppliedSeq \in 0..MaxSeq
      /\ \A s \in Seqs(inputQueue) : lastAppliedSeq < s
      /\ D \subseteq inputQueue /\ Q \subseteq inputQueue
  BY DEF TypeOK, ServerType, OrderInv, UniqueInv, FlowInv, AckInv, Trimmed, Shed
<1>3. \A s \in Seqs(Q) : ack < s
  <2>1. CASE D = {}
    <3>1. ack = lastAppliedSeq
      BY <2>1 DEF AckOf
    <3> QED
      BY <1>2, <2>1, <3>1
  <2>2. CASE D # {}
    <3> DEFINE k == Least(minDepth, Cardinality(inputQueue)) - JitterTarget
    <3>1. D = Shed(inputQueue, k)
      BY <2>2 DEF Trimmed
    <3>2. k \in Int
      BY <1>2, FramesFinite, StreamAssumption DEF Least, TypeOK, ServerType
    <3> HIDE DEF k, D
    <3>3. \A s \in Seqs(inputQueue \ Shed(inputQueue, k)) : AckOf(inputQueue, Shed(inputQueue, k), lastAppliedSeq) < s
      BY <1>2, <3>2, ShedIsOldest
    <3> QED
      BY <3>1, <3>3
  <2> QED
    BY <2>1, <2>2
<1>4. ack \in Reached /\ ack >= lastAppliedSeq
  <2> HIDE DEF D
  <2>1. ack >= lastAppliedSeq /\ (ack = lastAppliedSeq \/ ack \in Seqs(ShedAsFirst(inputQueue, D)))
    BY <1>2, AckOfShed
  <2>2. Seqs(ShedAsFirst(inputQueue, D)) \subseteq Seqs(inputQueue)
    BY <1>2 DEF Seqs, ShedAsFirst
  <2> QED
    BY <2>1, <2>2 DEF Reached
<1> HIDE DEF D, Q, ack
<1>5. inputQueue' \subseteq Q
  <2>1. inputQueue' = Remaining(Q) \/ inputQueue' = {}
    BY <1>1 DEF StepEvent
  <2> QED
    BY <2>1 DEF Remaining
<1>6. Seqs(inputQueue)' \subseteq Seqs(Q) /\ Seqs(Q) \subseteq Seqs(inputQueue) /\ Seqs(Q) \subseteq Nat
  BY <1>2, <1>5, SeqTypes DEF Seqs
<1>7. /\ lastAppliedSeq' \in Reached /\ lastAppliedSeq' >= lastAppliedSeq
      /\ \A s \in Seqs(inputQueue)' : lastAppliedSeq' < s
  <2>1. CASE lastAppliedSeq' = ack
    BY <1>3, <1>4, <1>6, <2>1
  <2>2. CASE Q # {} /\ ~Holds(Q) /\ Apply(f)
    <3>1. f \in Q /\ f \in Frames /\ \A g \in Q : f.seq <= g.seq
      BY <1>2, <2>2, OldestFrame
    <3>2. lastAppliedSeq' = f.seq /\ inputQueue' \subseteq Q \ {f}
      <4>1. inputQueue' = Remaining(Q) \/ inputQueue' = {}
        BY <1>1 DEF StepEvent
      <4> QED
        BY <2>2, <4>1 DEF Apply, Remaining
    <3> HIDE DEF f
    <3>3. \A g \in Q \ {f} : f.seq < g.seq
      <4>1. \A g \in Q : g.seq \in Nat /\ (g.seq = f.seq => g = f)
        BY <1>2, <3>1 DEF Unique, Frames
      <4> QED
        BY <3>1, <4>1
    <3>4. f.seq \in Seqs(inputQueue) /\ f.seq \in Nat /\ lastAppliedSeq \in Nat
      BY <1>2, <3>1, SeqTypes DEF Seqs
    <3>5. lastAppliedSeq < f.seq
      BY <1>2, <3>4
    <3> QED
      BY <3>2, <3>3, <3>4, <3>5 DEF Seqs, Reached
  <2> QED
    BY <1>1, <2>1, <2>2 DEF ConsumeInputFrame, AwaitPair, Starve
<1>8. lastAppliedSeq' \in Nat /\ lastAppliedSeq \in Nat
  BY <1>7, SeqTypes DEF Reached
<1>9. \A i \in DOMAIN msgs : msgs[i].kind = "snap" => msgs[i].ack = lastAppliedSeq'
  BY DEF KillCamMessage
<1>10. /\ \A i \in DOMAIN down : i \in DOMAIN down' /\ down'[i] = down[i]
       /\ \A i \in DOMAIN down' : \/ i \in DOMAIN down /\ down'[i] = down[i]
                                  \/ \E j \in DOMAIN msgs : down'[i] = msgs[j]
  <2> DEFINE S == DownMessages \cup {KillCamMessage, [kind |-> "snap", ack |-> lastAppliedSeq']}
  <2>1. down \in Seq(S) /\ msgs \in Seq(S)
    <3>1. KillCamMessage \in S /\ [kind |-> "snap", ack |-> lastAppliedSeq'] \in S /\ DownMessages \subseteq S
      OBVIOUS
    <3>2. cam \in Seq(S) /\ snap \in Seq(S)
      <4> HIDE DEF S
      <4> QED
        BY <3>1
    <3>3. down \in Seq(DownMessages)
      BY DEF TypeOK, ChannelType
    <3> HIDE DEF S, cam, snap
    <3> QED
      BY <3>1, <3>2, <3>3
  <2> HIDE DEF S, msgs
  <2>2. /\ \A i \in DOMAIN down : i \in DOMAIN (down \o msgs) /\ (down \o msgs)[i] = down[i]
        /\ \A i \in DOMAIN (down \o msgs) :
             \/ i \in DOMAIN down /\ (down \o msgs)[i] = down[i]
             \/ i - Len(down) \in DOMAIN msgs /\ (down \o msgs)[i] = msgs[i - Len(down)]
    BY <2>1, Concatenated
  <2> QED
    BY <1>1, <2>2 DEF ToClient
<1> HIDE DEF msgs
<1>11. \A i \in DOMAIN down' : down'[i].kind = "snap" => down'[i].ack <= lastAppliedSeq'
  <2>1. ASSUME NEW i \in DOMAIN down, down[i].kind = "snap"
        PROVE  down[i].ack <= lastAppliedSeq'
    <3>1. down[i] \in DownMessages /\ down[i].ack <= lastAppliedSeq
      BY <2>1 DEF FlowInv, AckInv, TypeOK, ChannelType
    <3>2. down[i].ack \in Nat
      BY <2>1, <3>1 DEF DownMessages
    <3> QED
      BY <1>7, <1>8, <3>1, <3>2
  <2> QED
    BY <1>8, <1>9, <1>10, <2>1
<1>12. (\E i \in DOMAIN down : down[i].kind = "matchStart") => \E i \in DOMAIN down' : down'[i].kind = "matchStart"
  BY <1>10
<1>13. SentSeqs(up)' = SentSeqs(up) /\ Repeated(up', Seqs(pending), seq)
  BY <1>1 DEF SentSeqs, InputAt, Seqs, FlowInv
<1> QED
  <2> DEFINE W == {}
  <2>1. W \subseteq SentSeqs(up) /\ arrived' = arrived \cup W /\ \A t \in W : FALSE
    BY <1>1
  <2>2. Seqs(inputQueue)' \subseteq Seqs(inputQueue) \cup W /\ lastAppliedSeq' \in Reached \cup W
    BY <1>6, <1>7
  <2> HIDE DEF W
  <2> QED
    BY <1>1, <1>7, <1>11, <1>12, <1>13, <2>1, <2>2, ServerFlow

(* The acknowledgement starts again, and nothing is on its way. *)
LEMMA RejoinFlow ==
  ASSUME TypeOK, OrderInv, FlowInv, Rejoin
  PROVE  FlowInv'
<1>1. /\ link = "closed" /\ ~peer /\ link' = "joining"
      /\ inputQueue' = {} /\ lastAppliedSeq' = 0
      /\ down' = <<[kind |-> "welcome"]>> \o MatchStart
      /\ UNCHANGED <<up, seq, pending, reloaded>>
  BY DEF Rejoin, ResetStream, frameVars
<1>2. /\ SentSeqs(up) = {}
  BY <1>1 DEF OrderInv, ClosedInv
<1>3. /\ SentSeqs(up)' = {} /\ Seqs(inputQueue)' = {} /\ Reached' = {0} /\ Seqs(pending)' = Seqs(pending)
  BY <1>1, <1>2 DEF SentSeqs, InputAt, Seqs, Reached
<1>4. /\ \A i \in DOMAIN down' : down'[i].kind # "snap"
      /\ \E i \in DOMAIN down' : down'[i].kind = "matchStart"
  <2> DEFINE clip == [kind |-> "killCam", clip |-> activeKillCamId]
             welcome == [kind |-> "welcome"]
             start == [kind |-> "matchStart"]
             S == {clip, welcome, start}
  <2>1. clip \in S /\ welcome \in S /\ start \in S /\ \A x \in S : x.kind # "snap"
    OBVIOUS
  <2>2. PICK w \in Seq(S) : MatchStart = <<start>> \o w
    <3>1. MatchStart = <<start>> \o <<clip>> \/ MatchStart = <<start>> \o <<>>
      BY DEF MatchStart
    <3> HIDE DEF clip, welcome, start, S
    <3>2. <<clip>> \in Seq(S) /\ <<>> \in Seq(S)
      BY <2>1
    <3> QED
      BY <3>1, <3>2
  <2> HIDE DEF clip, start, S
  <2>3. MatchStart \in Seq(S) /\ MatchStart # <<>> /\ Head(MatchStart) = start
    BY <2>1, <2>2, Ahead
  <2>4. 1 \in 1..Len(MatchStart) /\ MatchStart[1] = start
    BY <2>3
  <2> HIDE DEF welcome
  <2>5. down' \in Seq(S) /\ Len(down') = Len(MatchStart) + 1 /\ down'[2] = start
    <3>1. down' = <<welcome>> \o MatchStart
      BY <1>1 DEF welcome
    <3>2. /\ <<welcome>> \o MatchStart \in Seq(S)
          /\ Len(<<welcome>> \o MatchStart) = Len(MatchStart) + 1
          /\ \A i \in 1..Len(MatchStart) : (<<welcome>> \o MatchStart)[i + 1] = MatchStart[i]
      BY <2>1, <2>3, Ahead
    <3> QED
      BY <2>4, <3>1, <3>2
  <2>6. 2 \in DOMAIN down'
    BY <2>3, <2>5
  <2> QED
    BY <2>1, <2>5, <2>6 DEF start
<1>5. ContiguousInv'
  BY <1>1, <1>3 DEF FlowInv, ContiguousInv
<1>6. AckInv'
  BY <1>1, <1>3, <1>4, SeqTypes DEF AckInv
<1>7. Repeated(up, Seqs(pending), seq)'
  BY <1>1 DEF FlowInv, Repeated, InputAt, Seqs
<1>8. ReachInv'
  <2>1. \A s \in Seqs(pending) : ~(s <= 0)
    BY DEF Seqs, Frames, TypeOK, ClientType
  <2> QED
    BY <1>3, <2>1 DEF ReachInv, Passed
<1>9. CoverInv'
  BY <1>1, <1>4 DEF CoverInv, Settled
<1> QED
  BY <1>5, <1>6, <1>7, <1>8, <1>9 DEF FlowInv

LEMMA FlowInit == Init => FlowInv
<1> SUFFICES ASSUME Init
             PROVE  FlowInv
  OBVIOUS
<1>1. /\ pending = {} /\ inputQueue = {} /\ up = <<>> /\ down = <<>> /\ seq = 0 /\ lastAppliedSeq = 0
      /\ link = "open"
  BY DEF Init
<1>2. Seqs(pending) = {} /\ Seqs(inputQueue) = {} /\ SentSeqs(up) = {} /\ InputAt(up) = {}
  BY <1>1 DEF Seqs, SentSeqs, InputAt
<1> QED
  BY <1>1, <1>2 DEF FlowInv, ContiguousInv, AckInv, Repeated, ReachInv, Passed, Reached, CoverInv

LEMMA FlowStep == TypeOK /\ OrderInv /\ HandoffInv /\ FlowInv /\ [Next]_vars => FlowInv'
<1> SUFFICES ASSUME TypeOK, OrderInv, HandoffInv, FlowInv, [Next]_vars
             PROVE  FlowInv'
  OBVIOUS
<1>1. CASE \E E \in SUBSET Edges, n \in 0..MaxBurst : RenderFrame(E, n)
  BY <1>1, RenderFlow
<1>2. CASE EndReplay
  BY <1>2, EndReplayFlow
<1>3. CASE Close \/ Reload
  BY <1>3, CloseFlow
<1>4. CASE ClientReceive
  BY <1>4, ClientReceiveFlow
<1>5. CASE ServerReceive
  BY <1>5, ServerReceiveFlow
<1>6. CASE ServerTick
  BY <1>6, TickFlow DEF ServerTick
<1>7. CASE Disconnect \/ UNCHANGED vars
  <2>1. /\ UNCHANGED <<link, reloaded, seq, pending, inputQueue, lastAppliedSeq, arrived, down, baseline, up>>
        /\ peer' => peer
    BY <1>7 DEF Disconnect, vars, clientVars, linkVars, frameVars, serverVars, queueVars
  <2>2. SentSeqs(up)' = SentSeqs(up) /\ Repeated(up', Seqs(pending), seq)
    BY <2>1 DEF SentSeqs, InputAt, Seqs, FlowInv
  <2> QED
    BY <2>1, <2>2, FlowKept
<1>8. CASE Rejoin
  BY <1>8, RejoinFlow
<1> QED
  BY <1>1, <1>2, <1>3, <1>4, <1>5, <1>6, <1>7, <1>8 DEF Next

LEMMA AlwaysFlow == Spec => [](TypeOK /\ FlowInv)
<1>1. Init => GateInv
  BY DEF Init, GateInv, HandoffInv, KeeperInv, GateHasKeeper
<1>2. GateInv => HandoffInv
  BY DEF GateInv
<1> QED
  BY <1>1, <1>2, TypeInit, TypeStep, OrderInit, OrderStep, GateStep, FlowInit, FlowStep, PTL DEF Spec

(* No frame is too old when its first copy arrives, after any losses,       *)
(* handoffs and reloads (Room.ts 902, 529): whatever the acknowledgement    *)
(* has passed had arrived before, and what a message repeats is newer than  *)
(* what the redundancy let go.                                              *)
THEOREM FirstCopiesAreFresh == Spec => []FirstCopyIsFresh
<1>1. TypeOK /\ FlowInv => FirstCopyIsFresh
  <2>1. SUFFICES ASSUME TypeOK, FlowInv, NEW i \in DOMAIN up, up[i].kind = "input", NEW f \in up[i].frames
                 PROVE  f.seq \in arrived \/ f.seq > lastAppliedSeq
    BY DEF FirstCopyIsFresh
  <2>2. f.seq \in SentSeqs(up)
    BY <2>1 DEF SentSeqs, InputAt, Seqs
  <2>3. f.seq \in Nat /\ lastAppliedSeq \in Nat /\ lastAppliedSeq \in Reached
    BY <2>1, <2>2, SeqTypes DEF Reached
  <2>4. f.seq <= lastAppliedSeq => f.seq \in arrived
    BY <2>1, <2>2, <2>3 DEF FlowInv, ReachInv
  <2> QED
    BY <2>3, <2>4
<1> QED
  BY <1>1, AlwaysFlow, PTL

(* A client that has heard of the run replays every frame that the server   *)
(* has queued and not applied, as far as its memory of PendingCap frames    *)
(* goes (reconciliation.ts 19).                                             *)
THEOREM ServerIsReplayed == Spec => []ReplayCoversServer
<1>1. TypeOK /\ FlowInv => ReplayCoversServer
  <2>1. SUFFICES ASSUME FlowInv, Settled, NEW s \in Seqs(inputQueue), s > baseline, s > seq - PendingCap,
                        TypeOK
                 PROVE  s \in Seqs(pending)
    BY DEF ReplayCoversServer
  <2>2. s > lastAppliedSeq
    <3>1. s \in Nat /\ lastAppliedSeq \in Nat
      BY <2>1, SeqTypes
    <3> QED
      BY <2>1, <3>1 DEF FlowInv, AckInv
  <2> QED
    BY <2>1, <2>2 DEF FlowInv, CoverInv, Replayed
<1> QED
  BY <1>1, AlwaysFlow, PTL

-----------------------------------------------------------------------------
(* Room's loops over the array of queued frames. *)

(* How many members of a set come before one of them. *)
Before(S, R, f) == {g \in S : <<g, f>> \in R}
Place(S, R, f) == Cardinality(Before(S, R, f))

Orders(S, R) ==
  /\ \A f \in S : <<f, f>> \notin R
  /\ \A f, g \in S : f # g => <<f, g>> \in R \/ <<g, f>> \in R
  /\ \A f, g, h \in S : <<f, g>> \in R /\ <<g, h>> \in R => <<f, h>> \in R

(* The places are 0 and up, each taken once. *)
LEMMA Placed ==
  ASSUME NEW S, IsFiniteSet(S), NEW R, Orders(S, R)
  PROVE  /\ \A f \in S : Place(S, R, f) \in 0..(Cardinality(S) - 1)
         /\ \A f, g \in S : <<f, g>> \in R => Place(S, R, f) < Place(S, R, g)
         /\ \A f, g \in S : Place(S, R, f) = Place(S, R, g) => f = g
         /\ \A n \in 0..(Cardinality(S) - 1) : \E f \in S : Place(S, R, f) = n
<1> DEFINE N == Cardinality(S)
<1>1. N \in Nat
  BY FS_CardinalityType
<1>2. ASSUME NEW f \in S
      PROVE  IsFiniteSet(Before(S, R, f)) /\ Place(S, R, f) \in 0..(N - 1)
  <2>1. Before(S, R, f) \in SUBSET S /\ f \notin Before(S, R, f)
    BY DEF Before, Orders
  <2>2. /\ IsFiniteSet(Before(S, R, f)) /\ Place(S, R, f) <= N
        /\ N = Place(S, R, f) => S = Before(S, R, f)
    BY <2>1, FS_Subset DEF Place
  <2>3. Place(S, R, f) \in Nat
    BY <2>2, FS_CardinalityType DEF Place
  <2> QED
    BY <1>1, <2>1, <2>2, <2>3
<1>3. ASSUME NEW f \in S, NEW g \in S, <<f, g>> \in R
      PROVE  Place(S, R, f) < Place(S, R, g)
  <2>1. Before(S, R, f) \subseteq Before(S, R, g)
    BY <1>3 DEF Before, Orders
  <2>2. f \in Before(S, R, g) /\ f \notin Before(S, R, f)
    BY <1>3 DEF Before, Orders
  <2>3. /\ Place(S, R, f) <= Place(S, R, g)
        /\ Place(S, R, g) = Place(S, R, f) => Before(S, R, g) = Before(S, R, f)
    BY <1>2, <2>1, FS_Subset DEF Place
  <2>4. Place(S, R, f) \in Nat /\ Place(S, R, g) \in Nat
    BY <1>1, <1>2
  <2> QED
    BY <2>2, <2>3, <2>4
<1>4. ASSUME NEW f \in S, NEW g \in S, Place(S, R, f) = Place(S, R, g)
      PROVE  f = g
  <2>1. Place(S, R, f) \in Nat /\ Place(S, R, g) \in Nat
    BY <1>1, <1>2
  <2>2. <<f, g>> \notin R /\ <<g, f>> \notin R
    BY <1>3, <1>4, <2>1
  <2> QED
    BY <2>2 DEF Orders
<1>5. \A n \in 0..(N - 1) : \E f \in S : Place(S, R, f) = n
  <2> DEFINE T == 0..(N - 1)
             p == [f \in S |-> Place(S, R, f)]
  <2>1. p \in Injection(S, T)
    <3>1. \A f \in S : p[f] = Place(S, R, f) /\ p[f] \in T
      BY <1>2
    <3>2. \A f, g \in S : p[f] = p[g] => f = g
      BY <1>4, <3>1
    <3>3. p = [f \in S |-> p[f]]
      OBVIOUS
    <3> HIDE DEF p, T
    <3>4. p \in [S -> T]
      BY <3>1, <3>3
    <3> QED
      BY <3>2, <3>4 DEF Injection, IsInjective
  <2>2. IsFiniteSet(T) /\ Cardinality(T) = N
    <3>1. N - 1 \in Int /\ 0 \in Int /\ N \in Nat
      BY <1>1
    <3> HIDE DEF N, p
    <3>2. IsFiniteSet(T) /\ Cardinality(T) = IF 0 > N - 1 THEN 0 ELSE (N - 1) - 0 + 1
      BY <3>1, FS_Interval
    <3> HIDE DEF T
    <3> QED
      BY <3>1, <3>2
  <2> HIDE DEF T, p
  <2>3. p \in Surjection(S, T)
    BY <2>1, <2>2, FS_Injection
  <2> QED
    BY <2>3 DEF Surjection, p, T
<1> QED
  BY <1>2, <1>3, <1>4, <1>5

(* A set is as large as a list of its members is long. *)
LEMMA Counted ==
  ASSUME NEW T, NEW n \in Nat, NEW q, \A i \in 1..n : q[i] \in T,
         \A i, j \in 1..n : q[i] = q[j] => i = j, \A t \in T : \E i \in 1..n : q[i] = t
  PROVE  Cardinality(T) = n
<1> DEFINE f == [i \in 1..n |-> q[i]]
<1>1. f \in Bijection(1..n, T)
  BY DEF Bijection, Injection, Surjection, IsInjective
<1> HIDE DEF f
<1>2. ExistsBijection(1..n, T)
  BY <1>1 DEF ExistsBijection
<1> QED
  BY <1>2, FS_CountingElements

ByNumber(S) == {p \in S \X S : p[1].seq < p[2].seq}

LEMMA NumbersOrder ==
  ASSUME NEW S, S \subseteq Frames, Unique(S)
  PROVE  /\ Orders(S, ByNumber(S)) /\ IsFiniteSet(S) /\ Cardinality(S) \in Nat
         /\ \A f \in S : Place(S, ByNumber(S), f) = Cardinality(Older(S, f))
<1>1. \A f \in S : f.seq \in Nat
  BY DEF Frames
<1>2. \A f, g \in S : <<f, g>> \in ByNumber(S) <=> f.seq < g.seq
  BY DEF ByNumber
<1>3. Orders(S, ByNumber(S))
  <2>1. \A f, g \in S : f # g => f.seq < g.seq \/ g.seq < f.seq
    BY <1>1 DEF Unique
  <2>2. \A f, g, h \in S : f.seq < g.seq /\ g.seq < h.seq => f.seq < h.seq
    BY <1>1
  <2>3. \A f \in S : ~(f.seq < f.seq)
    BY <1>1
  <2> QED
    BY <1>2, <2>1, <2>2, <2>3 DEF Orders
<1>4. \A f \in S : Before(S, ByNumber(S), f) = Older(S, f)
  BY <1>2 DEF Before, Older
<1> QED
  BY <1>3, <1>4, FramesFinite DEF Place

(* The array of a set holds each of its frames once, in order. *)
LEMMA BySeqIs ==
  ASSUME NEW S, S \subseteq Frames, Unique(S)
  PROVE  /\ BySeq(S) \in Seq(S) /\ Len(BySeq(S)) = Cardinality(S) /\ Cardinality(S) \in Nat
         /\ \A n \in 1..Cardinality(S) : BySeq(S)[n] \in S /\ Cardinality(Older(S, BySeq(S)[n])) = n - 1
         /\ \A i, j \in 1..Cardinality(S) : i < j <=> BySeq(S)[i].seq < BySeq(S)[j].seq
         /\ \A f \in S : \E n \in 1..Cardinality(S) : BySeq(S)[n] = f
<1> DEFINE N == Cardinality(S)
           q == BySeq(S)
<1>1. /\ \A f \in S : Cardinality(Older(S, f)) \in 0..(N - 1)
      /\ \A f, g \in S : f.seq < g.seq => Cardinality(Older(S, f)) < Cardinality(Older(S, g))
      /\ \A f, g \in S : Cardinality(Older(S, f)) = Cardinality(Older(S, g)) => f = g
      /\ \A n \in 0..(N - 1) : \E f \in S : Cardinality(Older(S, f)) = n
  <2> DEFINE R == ByNumber(S)
  <2>1. \A f, g \in S : f.seq < g.seq => <<f, g>> \in R
    BY DEF ByNumber
  <2>2. Orders(S, R) /\ IsFiniteSet(S) /\ \A f \in S : Place(S, R, f) = Cardinality(Older(S, f))
    BY NumbersOrder
  <2> HIDE DEF R
  <2>3. /\ \A f \in S : Place(S, R, f) \in 0..(N - 1)
        /\ \A f, g \in S : <<f, g>> \in R => Place(S, R, f) < Place(S, R, g)
        /\ \A f, g \in S : Place(S, R, f) = Place(S, R, g) => f = g
        /\ \A n \in 0..(N - 1) : \E f \in S : Place(S, R, f) = n
    BY <2>2, Placed
  <2>4. ASSUME NEW f \in S, NEW g \in S, f.seq < g.seq
        PROVE  Cardinality(Older(S, f)) < Cardinality(Older(S, g))
    <3>1. Place(S, R, f) < Place(S, R, g)
      BY <2>1, <2>3, <2>4
    <3>2. Place(S, R, f) = Cardinality(Older(S, f)) /\ Place(S, R, g) = Cardinality(Older(S, g))
      BY <2>2
    <3> QED
      BY ONLY <3>1, <3>2
  <2>5. /\ \A f \in S : Cardinality(Older(S, f)) \in 0..(N - 1)
        /\ \A f, g \in S : Cardinality(Older(S, f)) = Cardinality(Older(S, g)) => f = g
        /\ \A n \in 0..(N - 1) : \E f \in S : Cardinality(Older(S, f)) = n
    BY <2>2, <2>3, Zenon
  <2> QED
    BY <2>4, <2>5
<1>2. N \in Nat
  BY NumbersOrder
<1>3. ASSUME NEW n \in 1..N
      PROVE  q[n] \in S /\ Cardinality(Older(S, q[n])) = n - 1
  <2>1. n - 1 \in 0..(N - 1)
    BY <1>2
  <2>2. \E f \in S : Cardinality(Older(S, f)) = n - 1
    BY <1>1, <2>1
  <2>3. q[n] = CHOOSE f \in S : Cardinality(Older(S, f)) = n - 1
    BY DEF BySeq
  <2> QED
    BY <2>2, <2>3
<1>4. q \in Seq(S) /\ Len(q) = N
  <2>1. q = [n \in 1..N |-> q[n]]
    BY DEF BySeq
  <2>2. q \in [1..N -> S]
    <3> HIDE DEF q
    <3> QED
      BY <1>3, <2>1
  <2> QED
    BY <1>2, <2>2, SeqDef, LenProperties
<1> HIDE DEF q
<1>5. ASSUME NEW i \in 1..N, NEW j \in 1..N
      PROVE  i < j <=> q[i].seq < q[j].seq
  <2>1. q[i] \in S /\ q[j] \in S /\ q[i].seq \in Nat /\ q[j].seq \in Nat
    BY <1>3 DEF Frames
  <2>2. q[i].seq = q[j].seq => q[i] = q[j]
    BY <2>1 DEF Unique
  <2>3. /\ q[i].seq < q[j].seq => i - 1 < j - 1
        /\ q[j].seq < q[i].seq => j - 1 < i - 1
        /\ q[i] = q[j] => i - 1 = j - 1
    BY <1>1, <1>3, <2>1
  <2> QED
    BY <1>2, <2>1, <2>2, <2>3
<1>6. ASSUME NEW f \in S
      PROVE  \E n \in 1..N : q[n] = f
  <2>1. Cardinality(Older(S, f)) \in 0..(N - 1)
    BY <1>1
  <2> DEFINE n == Cardinality(Older(S, f)) + 1
  <2>2. n \in 1..N /\ n - 1 = Cardinality(Older(S, f))
    BY <1>2, <2>1
  <2> QED
    BY <1>1, <1>3, <2>2
<1> QED
  BY <1>2, <1>3, <1>4, <1>5, <1>6 DEF q

(* It is the only list that does. *)
LEMMA BySeqOnly ==
  ASSUME NEW S, S \subseteq Frames, Unique(S), NEW n \in Nat, NEW q, q \in Seq(S), Len(q) = n,
         \A i, j \in 1..n : i < j => q[i].seq < q[j].seq,
         \A f \in S : \E i \in 1..n : q[i] = f
  PROVE  q = BySeq(S)
<1> DEFINE b == BySeq(S)
<1>1. \A i \in 1..n : q[i] \in S /\ q[i].seq \in Nat
  BY DEF Frames
<1>2. \A i, j \in 1..n : i < j <=> q[i].seq < q[j].seq
  <2> TAKE i \in 1..n, j \in 1..n
  <2>1. /\ i < j => q[i].seq < q[j].seq
        /\ j < i => q[j].seq < q[i].seq
        /\ i = j => q[i].seq = q[j].seq
    OBVIOUS
  <2>2. i \in Nat /\ j \in Nat /\ q[i].seq \in Nat /\ q[j].seq \in Nat
    BY <1>1
  <2> QED
    BY ONLY <2>1, <2>2
<1>3. \A i, j \in 1..n : q[i] = q[j] => i = j
  BY <1>1, <1>2
<1>4. Cardinality(S) = n
  <2>1. /\ n \in Nat /\ \A i \in 1..n : q[i] \in S
        /\ \A i, j \in 1..n : q[i] = q[j] => i = j
        /\ \A f \in S : \E i \in 1..n : q[i] = f
    BY <1>1, <1>3
  <2> QED
    BY ONLY <2>1, Counted
<1>5. ASSUME NEW m \in 1..n
      PROVE  Cardinality(Older(S, q[m])) = m - 1
  <2>1. m - 1 \in Nat /\ \A i \in 1..(m - 1) : i \in 1..n /\ i < m
    OBVIOUS
  <2>2. \A i \in 1..(m - 1) : q[i] \in Older(S, q[m])
    BY <1>1, <2>1 DEF Older
  <2>3. \A i, j \in 1..(m - 1) : q[i] = q[j] => i = j
    BY <1>3, <2>1
  <2>4. ASSUME NEW g \in Older(S, q[m])
        PROVE  \E i \in 1..(m - 1) : q[i] = g
    <3>1. PICK i \in 1..n : q[i] = g
      BY DEF Older
    <3>2. i < m
      BY <1>2, <3>1 DEF Older
    <3>3. i \in 1..(m - 1)
      BY <3>2
    <3> QED
      BY <3>1, <3>3
  <2> DEFINE T == Older(S, q[m])
             k == m - 1
  <2>5. /\ k \in Nat /\ \A i \in 1..k : q[i] \in T
        /\ \A i, j \in 1..k : q[i] = q[j] => i = j
        /\ \A g \in T : \E i \in 1..k : q[i] = g
    BY <2>1, <2>2, <2>3, <2>4
  <2> HIDE DEF T, k
  <2>6. Cardinality(T) = k
    BY ONLY <2>5, Counted
  <2> QED
    BY <2>6 DEF T, k
<1>6. \A m \in 1..n : b[m] \in S /\ Cardinality(Older(S, b[m])) = m - 1
  BY <1>4, BySeqIs
<1>7. \A m \in 1..n : q[m] = b[m]
  <2> TAKE m \in 1..n
  <2>1. \A f, g \in S : Cardinality(Older(S, f)) = Cardinality(Older(S, g)) => f = g
    BY NumbersOrder, Placed
  <2> QED
    BY <1>1, <1>5, <1>6, <2>1
<1>8. b \in Seq(S) /\ Len(b) = n
  BY <1>4, BySeqIs
<1> HIDE DEF b
<1>9. q = b
  BY <1>7, <1>8, SeqEqual
<1> QED
  BY <1>9 DEF b

(* What splice leaves where. *)
IsRemoved(S, q, k, t) ==
  /\ t \in Seq(S) /\ Len(t) = Len(q) - 1
  /\ \A i \in 1..(Len(q) - 1) : t[i] = IF i < k THEN q[i] ELSE q[i + 1]
IsInserted(S, q, k, f, t) ==
  /\ t \in Seq(S) /\ Len(t) = Len(q) + 1
  /\ \A i \in 1..(Len(q) + 1) : t[i] = IF i < k THEN q[i] ELSE IF i = k THEN f ELSE q[i - 1]

LEMMA RemoveAtIs ==
  ASSUME NEW S, NEW q, NEW k, q \in Seq(S), k \in 1..Len(q)
  PROVE  IsRemoved(S, q, k, RemoveAt(q, k))
<1> DEFINE a == SubSeq(q, 1, k - 1)
           b == SubSeq(q, k + 1, Len(q))
           t == RemoveAt(q, k)
<1>1. /\ Len(q) \in Nat /\ DOMAIN q = 1..Len(q) /\ k \in Nat /\ 1 <= k /\ k <= Len(q)
      /\ \A i \in 1..Len(q) : q[i] \in S
  BY LenProperties
<1>2. a \in Seq(S) /\ Len(a) = k - 1 /\ \A i \in 1..(k - 1) : a[i] = q[i]
  <2>1. \A i \in 1..(k - 1) : q[i] \in S
    BY <1>1
  <2>2. /\ a \in Seq(S) /\ Len(a) = IF 1 <= k - 1 THEN k - 1 - 1 + 1 ELSE 0
        /\ \A i \in 1..(k - 1 - 1 + 1) : a[i] = q[1 + i - 1]
    BY <1>1, <2>1, SubSeqProperties
  <2> HIDE DEF a
  <2> QED
    BY <1>1, <2>2
<1>3. b \in Seq(S) /\ Len(b) = Len(q) - k /\ \A i \in 1..(Len(q) - k) : b[i] = q[k + i]
  <2>1. \A i \in (k + 1)..Len(q) : q[i] \in S
    BY <1>1
  <2>2. /\ b \in Seq(S) /\ Len(b) = IF k + 1 <= Len(q) THEN Len(q) - (k + 1) + 1 ELSE 0
        /\ \A i \in 1..(Len(q) - (k + 1) + 1) : b[i] = q[k + 1 + i - 1]
    BY <1>1, <2>1, SubSeqProperties
  <2> HIDE DEF b
  <2>3. \A i \in 1..(Len(q) - k) : i \in 1..(Len(q) - (k + 1) + 1) /\ k + 1 + i - 1 = k + i
    BY <1>1
  <2>4. Len(b) = Len(q) - k
    <3>1. k + 1 <= Len(q) \/ k = Len(q)
      <4> DEFINE n == Len(q)
      <4>1. n \in Nat /\ k \in Nat /\ k <= n
        BY <1>1
      <4> HIDE DEF n
      <4>2. k + 1 <= n \/ k = n
        BY ONLY <4>1
      <4> QED
        BY <4>2 DEF n
    <3>2. Len(b) = IF k + 1 <= Len(q) THEN Len(q) - (k + 1) + 1 ELSE 0
      BY ONLY <2>2
    <3>3. CASE k + 1 <= Len(q)
      BY <1>1, <3>2, <3>3
    <3>4. CASE k = Len(q)
      BY <1>1, <3>2, <3>4
    <3> QED
      BY <3>1, <3>3, <3>4
  <2> QED
    BY <2>2, <2>3, <2>4
<1>4. t = a \o b
  BY DEF RemoveAt
<1> HIDE DEF a, b, t
<1>5. /\ t \in Seq(S) /\ Len(t) = Len(a) + Len(b)
      /\ \A i \in 1..(Len(a) + Len(b)) : t[i] = IF i <= Len(a) THEN a[i] ELSE b[i - Len(a)]
  BY <1>2, <1>3, <1>4, ConcatProperties
<1>6. Len(a) + Len(b) = Len(q) - 1
  BY <1>1, <1>2, <1>3
<1>7. ASSUME NEW i \in 1..(Len(q) - 1)
      PROVE  t[i] = IF i < k THEN q[i] ELSE q[i + 1]
  <2>1. t[i] = IF i <= k - 1 THEN a[i] ELSE b[i - (k - 1)]
    BY <1>2, <1>5, <1>6
  <2>2. CASE i < k
    <3>1. i \in 1..(k - 1) /\ i <= k - 1
      BY <1>1, <2>2
    <3> QED
      BY <1>2, <2>1, <2>2, <3>1
  <2>3. CASE ~(i < k)
    <3>1. i - (k - 1) \in 1..(Len(q) - k) /\ k + (i - (k - 1)) = i + 1 /\ ~(i <= k - 1)
      BY <1>1, <2>3
    <3>2. b[i - (k - 1)] = q[i + 1]
      BY <1>3, <3>1
    <3> QED
      BY <2>1, <2>3, <3>1, <3>2
  <2> QED
    BY <2>2, <2>3
<1> QED
  BY <1>5, <1>6, <1>7 DEF t, IsRemoved

LEMMA InsertAtIs ==
  ASSUME NEW S, NEW q, NEW k, NEW f, q \in Seq(S), k \in 1..Len(q), f \in S
  PROVE  IsInserted(S, q, k, f, InsertAt(q, k, f))
<1> DEFINE a == SubSeq(q, 1, k - 1)
           b == SubSeq(q, k, Len(q))
           c == a \o <<f>>
           t == InsertAt(q, k, f)
<1>1. /\ Len(q) \in Nat /\ DOMAIN q = 1..Len(q) /\ k \in Nat /\ 1 <= k /\ k <= Len(q)
      /\ \A i \in 1..Len(q) : q[i] \in S
  BY LenProperties
<1>2. a \in Seq(S) /\ Len(a) = k - 1 /\ \A i \in 1..(k - 1) : a[i] = q[i]
  <2>1. \A i \in 1..(k - 1) : q[i] \in S
    BY <1>1
  <2>2. /\ a \in Seq(S) /\ Len(a) = IF 1 <= k - 1 THEN k - 1 - 1 + 1 ELSE 0
        /\ \A i \in 1..(k - 1 - 1 + 1) : a[i] = q[1 + i - 1]
    BY <1>1, <2>1, SubSeqProperties
  <2> HIDE DEF a
  <2> QED
    BY <1>1, <2>2
<1>3. b \in Seq(S) /\ Len(b) = Len(q) - k + 1 /\ \A i \in 1..(Len(q) - k + 1) : b[i] = q[k + i - 1]
  <2>1. \A i \in k..Len(q) : q[i] \in S
    BY <1>1
  <2>2. /\ b \in Seq(S) /\ Len(b) = IF k <= Len(q) THEN Len(q) - k + 1 ELSE 0
        /\ \A i \in 1..(Len(q) - k + 1) : b[i] = q[k + i - 1]
    BY <1>1, <2>1, SubSeqProperties
  <2> HIDE DEF b
  <2> QED
    BY <1>1, <2>2
<1>4. t = c \o b
  BY DEF InsertAt
<1> HIDE DEF b
<1>5. c \in Seq(S) /\ Len(c) = k /\ \A i \in 1..k : c[i] = IF i < k THEN q[i] ELSE f
  <2> HIDE DEF a
  <2>1. <<f>> \in Seq(S) /\ Len(<<f>>) = 1 /\ <<f>>[1] = f
    OBVIOUS
  <2>2. /\ c \in Seq(S) /\ Len(c) = Len(a) + Len(<<f>>)
        /\ \A i \in 1..(Len(a) + Len(<<f>>)) : c[i] = IF i <= Len(a) THEN a[i] ELSE <<f>>[i - Len(a)]
    BY <1>2, <2>1, ConcatProperties
  <2> HIDE DEF c
  <2>3. Len(a) + Len(<<f>>) = k
    BY <1>1, <1>2, <2>1
  <2>4. ASSUME NEW i \in 1..k
        PROVE  c[i] = IF i < k THEN q[i] ELSE f
    <3>1. c[i] = IF i <= k - 1 THEN a[i] ELSE <<f>>[i - (k - 1)]
      BY <1>2, <2>2, <2>3
    <3>2. CASE i < k
      <4>1. i \in 1..(k - 1) /\ i <= k - 1
        BY <1>1, <3>2
      <4> QED
        BY <1>2, <3>1, <3>2, <4>1
    <3>3. CASE ~(i < k)
      <4>1. i - (k - 1) = 1 /\ ~(i <= k - 1)
        BY <1>1, <3>3
      <4> QED
        BY <2>1, <3>1, <3>3, <4>1
    <3> QED
      BY <3>2, <3>3
  <2> QED
    BY <2>2, <2>3, <2>4
<1> HIDE DEF c, t
<1>6. /\ t \in Seq(S) /\ Len(t) = Len(c) + Len(b)
      /\ \A i \in 1..(Len(c) + Len(b)) : t[i] = IF i <= Len(c) THEN c[i] ELSE b[i - Len(c)]
  BY <1>3, <1>4, <1>5, ConcatProperties
<1>7. Len(c) + Len(b) = Len(q) + 1
  BY <1>1, <1>3, <1>5
<1>8. ASSUME NEW i \in 1..(Len(q) + 1)
      PROVE  t[i] = IF i < k THEN q[i] ELSE IF i = k THEN f ELSE q[i - 1]
  <2>1. t[i] = IF i <= k THEN c[i] ELSE b[i - k]
    BY <1>5, <1>6, <1>7
  <2>2. CASE i <= k
    <3>1. i \in 1..k /\ (i < k \/ i = k)
      BY <1>1, <2>2
    <3> QED
      BY <1>1, <1>5, <2>1, <2>2, <3>1
  <2>3. CASE ~(i <= k)
    <3>1. i - k \in 1..(Len(q) - k + 1) /\ k + (i - k) - 1 = i - 1 /\ ~(i < k) /\ i # k
      BY <1>1, <2>3
    <3>2. b[i - k] = q[i - 1]
      BY <1>3, <3>1
    <3> QED
      BY <2>1, <2>3, <3>1, <3>2
  <2> QED
    BY <2>2, <2>3
<1> QED
  BY <1>6, <1>7, <1>8 DEF t, IsInserted

LEMMA FirstIs ==
  ASSUME NEW I, I \subseteq Nat, I # {}
  PROVE  First(I) \in I /\ \A i \in I : First(I) <= i
BY LeastExists DEF First

(* One frame inserted by the loop. *)
LEMMA InsertFrameIs ==
  ASSUME NEW S, S \subseteq Frames, Unique(S), NEW f \in Frames
  PROVE  InsertFrame(BySeq(S), f) =
           IF f.seq <= lastAppliedSeq \/ f.seq \in Seqs(S) THEN BySeq(S) ELSE BySeq(S \cup {f})
<1> DEFINE q == BySeq(S)
           N == Cardinality(S)
           newer == {i \in DOMAIN q : q[i].seq > f.seq}
           W == S \cup {f}
<1>1. /\ q \in Seq(S) /\ Len(q) = N /\ N \in Nat
      /\ \A i \in 1..N : q[i] \in S
      /\ \A i, j \in 1..N : i < j <=> q[i].seq < q[j].seq
      /\ \A g \in S : \E i \in 1..N : q[i] = g
  BY BySeqIs
<1> HIDE DEF q, N
<1>2. DOMAIN q = 1..N
  BY <1>1
<1>3. f.seq \in Nat /\ \A i \in 1..N : q[i].seq \in Nat
  BY <1>1 DEF Frames
<1>4. (\E i \in DOMAIN q : q[i].seq = f.seq) <=> f.seq \in Seqs(S)
  BY <1>1, <1>2 DEF Seqs
<1>5. CASE f.seq <= lastAppliedSeq \/ f.seq \in Seqs(S)
  BY <1>4, <1>5 DEF InsertFrame, q
<1>6. CASE ~(f.seq <= lastAppliedSeq \/ f.seq \in Seqs(S))
  <2>1. InsertFrame(q, f) = IF newer = {} THEN Append(q, f) ELSE InsertAt(q, First(newer), f)
    BY <1>4, <1>6 DEF InsertFrame
  <2>2. \A i \in 1..N : q[i].seq < f.seq \/ f.seq < q[i].seq
    BY <1>2, <1>3, <1>4, <1>6
  <2>3. W \subseteq Frames /\ Unique(W)
    <3>1. \A g \in S : g.seq # f.seq
      BY <1>6 DEF Seqs
    <3> QED
      BY <3>1 DEF Unique
  <2>4. q \in Seq(W) /\ f \in W
    BY <1>1
  <2>5. CASE newer = {}
    <3> DEFINE t == Append(q, f)
    <3>1. t \in Seq(W) /\ Len(t) = N + 1 /\ t[N + 1] = f /\ \A i \in 1..N : t[i] = q[i]
      BY <1>1, <2>4, AppendProperties
    <3>2. \A i \in 1..N : q[i].seq < f.seq
      BY <1>2, <1>3, <2>2, <2>5
    <3> HIDE DEF t
    <3>3. \A i, j \in 1..(N + 1) : i < j => t[i].seq < t[j].seq
      <4> SUFFICES ASSUME NEW i \in 1..(N + 1), NEW j \in 1..(N + 1), i < j PROVE t[i].seq < t[j].seq
        OBVIOUS
      <4>1. i \in 1..N /\ (j \in 1..N \/ j = N + 1)
        BY <1>1
      <4> QED
        BY <1>1, <3>1, <3>2, <4>1
    <3>4. \A g \in W : \E i \in 1..(N + 1) : t[i] = g
      <4> TAKE g \in W
      <4>1. CASE g = f
        BY <1>1, <3>1, <4>1
      <4>2. CASE g \in S
        <5>1. PICK i \in 1..N : q[i] = g
          BY <1>1, <4>2
        <5>2. i \in 1..(N + 1) /\ t[i] = g
          BY <1>1, <3>1, <5>1
        <5> QED
          BY <5>2
      <4> QED
        BY <4>1, <4>2
    <3> HIDE DEF W
    <3>5. t = BySeq(W)
      <4> DEFINE M == N + 1
      <4>1. W \subseteq Frames /\ Unique(W) /\ M \in Nat /\ t \in Seq(W) /\ Len(t) = M
        BY <1>1, <2>3, <3>1
      <4>2. /\ \A i, j \in 1..M : i < j => t[i].seq < t[j].seq
            /\ \A g \in W : \E i \in 1..M : t[i] = g
        BY <3>3, <3>4
      <4> HIDE DEF M
      <4> QED
        BY ONLY <4>1, <4>2, BySeqOnly
    <3> QED
      BY <1>6, <2>1, <2>5, <3>5 DEF t, q, W
  <2>6. CASE newer # {}
    <3> DEFINE k == First(newer)
               t == InsertAt(q, k, f)
    <3>1. k \in newer /\ \A i \in newer : k <= i
      <4>1. newer \subseteq Nat
        BY <1>2
      <4> HIDE DEF newer
      <4> QED
        BY <2>6, <4>1, FirstIs
    <3>2. k \in 1..N /\ q[k].seq > f.seq
      BY <1>2, <3>1
    <3> HIDE DEF k
    <3>3. \A i \in 1..N : i < k => q[i].seq < f.seq
      <4> TAKE i \in 1..N
      <4>1. i \in newer => k <= i
        BY <3>1
      <4>2. k \in Nat /\ i \in Nat
        BY <1>1, <3>2
      <4> QED
        BY <1>2, <2>2, <4>1, <4>2, <1>3
    <3>4. \A i \in 1..N : k <= i => f.seq < q[i].seq
      <4> SUFFICES ASSUME NEW i \in 1..N, k <= i PROVE f.seq < q[i].seq
        OBVIOUS
      <4>1. k = i \/ k < i
        BY <1>1, <3>2
      <4> QED
        BY <1>1, <1>3, <3>2, <4>1
    <3>5. /\ t \in Seq(W) /\ Len(t) = N + 1
          /\ \A i \in 1..(N + 1) : t[i] = IF i < k THEN q[i] ELSE IF i = k THEN f ELSE q[i - 1]
      <4> HIDE DEF W
      <4>1. Len(q) = N /\ k \in 1..Len(q)
        BY <1>1, <3>2
      <4>2. /\ t \in Seq(W) /\ Len(t) = Len(q) + 1
            /\ \A i \in 1..(Len(q) + 1) : t[i] = IF i < k THEN q[i] ELSE IF i = k THEN f ELSE q[i - 1]
        <5>1. IsInserted(W, q, k, f, t)
          BY <2>4, <4>1, InsertAtIs
        <5> HIDE DEF t
        <5> QED
          BY <5>1 DEF IsInserted
      <4> HIDE DEF t
      <4> QED
        BY ONLY <4>1, <4>2
    <3> HIDE DEF t
    <3>6. \A i, j \in 1..(N + 1) : i < j => t[i].seq < t[j].seq
      <4> SUFFICES ASSUME NEW i \in 1..(N + 1), NEW j \in 1..(N + 1), i < j PROVE t[i].seq < t[j].seq
        OBVIOUS
      <4>1. i \in Nat /\ j \in Nat /\ k \in Nat /\ N \in Nat /\ k <= N
        BY <1>1, <3>2
      <4>2. CASE j < k
        <5>1. i \in 1..N /\ j \in 1..N /\ i < k
          BY <4>1, <4>2
        <5> QED
          BY <1>1, <3>5, <4>2, <5>1
      <4>3. CASE j = k
        <5>1. i \in 1..N /\ i < k /\ ~(j < k)
          BY <4>1, <4>3
        <5> QED
          BY <3>3, <3>5, <4>3, <5>1
      <4>4. CASE k < j
        <5>1. j - 1 \in 1..N /\ k <= j - 1 /\ ~(j < k) /\ j # k
          BY <4>1, <4>4
        <5>2. t[j] = q[j - 1]
          BY <3>5, <5>1
        <5>3. CASE i < k
          <6>1. i \in 1..N /\ i < j - 1
            BY <4>1, <5>1, <5>3
          <6> QED
            BY <1>1, <3>5, <5>1, <5>2, <5>3, <6>1
        <5>4. CASE i = k
          <6>1. t[i] = f
            BY <3>5, <4>1, <5>4
          <6> QED
            BY <3>4, <5>1, <5>2, <6>1
        <5>5. CASE k < i
          <6>1. i - 1 \in 1..N /\ i - 1 < j - 1 /\ ~(i < k) /\ i # k
            BY <3>2, <4>1, <5>5
          <6>2. t[i] = q[i - 1]
            BY <3>5, <6>1
          <6> QED
            BY <1>1, <5>1, <5>2, <6>1, <6>2
        <5> QED
          BY <4>1, <5>3, <5>4, <5>5
      <4> QED
        BY <4>1, <4>2, <4>3, <4>4
    <3>7. \A g \in W : \E i \in 1..(N + 1) : t[i] = g
      <4> TAKE g \in W
      <4>0. k \in Nat /\ N \in Nat /\ k <= N /\ 1 <= k
        BY <1>1, <3>2
      <4>1. CASE g = f
        <5>1. k \in 1..(N + 1) /\ t[k] = f
          BY <3>5, <4>0
        <5> QED
          BY <4>1, <5>1
      <4>2. CASE g \in S
        <5>1. PICK i \in 1..N : q[i] = g
          BY <1>1, <4>2
        <5>2. CASE i < k
          <6>1. i \in 1..(N + 1) /\ t[i] = g
            BY <3>5, <4>0, <5>1, <5>2
          <6> QED
            BY <6>1
        <5>3. CASE ~(i < k)
          <6>1. i + 1 \in 1..(N + 1) /\ ~(i + 1 < k) /\ i + 1 # k /\ (i + 1) - 1 = i
            BY <4>0, <5>3
          <6>2. t[i + 1] = g
            BY <3>5, <5>1, <6>1
          <6> QED
            BY <6>1, <6>2
        <5> QED
          BY <5>2, <5>3
      <4> QED
        BY <4>1, <4>2
    <3> HIDE DEF W
    <3>8. t = BySeq(W)
      <4> DEFINE M == N + 1
      <4>1. W \subseteq Frames /\ Unique(W) /\ M \in Nat /\ t \in Seq(W) /\ Len(t) = M
        BY <1>1, <2>3, <3>5
      <4>2. /\ \A i, j \in 1..M : i < j => t[i].seq < t[j].seq
            /\ \A g \in W : \E i \in 1..M : t[i] = g
        BY <3>6, <3>7
      <4> HIDE DEF M
      <4> QED
        BY ONLY <4>1, <4>2, BySeqOnly
    <3> QED
      BY <1>6, <2>1, <2>6, <3>8 DEF t, k, q, W
  <2> QED
    BY <2>5, <2>6
<1> QED
  BY <1>5, <1>6 DEF q

(* The frames a message leaves in the queue once its first n are inserted. *)
JoinedBy(S, q, n) ==
  S \cup {f \in Frames : f.seq > lastAppliedSeq /\ f.seq \notin Seqs(S) /\ \E i \in 1..n : q[i] = f}

LEMMA InsertStep ==
  ASSUME NEW S, S \subseteq Frames, Unique(S), NEW F, F \subseteq Frames, Unique(F),
         lastAppliedSeq \in Nat, NEW n \in 1..Cardinality(F)
  PROVE  InsertFrame(BySeq(JoinedBy(S, BySeq(F), n - 1)), BySeq(F)[n]) = BySeq(JoinedBy(S, BySeq(F), n))
<1> DEFINE q == BySeq(F)
           f == q[n]
           A == JoinedBy(S, q, n - 1)
           B == JoinedBy(S, q, n)
<1>1. /\ Cardinality(F) \in Nat /\ \A i \in 1..Cardinality(F) : q[i] \in F
      /\ \A i, j \in 1..Cardinality(F) : i < j <=> q[i].seq < q[j].seq
  BY BySeqIs
<1> HIDE DEF q
<1>2. f \in F /\ f \in Frames /\ f.seq \in Nat
  BY <1>1 DEF Frames
<1>3. n \in Nat /\ n - 1 \in Nat /\ \A i \in 1..(n - 1) : i \in 1..n /\ i \in 1..Cardinality(F) /\ i < n
  BY <1>1
<1>4. \A i \in 1..n : i = n \/ i \in 1..(n - 1)
  BY <1>3
<1>5. \A i \in 1..(n - 1) : q[i].seq # f.seq /\ q[i] \in F
  <2> TAKE i \in 1..(n - 1)
  <2>1. q[i].seq < f.seq /\ q[i] \in F
    BY <1>1, <1>3
  <2> QED
    BY <1>2, <2>1 DEF Frames
<1>6. A \subseteq Frames /\ Unique(A)
  <2>1. ASSUME NEW g \in A, NEW h \in A, g.seq = h.seq
        PROVE  g = h
    <3>1. \A x \in A : x \in S \/ (x \in F /\ x.seq \notin Seqs(S))
      BY <1>5 DEF JoinedBy
    <3>2. \A x \in S : x.seq \in Seqs(S)
      BY DEF Seqs
    <3>3. (g \in S /\ h \in S) \/ (g \in F /\ h \in F)
      BY <2>1, <3>1, <3>2
    <3> QED
      BY <2>1, <3>3 DEF Unique
  <2>2. A \subseteq Frames
    BY DEF JoinedBy
  <2> QED
    BY <2>1, <2>2 DEF Unique
<1>7. f.seq \in Seqs(A) <=> f.seq \in Seqs(S)
  <2>1. \A g \in A : g \in S \/ g.seq # f.seq
    BY <1>5 DEF JoinedBy
  <2>2. S \subseteq A
    BY DEF JoinedBy
  <2> QED
    BY <2>1, <2>2 DEF Seqs
<1>8. B = IF f.seq <= lastAppliedSeq \/ f.seq \in Seqs(S) THEN A ELSE A \cup {f}
  <2>1. \A g : (\E i \in 1..n : q[i] = g) <=> g = f \/ \E i \in 1..(n - 1) : q[i] = g
    BY <1>3, <1>4
  <2>2. f.seq <= lastAppliedSeq <=> ~(f.seq > lastAppliedSeq)
    BY <1>2
  <2>3. \A g : g \in B <=> g \in A \/ (g = f /\ f.seq > lastAppliedSeq /\ f.seq \notin Seqs(S))
    BY <1>2, <2>1, Zenon DEF JoinedBy
  <2> HIDE DEF A, B, f
  <2>4. CASE f.seq > lastAppliedSeq /\ f.seq \notin Seqs(S)
    BY <2>2, <2>3, <2>4
  <2>5. CASE ~(f.seq > lastAppliedSeq /\ f.seq \notin Seqs(S))
    BY <2>2, <2>3, <2>5
  <2> QED
    BY <2>4, <2>5
<1> HIDE DEF A, B, f
<1>9. InsertFrame(BySeq(A), f) = IF f.seq <= lastAppliedSeq \/ f.seq \in Seqs(A) THEN BySeq(A) ELSE BySeq(A \cup {f})
  BY <1>2, <1>6, InsertFrameIs
<1>10. InsertFrame(BySeq(A), f) = BySeq(B)
  BY <1>7, <1>8, <1>9
<1> QED
  BY <1>10 DEF A, B, f, q

LEMMA InsertFramesIs ==
  ASSUME NEW S, S \subseteq Frames, Unique(S), NEW F, F \subseteq Frames, Unique(F), lastAppliedSeq \in Nat
  PROVE  InsertFrames(BySeq(S), BySeq(F)) =
           BySeq(S \cup {f \in F : f.seq > lastAppliedSeq /\ f.seq \notin Seqs(S)})
<1> DEFINE q == BySeq(F)
           N == Len(q)
           IsLoop(g) == g = [n \in 0..N |-> IF n = 0 THEN BySeq(S) ELSE InsertFrame(g[n - 1], q[n])]
           closed == [n \in 0..N |-> BySeq(JoinedBy(S, q, n))]
           at == CHOOSE g : IsLoop(g)
<1>1. /\ N = Cardinality(F) /\ N \in Nat /\ \A i \in 1..N : q[i] \in F
      /\ \A f \in F : \E i \in 1..N : q[i] = f
  BY BySeqIs
<1>2. InsertFrames(BySeq(S), q) = at[N]
  BY DEF InsertFrames
<1>3. JoinedBy(S, q, 0) = S
  BY DEF JoinedBy
<1>4. ASSUME NEW n \in 1..N
      PROVE  InsertFrame(BySeq(JoinedBy(S, q, n - 1)), q[n]) = BySeq(JoinedBy(S, q, n))
  <2>1. n \in 1..Cardinality(F)
    BY <1>1
  <2> QED
    BY <2>1, InsertStep
<1>5. JoinedBy(S, q, N) = S \cup {f \in F : f.seq > lastAppliedSeq /\ f.seq \notin Seqs(S)}
  BY <1>1 DEF JoinedBy
<1> HIDE DEF q, N
<1>6. \A n \in 0..N : n # 0 => n \in 1..N /\ n - 1 \in 0..N
  BY <1>1
<1>7. IsLoop(closed)
  <2>1. ASSUME NEW n \in 0..N
        PROVE  closed[n] = IF n = 0 THEN BySeq(S) ELSE InsertFrame(closed[n - 1], q[n])
    BY <1>3, <1>4, <1>6
  <2> QED
    BY <2>1
<1>8. IsLoop(at)
  <2> HIDE DEF IsLoop, closed
  <2> QED
    BY <1>7
<1> HIDE DEF at
<1>9. \A n \in 0..N : at[n] = closed[n]
  <2> DEFINE bad == {n \in 0..N : at[n] # closed[n]}
  <2>1. CASE bad # {}
    <3>1. PICK n \in bad : \A m \in bad : n <= m
      <4>1. bad \subseteq Nat
        OBVIOUS
      <4> HIDE DEF bad
      <4> QED
        BY <2>1, <4>1, LeastExists
    <3>2. n \in 0..N /\ at[n] # closed[n]
      BY <3>1
    <3>3. CASE n = 0
      BY <1>7, <1>8, <3>2, <3>3
    <3>4. CASE n # 0
      <4>1. n - 1 \in 0..N /\ ~(n <= n - 1)
        BY <1>6, <3>2, <3>4
      <4>2. at[n - 1] = closed[n - 1]
        BY <3>1, <4>1
      <4>3. at[n] = InsertFrame(at[n - 1], q[n])
        BY <1>8, <3>2, <3>4
      <4>4. closed[n] = InsertFrame(closed[n - 1], q[n])
        BY <1>7, <3>2, <3>4
      <4> QED
        BY <3>2, <4>2, <4>3, <4>4
    <3> QED
      BY <3>3, <3>4
  <2> QED
    BY <2>1
<1>10. at[N] = BySeq(JoinedBy(S, q, N))
  BY <1>1, <1>9
<1> HIDE DEF at, closed
<1> QED
  BY <1>2, <1>5, <1>10 DEF q

(* The array after a splice is the array of the set without that frame. *)
LEMMA RemovedIs ==
  ASSUME NEW X, X \subseteq Frames, Unique(X), NEW d \in 1..Cardinality(X)
  PROVE  RemoveAt(BySeq(X), d) = BySeq(X \ {BySeq(X)[d]})
<1> DEFINE q == BySeq(X)
           N == Cardinality(X)
           x == q[d]
           Y == X \ {x}
           t == RemoveAt(q, d)
           M == N - 1
<1>1. /\ q \in Seq(X) /\ Len(q) = N /\ N \in Nat
      /\ \A i \in 1..N : q[i] \in X
      /\ \A i, j \in 1..N : i < j <=> q[i].seq < q[j].seq
      /\ \A g \in X : \E i \in 1..N : q[i] = g
  BY BySeqIs
<1> HIDE DEF q
<1>2. /\ t \in Seq(X) /\ Len(t) = M
      /\ \A i \in 1..M : t[i] = IF i < d THEN q[i] ELSE q[i + 1]
  <2>1. d \in 1..Len(q)
    BY <1>1
  <2>2. IsRemoved(X, q, d, t)
    BY <1>1, <2>1, RemoveAtIs
  <2> HIDE DEF t
  <2> QED
    BY <1>1, <2>2 DEF IsRemoved
<1>3. d \in 1..N /\ d \in Nat /\ 1 <= d /\ d <= N /\ M \in Nat /\ M + 1 = N
  BY <1>1
<1> HIDE DEF t, N
<1>4. ASSUME NEW i \in 1..M
      PROVE  \E j \in 1..N : t[i] = q[j] /\ j # d /\ j = IF i < d THEN i ELSE i + 1
  <2>1. i \in 1..N /\ i + 1 \in 1..N
    BY <1>3
  <2>2. CASE i < d
    BY <1>2, <1>3, <2>1, <2>2
  <2>3. CASE ~(i < d)
    BY <1>2, <1>3, <2>1, <2>3
  <2> QED
    BY <2>2, <2>3
<1>5. \A i, j \in 1..N : i # j => q[i] # q[j]
  <2> SUFFICES ASSUME NEW i \in 1..N, NEW j \in 1..N, i # j, q[i] = q[j] PROVE FALSE
    OBVIOUS
  <2>1. q[i] \in Frames /\ q[i].seq \in Nat
    BY <1>1 DEF Frames
  <2>2. i < j \/ j < i
    BY <1>3
  <2> QED
    BY <1>1, <2>1, <2>2
<1>6. ASSUME NEW i \in 1..M
      PROVE  t[i] \in Y
  <2>1. PICK j \in 1..N : t[i] = q[j] /\ j # d
    BY <1>4
  <2>2. q[j] \in X /\ q[j] # q[d]
    BY <1>1, <1>3, <1>5, <2>1
  <2> QED
    BY <2>1, <2>2
<1>7. t \in Seq(Y)
  <2>1. t \in [1..M -> X]
    BY <1>2, <1>3
  <2>2. t \in [1..M -> Y]
    <3> HIDE DEF Y, M
    <3> QED
      BY <1>6, <2>1
  <2> HIDE DEF Y, M
  <2> QED
    BY <1>3, <2>2, SeqDef
<1>8. \A i, j \in 1..M : i < j => t[i].seq < t[j].seq
  <2> SUFFICES ASSUME NEW i \in 1..M, NEW j \in 1..M, i < j PROVE t[i].seq < t[j].seq
    OBVIOUS
  <2>1. PICK a \in 1..N : t[i] = q[a] /\ a = IF i < d THEN i ELSE i + 1
    BY <1>4
  <2>2. PICK b \in 1..N : t[j] = q[b] /\ b = IF j < d THEN j ELSE j + 1
    BY <1>4
  <2>3. a < b
    BY <1>3, <2>1, <2>2
  <2> QED
    BY <1>1, <2>1, <2>2, <2>3
<1>9. \A g \in Y : \E i \in 1..M : t[i] = g
  <2> TAKE g \in Y
  <2>1. PICK j \in 1..N : q[j] = g
    BY <1>1
  <2>2. j # d
    BY <2>1
  <2>3. CASE j < d
    <3>1. j \in 1..M
      BY <1>3, <2>3
    <3> QED
      BY <1>2, <2>1, <2>3, <3>1
  <2>4. CASE ~(j < d)
    <3>1. j - 1 \in 1..M /\ ~(j - 1 < d) /\ (j - 1) + 1 = j
      BY <1>3, <2>2, <2>4
    <3> QED
      BY <1>2, <2>1, <3>1
  <2> QED
    BY <2>3, <2>4
<1>10. Y \subseteq Frames /\ Unique(Y)
  BY DEF Unique
<1> HIDE DEF Y, M
<1>11. t = BySeq(Y)
  <2>1. Y \subseteq Frames /\ Unique(Y) /\ M \in Nat /\ t \in Seq(Y) /\ Len(t) = M
    BY <1>2, <1>3, <1>7, <1>10
  <2> QED
    BY ONLY <2>1, <1>8, <1>9, BySeqOnly
<1> QED
  BY <1>11 DEF t, Y, q

(* The order in which frames are shed. *)
Sooner(Q) == {p \in Q \X Q : ShedBefore(p[1], p[2])}

LEMMA SoonerOrders ==
  ASSUME NEW Q, Q \subseteq Frames, Unique(Q)
  PROVE  /\ Orders(Q, Sooner(Q))
         /\ \A f, g \in Q : <<f, g>> \in Sooner(Q) <=> ShedBefore(f, g)
         /\ \A n : Shed(Q, n) = {f \in Q : Place(Q, Sooner(Q), f) < n}
<1>1. \A f \in Q : f.seq \in Nat /\ CarriesAction(f) \in BOOLEAN
  BY DEF Frames, CarriesAction
<1>2. \A f, g \in Q : <<f, g>> \in Sooner(Q) <=> ShedBefore(f, g)
  BY DEF Sooner
<1>3. Orders(Q, Sooner(Q))
  <2>1. \A f \in Q : ~ShedBefore(f, f)
    BY <1>1 DEF ShedBefore
  <2>2. \A f, g \in Q : f # g => ShedBefore(f, g) \/ ShedBefore(g, f)
    <3> SUFFICES ASSUME NEW f \in Q, NEW g \in Q, f # g PROVE ShedBefore(f, g) \/ ShedBefore(g, f)
      OBVIOUS
    <3>1. f.seq < g.seq \/ g.seq < f.seq
      BY <1>1 DEF Unique
    <3>2. CASE CarriesAction(f) = CarriesAction(g)
      BY <3>1, <3>2 DEF ShedBefore
    <3>3. CASE CarriesAction(f) # CarriesAction(g)
      BY <1>1, <3>3 DEF ShedBefore
    <3> QED
      BY <3>2, <3>3
  <2>3. \A f, g, h \in Q : ShedBefore(f, g) /\ ShedBefore(g, h) => ShedBefore(f, h)
    <3> SUFFICES ASSUME NEW f \in Q, NEW g \in Q, NEW h \in Q, ShedBefore(f, g), ShedBefore(g, h)
                 PROVE  ShedBefore(f, h)
      OBVIOUS
    <3>1. f.seq < g.seq /\ g.seq < h.seq => f.seq < h.seq
      BY <1>1
    <3> QED
      BY <1>1, <3>1 DEF ShedBefore
  <2> QED
    BY <1>2, <2>1, <2>2, <2>3 DEF Orders
<1>4. \A f \in Q : Before(Q, Sooner(Q), f) = {g \in Q : ShedBefore(g, f)}
  BY <1>2 DEF Before
<1>5. \A n : Shed(Q, n) = {f \in Q : Place(Q, Sooner(Q), f) < n}
  BY <1>4 DEF Shed, Place
<1> QED
  BY <1>2, <1>3, <1>5

(* The frame that is shed nth: everything shed earlier comes before it, and *)
(* it comes before everything that stays.                                   *)
LEMMA NthShed ==
  ASSUME NEW Q, Q \subseteq Frames, Unique(Q), NEW n \in 1..Cardinality(Q)
  PROVE  \E x \in Q \ Shed(Q, n - 1) :
           /\ Shed(Q, n) = Shed(Q, n - 1) \cup {x}
           /\ \A g \in Shed(Q, n - 1) : ShedBefore(g, x)
           /\ \A g \in Q \ Shed(Q, n - 1) : g # x => ShedBefore(x, g)
<1> DEFINE R == Sooner(Q)
           N == Cardinality(Q)
           P(f) == Place(Q, R, f)
<1>1. IsFiniteSet(Q) /\ N \in Nat
  BY FramesFinite
<1>2. /\ Orders(Q, R) /\ \A f, g \in Q : <<f, g>> \in R <=> ShedBefore(f, g)
      /\ \A m : Shed(Q, m) = {f \in Q : P(f) < m}
  BY SoonerOrders
<1> HIDE DEF R
<1>3. /\ \A f \in Q : P(f) \in 0..(N - 1)
      /\ \A f, g \in Q : <<f, g>> \in R => P(f) < P(g)
      /\ \A f, g \in Q : P(f) = P(g) => f = g
      /\ \A m \in 0..(N - 1) : \E f \in Q : P(f) = m
  BY <1>1, <1>2, Placed
<1>4. n \in Nat /\ n - 1 \in 0..(N - 1) /\ n - 1 \in Nat
  BY <1>1
<1>5. PICK x \in Q : P(x) = n - 1
  BY <1>3, <1>4
<1>6. \A f \in Q : P(f) \in Nat
  BY <1>1, <1>3
<1>7. \A f, g \in Q : P(f) < P(g) => ShedBefore(f, g)
  <2> SUFFICES ASSUME NEW f \in Q, NEW g \in Q, P(f) < P(g) PROVE ShedBefore(f, g)
    OBVIOUS
  <2>1. f # g /\ ~(<<g, f>> \in R)
    BY <1>3, <1>6
  <2> QED
    BY <1>2, <2>1 DEF Orders
<1> HIDE DEF P, N
<1>8. \A f \in Q : /\ f \in Shed(Q, n - 1) <=> P(f) < P(x)
                   /\ f \in Shed(Q, n) <=> P(f) <= P(x)
  BY <1>2, <1>4, <1>5, <1>6
<1>9. Shed(Q, n) \subseteq Q /\ Shed(Q, n - 1) \subseteq Q
  BY DEF Shed
<1>10. \A f \in Q : f # x => P(f) < P(x) \/ P(x) < P(f)
  BY <1>3, <1>5, <1>6
<1>11. x \notin Shed(Q, n - 1) /\ x \in Shed(Q, n)
  BY <1>5, <1>6, <1>8
<1>12. Shed(Q, n) = Shed(Q, n - 1) \cup {x}
  <2>1. \A f \in Q : f # x => (P(f) <= P(x) <=> P(f) < P(x))
    BY <1>6, <1>10
  <2> QED
    BY <1>8, <1>9, <1>11, <2>1
<1> QED
  BY <1>7, <1>8, <1>9, <1>10, <1>11, <1>12

(* One round of the loop. *)
LEMMA DropStep ==
  ASSUME NEW Q, Q \subseteq Frames, Unique(Q), NEW n \in 1..Cardinality(Q), NEW trim \in BOOLEAN,
         lastAppliedSeq \in 0..MaxSeq, \A f \in Q : lastAppliedSeq < f.seq
  PROVE  DropFrame([queue |-> BySeq(Q \ Shed(Q, n - 1)), ack |-> AckOf(Q, Shed(Q, n - 1), lastAppliedSeq)], trim)
           = [queue |-> BySeq(Q \ Shed(Q, n)), ack |-> AckOf(Q, Shed(Q, n), lastAppliedSeq)]
<1> DEFINE ack == lastAppliedSeq
           D == Shed(Q, n - 1)
           X == Q \ D
           N == Cardinality(X)
           q == BySeq(X)
           r == [queue |-> q, ack |-> AckOf(Q, D, ack)]
           droppable == {i \in DOMAIN q : ~CarriesAction(q[i])}
           dropAt == IF droppable = {} THEN 1 ELSE First(droppable)
<1>1. PICK x \in X : /\ Shed(Q, n) = D \cup {x}
                     /\ \A g \in D : ShedBefore(g, x)
                     /\ \A g \in X : g # x => ShedBefore(x, g)
  BY NthShed
<1>2. D \subseteq Q /\ X \subseteq Frames /\ Unique(X)
  BY DEF Shed, Unique
<1>3. DropFrame(r, trim) =
        [queue |-> RemoveAt(q, dropAt),
         ack |-> IF dropAt = 1 /\ (trim => AckOf(Q, D, ack) < q[1].seq) THEN q[1].seq ELSE AckOf(Q, D, ack)]
  BY DEF DropFrame
<1> HIDE DEF D, X
<1>4. /\ N \in Nat /\ q \in Seq(X) /\ Len(q) = N /\ DOMAIN q = 1..N
      /\ \A i \in 1..N : q[i] \in X
      /\ \A i, j \in 1..N : i < j <=> q[i].seq < q[j].seq
      /\ \A g \in X : \E i \in 1..N : q[i] = g
  <2>1. /\ N \in Nat /\ q \in Seq(X) /\ Len(q) = N
        /\ \A i \in 1..N : q[i] \in X
        /\ \A i, j \in 1..N : i < j <=> q[i].seq < q[j].seq
        /\ \A g \in X : \E i \in 1..N : q[i] = g
    BY <1>2, BySeqIs
  <2> HIDE DEF q, N
  <2>2. DOMAIN q = 1..N
    BY <2>1
  <2> QED
    BY <2>1, <2>2
<1> HIDE DEF q, N
<1>5. PICK d \in 1..N : q[d] = x
  BY <1>4
<1>6. \A f \in Q : f.seq \in Nat /\ CarriesAction(f) \in BOOLEAN
  BY DEF Frames, CarriesAction
<1>7. X \subseteq Q /\ D \subseteq Q /\ X = Q \ D /\ x \in Q
  BY <1>2 DEF X
<1>8. d = 1 <=> \A g \in X : g # x => x.seq < g.seq
  <2>1. ASSUME d = 1, NEW g \in X, g # x
        PROVE  x.seq < g.seq
    <3>1. PICK i \in 1..N : q[i] = g
      BY <1>4
    <3>2. d < i
      BY <1>5, <2>1, <3>1
    <3> QED
      BY <1>4, <1>5, <3>1, <3>2
  <2>2. ASSUME \A g \in X : g # x => x.seq < g.seq
        PROVE  d = 1
    <3>1. SUFFICES ASSUME d # 1 PROVE FALSE
      OBVIOUS
    <3>2. 1 \in 1..N /\ 1 < d
      BY <1>4, <3>1
    <3>3. q[1].seq < x.seq /\ q[1] \in X
      BY <1>4, <1>5, <3>2
    <3> QED
      BY <1>6, <1>7, <2>2, <3>3
  <2> QED
    BY <2>1, <2>2
<1>9. dropAt = d
  <2>1. CASE CarriesAction(x)
    <3>1. \A g \in X : g # x => CarriesAction(g) /\ x.seq < g.seq
      BY <1>1, <1>6, <1>7, <2>1 DEF ShedBefore
    <3>2. droppable = {}
      BY <1>4, <2>1, <3>1
    <3> QED
      BY <1>8, <3>1, <3>2
  <2>2. CASE ~CarriesAction(x)
    <3>1. d \in droppable
      BY <1>4, <1>5, <2>2
    <3>2. ASSUME NEW j \in droppable
          PROVE  d <= j
      <4>1. j \in 1..N /\ ~CarriesAction(q[j]) /\ q[j] \in X
        BY <1>4
      <4>2. CASE q[j] = x
        <5>1. ~(j < d)
          BY <1>4, <1>5, <1>6, <1>7, <4>1, <4>2
        <5> QED
          BY <1>4, <4>1, <5>1
      <4>3. CASE q[j] # x
        <5>1. x.seq < q[j].seq
          BY <1>1, <1>6, <1>7, <4>1, <4>3, <2>2 DEF ShedBefore
        <5>2. d < j
          BY <1>4, <1>5, <4>1, <5>1
        <5> QED
          BY <1>4, <4>1, <5>2
      <4> QED
        BY <4>2, <4>3
    <3>3. droppable \subseteq Nat
      BY <1>4
    <3> HIDE DEF droppable
    <3>4. First(droppable) \in droppable /\ \A i \in droppable : First(droppable) <= i
      BY <3>1, <3>3, FirstIs
    <3>5. First(droppable) <= d /\ d <= First(droppable)
      BY <3>1, <3>2, <3>4
    <3> DEFINE e == First(droppable)
    <3>6. e \in Nat /\ d \in Nat /\ e <= d /\ d <= e
      BY <3>1, <3>3, <3>4, <3>5
    <3> HIDE DEF e
    <3>7. e = d
      BY <3>6
    <3> QED
      BY <3>1, <3>7 DEF e
  <2> QED
    BY <2>1, <2>2
<1> HIDE DEF dropAt
<1>10. RemoveAt(q, dropAt) = BySeq(Q \ Shed(Q, n))
  <2>1. RemoveAt(q, d) = BySeq(X \ {x})
    BY <1>2, <1>5, RemovedIs DEF q, N
  <2>2. X \ {x} = Q \ Shed(Q, n)
    BY <1>1 DEF X
  <2> QED
    BY <1>9, <2>1, <2>2
<1>11. /\ AckOf(Q, Shed(Q, n), ack) = IF d = 1 THEN x.seq ELSE AckOf(Q, D, ack)
       /\ d = 1 => AckOf(Q, D, ack) < x.seq
  <2> DEFINE F == ShedAsFirst(Q, D)
             G == ShedAsFirst(Q, Shed(Q, n))
             heads == CarriesAction(x) \/ \A g \in Q : CarriesAction(g) => x.seq < g.seq
  <2>1. G = IF heads THEN F \cup {x} ELSE F
    BY <1>1 DEF ShedAsFirst
  <2>2. d = 1 <=> heads
    <3>1. CASE CarriesAction(x)
      BY <1>1, <1>6, <1>7, <1>8, <3>1 DEF ShedBefore
    <3>2. CASE ~CarriesAction(x)
      <4>1. \A g \in D : ~CarriesAction(g)
        BY <1>1, <1>6, <1>7, <3>2 DEF ShedBefore
      <4>2. \A g \in X : g # x /\ ~CarriesAction(g) => x.seq < g.seq
        BY <1>1, <1>6, <1>7, <3>2 DEF ShedBefore
      <4>3. heads <=> \A g \in X : CarriesAction(g) => x.seq < g.seq
        BY <1>7, <3>2, <4>1
      <4> QED
        BY <1>8, <3>2, <4>2, <4>3
    <3> QED
      BY <3>1, <3>2
  <2>3. AckOf(Q, Shed(Q, n), ack) = IF G = {} \/ NewestOf(G).seq <= ack THEN ack ELSE NewestOf(G).seq
    BY DEF AckOf, ShedAsFirst
  <2>4. AckOf(Q, D, ack) = IF F = {} \/ NewestOf(F).seq <= ack THEN ack ELSE NewestOf(F).seq
    BY DEF AckOf, ShedAsFirst
  <2>5. CASE heads
    <3>1. \A f \in F : f \in Q /\ f.seq < x.seq
      <4> TAKE f \in F
      <4>1. /\ f \in D /\ f \in Q
            /\ CarriesAction(f) \/ \A g \in Q : CarriesAction(g) => f.seq < g.seq
        BY <1>7 DEF ShedAsFirst
      <4>2. ShedBefore(f, x)
        BY <1>1, <4>1
      <4> QED
        BY <1>6, <1>7, <4>1, <4>2 DEF ShedBefore
    <3>2. G \subseteq Frames /\ x \in G /\ \A g \in G : g = x \/ g.seq < x.seq
      BY <1>7, <2>1, <2>5, <3>1
    <3> HIDE DEF G, F, heads
    <3>3. NewestOf(G) \in G /\ x.seq <= NewestOf(G).seq
      BY <3>2, NewestFrame
    <3>4. NewestOf(G) = x
      <4>1. NewestOf(G).seq \in Nat /\ x.seq \in Nat
        BY <3>2, <3>3 DEF Frames
      <4> QED
        BY <3>2, <3>3, <4>1
    <3>5. ~(x.seq <= ack) /\ ack < x.seq
      BY <1>6, <1>7
    <3>6. AckOf(Q, D, ack) < x.seq
      <4>1. AckOf(Q, D, ack) = ack \/ AckOf(Q, D, ack) \in Seqs(F)
        BY <1>7, AckOfShed DEF F
      <4> QED
        BY <3>1, <3>5, <4>1 DEF Seqs
    <3> QED
      BY <2>2, <2>3, <2>5, <3>2, <3>4, <3>5, <3>6
  <2>6. CASE ~heads
    BY <2>1, <2>2, <2>3, <2>4, <2>6
  <2> QED
    BY <2>5, <2>6
<1>12. (IF dropAt = 1 /\ (trim => AckOf(Q, D, ack) < q[1].seq) THEN q[1].seq ELSE AckOf(Q, D, ack))
         = AckOf(Q, Shed(Q, n), ack)
  BY <1>5, <1>9, <1>11
<1> HIDE DEF q
<1>13. DropFrame(r, trim) = [queue |-> BySeq(Q \ Shed(Q, n)), ack |-> AckOf(Q, Shed(Q, n), ack)]
  BY <1>3, <1>10, <1>12
<1> QED
  BY <1>13 DEF q, X, D

(* The whole loop, for any number of rounds the queue has frames for. *)
LEMMA DropFramesIs ==
  ASSUME NEW Q, Q \subseteq Frames, Unique(Q), NEW k \in Int, k <= Cardinality(Q), NEW trim \in BOOLEAN,
         lastAppliedSeq \in 0..MaxSeq, \A f \in Q : lastAppliedSeq < f.seq
  PROVE  ShedsAsLoop(Q, k, trim)
<1> DEFINE start == [queue |-> BySeq(Q), ack |-> lastAppliedSeq]
           IsLoop(g) == g = [n \in 0..k |-> IF n = 0 THEN start ELSE DropFrame(g[n - 1], trim)]
           closed == [n \in 0..k |-> [queue |-> BySeq(Q \ Shed(Q, n)),
                                      ack |-> AckOf(Q, Shed(Q, n), lastAppliedSeq)]]
           at == CHOOSE g : IsLoop(g)
<1>1. Cardinality(Q) \in Nat
  BY FramesFinite
<1>2. ASSUME NEW n \in Int, n <= 0
      PROVE  start = [queue |-> BySeq(Q \ Shed(Q, n)), ack |-> AckOf(Q, Shed(Q, n), lastAppliedSeq)]
  <2>1. \A f \in Q : Cardinality({g \in Q : ShedBefore(g, f)}) \in Nat
    <3> TAKE f \in Q
    <3>1. {g \in Q : ShedBefore(g, f)} \subseteq Frames
      OBVIOUS
    <3> QED
      BY <3>1, FramesFinite
  <2>2. Shed(Q, n) = {}
    BY <1>2, <2>1 DEF Shed
  <2>3. AckOf(Q, {}, lastAppliedSeq) = lastAppliedSeq
    BY DEF AckOf
  <2>4. Q \ {} = Q
    OBVIOUS
  <2> QED
    BY <2>2, <2>3, <2>4
<1>3. CASE k <= 0
  <2>1. DropFrames(BySeq(Q), lastAppliedSeq, k, trim) = start
    BY <1>3 DEF DropFrames
  <2> HIDE DEF start
  <2> QED
    BY <1>2, <1>3, <2>1 DEF ShedsAsLoop
<1>4. CASE ~(k <= 0)
  <2>1. DropFrames(BySeq(Q), lastAppliedSeq, k, trim) = at[k]
    BY <1>4 DEF DropFrames
  <2>2. k \in 0..k /\ 0 \in 0..k /\ \A n \in 0..k : n # 0 => n \in 1..Cardinality(Q) /\ n - 1 \in 0..k
    BY <1>1, <1>4
  <2>3. \A n \in 0..k : closed[n] = IF n = 0 THEN start ELSE DropFrame(closed[n - 1], trim)
    <3> SUFFICES ASSUME NEW n \in 0..k PROVE closed[n] = IF n = 0 THEN start ELSE DropFrame(closed[n - 1], trim)
      OBVIOUS
    <3> HIDE DEF start
    <3>1. CASE n = 0
      BY <1>2, <3>1
    <3>2. CASE n # 0
      <4>1. n \in 1..Cardinality(Q) /\ n - 1 \in 0..k
        BY <2>2, <3>2
      <4>2. closed[n] = DropFrame(closed[n - 1], trim)
        BY <4>1, DropStep
      <4> QED
        BY <3>2, <4>2
    <3> QED
      BY <3>1, <3>2
  <2> HIDE DEF start
  <2>4. IsLoop(closed)
    BY <2>3
  <2>5. IsLoop(at)
    <3> HIDE DEF IsLoop, closed
    <3> QED
      BY <2>4
  <2> HIDE DEF at
  <2>6. \A n \in 0..k : at[n] = closed[n]
    <3> DEFINE bad == {n \in 0..k : at[n] # closed[n]}
    <3>1. CASE bad # {}
      <4>1. PICK n \in bad : \A m \in bad : n <= m
        <5>1. bad \subseteq Nat
          OBVIOUS
        <5> HIDE DEF bad
        <5> QED
          BY <3>1, <5>1, LeastExists
      <4>2. n \in 0..k /\ at[n] # closed[n]
        BY <4>1
      <4>3. CASE n = 0
        BY <2>4, <2>5, <4>2, <4>3
      <4>4. CASE n # 0
        <5>1. n - 1 \in 0..k /\ ~(n <= n - 1)
          BY <2>2, <4>2, <4>4
        <5>2. at[n - 1] = closed[n - 1]
          BY <4>1, <5>1
        <5>3. at[n] = DropFrame(at[n - 1], trim)
          BY <2>5, <4>2, <4>4
        <5>4. closed[n] = DropFrame(closed[n - 1], trim)
          BY <2>3, <4>2, <4>4
        <5> QED
          BY <4>2, <5>2, <5>3, <5>4
      <4> QED
        BY <4>3, <4>4
    <3> QED
      BY <3>1
  <2>7. at[k] = [queue |-> BySeq(Q \ Shed(Q, k)), ack |-> AckOf(Q, Shed(Q, k), lastAppliedSeq)]
    BY <2>2, <2>6
  <2> QED
    BY <2>1, <2>7 DEF ShedsAsLoop
<1> QED
  BY <1>3, <1>4

(* The loops over the array of queued frames (Room.ts 903-922, 999-1010)    *)
(* do what the operators of InputStream say of the set: whatever arrives    *)
(* is in its place, and any number of frames is shed in the order of        *)
(* ShedBefore, with the acknowledgement that AckOf gives.                   *)
THEOREM LoopsAreMatched == Spec => []SheddingMatchesLoops
<1>1. TypeOK /\ OrderInv /\ FlowInv => SheddingMatchesLoops
  <2> SUFFICES ASSUME TypeOK, OrderInv, FlowInv PROVE SheddingMatchesLoops
    OBVIOUS
  <2>1. /\ inputQueue \subseteq Frames /\ Unique(inputQueue)
        /\ lastAppliedSeq \in 0..MaxSeq /\ lastAppliedSeq \in Nat
        /\ \A f \in inputQueue : lastAppliedSeq < f.seq
    BY Numbers DEF TypeOK, ServerType, OrderInv, UniqueInv, FlowInv, AckInv, Seqs
  <2>2. Arriving \subseteq Frames /\ Unique(Arriving)
    <3>1. CASE up # <<>> /\ Head(up).kind = "input"
      <4>1. Head(up) = up[1] /\ 1 \in DOMAIN up /\ Head(up) \in UpMessages
        BY <3>1 DEF TypeOK, ChannelType
      <4>2. Head(up).frames \subseteq Frames
        BY <3>1, <4>1 DEF UpMessages
      <4>3. Unique(Head(up).frames)
        BY <3>1, <4>1 DEF OrderInv, UniqueInv, MessagesUnique, InputAt
      <4> QED
        BY <3>1, <4>2, <4>3 DEF Arriving
    <3>2. CASE ~(up # <<>> /\ Head(up).kind = "input")
      BY <3>2 DEF Arriving, Unique
    <3> QED
      BY <3>1, <3>2
  <2>3. Joined \subseteq Frames /\ Unique(Joined) /\ \A f \in Joined : lastAppliedSeq < f.seq
    <3>1. \A f \in Joined : f \in inputQueue \/ (f \in Arriving /\ f.seq > lastAppliedSeq /\ f.seq \notin Seqs(inputQueue))
      BY DEF Joined
    <3>2. \A f \in inputQueue : f.seq \in Seqs(inputQueue)
      BY DEF Seqs
    <3>3. Unique(Joined)
      BY <2>1, <2>2, <3>1, <3>2 DEF Unique
    <3>4. Joined \subseteq Frames
      BY <2>1, <2>2, <3>1
    <3>5. \A f \in Joined : lastAppliedSeq < f.seq
      BY <2>1, <2>2, <3>1 DEF Frames
    <3> QED
      BY <3>3, <3>4, <3>5
  <2>4. InsertFrames(BySeq(inputQueue), BySeq(Arriving)) = BySeq(Joined)
    BY <2>1, <2>2, InsertFramesIs DEF Joined
  <2>5. Cardinality(Joined) \in Nat /\ Cardinality(inputQueue) \in Nat /\ QueueLimit \in Nat
    BY <2>1, <2>3, FramesFinite, Numbers
  <2>6. ShedsAsLoop(Joined, Cardinality(Joined) - QueueLimit, FALSE)
    <3> DEFINE k == Cardinality(Joined) - QueueLimit
    <3>1. k \in Int /\ k <= Cardinality(Joined)
      BY <2>5
    <3> HIDE DEF k
    <3>2. ShedsAsLoop(Joined, k, FALSE)
      BY <2>1, <2>3, <3>1, DropFramesIs
    <3> QED
      BY <3>2 DEF k
  <2>7. \A k \in 0..Cardinality(inputQueue) : ShedsAsLoop(inputQueue, k, TRUE)
    <3> TAKE k \in 0..Cardinality(inputQueue)
    <3>1. k \in Int /\ k <= Cardinality(inputQueue)
      BY <2>5
    <3> QED
      BY <2>1, <3>1, DropFramesIs
  <2> QED
    BY <2>4, <2>6, <2>7 DEF SheddingMatchesLoops
<1> QED
  BY <1>1, AlwaysFlow, TypeInit, TypeStep, OrderInit, OrderStep, PTL DEF Spec
==============================================================================
