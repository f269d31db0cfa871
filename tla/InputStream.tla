----------------------------- MODULE InputStream -----------------------------
(***************************************************************************)
(* One player's input on its way into the simulation, and the              *)
(* acknowledgements and kill cams on their way back: NetSession and the    *)
(* render loop on one side, Room's jitter buffer on the other, one ordered *)
(* WebSocket between them, over a live run with handoffs and page reloads. *)
(*                                                                         *)
(* An input frame is its sequence number and the set of one-shot edges it  *)
(* carries; movement and the view tick are left out, and so is everything  *)
(* of the run that does not touch the stream.  Room keeps inputQueue       *)
(* sorted by seq without duplicates, so that here it is the set of its     *)
(* frames; InputLoops compares the operators on the set with the loops  *)
(* on the array.  Time is left out: ticks and display frames happen when   *)
(* they may, and a display frame cuts any number of input frames.          *)
(*                                                                         *)
(* An operator named X_bug is X with a plausible bug.  The specification   *)
(* does not use it; it shows that a property would notice the bug.         *)
(***************************************************************************)
EXTENDS Integers, Sequences, FiniteSets

CONSTANTS
  Edges,        \* one-shot edges: dash, bay use, swap, drop, take, plea, ping
  ReplaySafe,   \* the edges a player may use during a kill cam: plea
  Redundancy,   \* frames repeated in each message (4)
  PendingCap,   \* frames kept for reconciliation (240)
  MaxBurst,     \* frames one display frame can cut: 250 ms of ticks (15)
  QueueLimit,   \* depth above which the queue sheds (6)
  JitterTarget, \* depth a standing backlog is trimmed to (2)
  HoldTicks,    \* ticks a lone frame waits for its pair (2)
  Window,       \* ticks of a backlog window (60)
  SnapEvery,    \* ticks between snapshots (3)
  MaxSeq, MaxUp, MaxDown, MaxCloses, MaxDowns   \* bounds of the model

ASSUME StreamAssumption ==
  /\ ReplaySafe \subseteq Edges /\ IsFiniteSet(Edges)
  /\ {Redundancy, PendingCap, MaxBurst, QueueLimit, Window, SnapEvery} \subseteq Nat \ {0}
  /\ {JitterTarget, HoldTicks, MaxSeq, MaxUp, MaxDown, MaxCloses, MaxDowns} \subseteq Nat
  /\ JitterTarget < QueueLimit

Frames == [seq : 1..MaxSeq, edges : SUBSET Edges]
Clips == 0..MaxDowns      \* kill cams of this player, numbered; 0 is none
Unbounded == QueueLimit + 1
UpMessages == [kind : {"input"}, frames : SUBSET Frames]
              \cup [kind : {"killCamDone"}, clip : Clips \ {0}]
DownMessages == [kind : {"snap"}, ack : 0..MaxSeq]
                \cup [kind : {"killCam"}, clip : Clips \ {0}]
                \cup [kind : {"welcome", "matchStart"}]

VARIABLES
  \* NetSession: connection, frames cut so far, frames not acknowledged
  link, seq, pending, staged, hasSnapshot,
  \* NetSession and render loop: kill cam
  replayActive, activeClip, drainable, playing, newGeneration,
  up, down,
  \* Room's member
  peer, inRun, inputQueue, lastAppliedSeq, starved, holdTicks, minDepth, windowTicks,
  activeKillCamId, downed, tick,
  \* history: frames given to the simulation, frames that arrived, frames cut
  \* before the last matchStart, a reloaded page that has not joined yet,
  \* and the bounded events
  applied, arrived, baseline, reloaded, closes, downs

linkVars == <<link, closes>>
frameVars == <<seq, pending, staged>>
replayVars == <<replayActive, activeClip, drainable, playing, newGeneration>>
clientVars == <<linkVars, frameVars, replayVars, hasSnapshot, baseline, reloaded>>
queueVars == <<inputQueue, lastAppliedSeq, starved, holdTicks, minDepth, windowTicks>>
bodyVars == <<inRun, activeKillCamId, downed, downs>>
serverVars == <<peer, queueVars, bodyVars, tick, applied, arrived>>
vars == <<clientVars, serverVars, up, down>>

Least(a, b) == IF a <= b THEN a ELSE b
NewestOf(S) == CHOOSE f \in S : \A g \in S : g.seq <= f.seq
OldestOf(S) == CHOOSE f \in S : \A g \in S : f.seq <= g.seq
Seqs(S) == {f.seq : f \in S}
CarriesAction(f) == f.edges # {}

(* The k frames of S with the highest sequence numbers. *)
Newest(S, k) == {f \in S : Cardinality({g \in S : g.seq > f.seq}) < k}

-----------------------------------------------------------------------------
(* Client.                                                                 *)

ReplaySafeInput(f) == [f EXCEPT !.edges = @ \cap ReplaySafe]

(* transport.send: a message to a connection that is gone is lost. *)
ToServer(msgs) == IF link = "open" THEN up \o msgs ELSE up

(* setReplayActive(true) drops what is staged, and the edges of frames that *)
(* are already cut.                                                         *)
StartReplay(st, P) ==
  /\ replayActive' = TRUE
  /\ staged' = st \cap ReplaySafe
  /\ pending' = {ReplaySafeInput(f) : f \in P}

Done_bug == <<[kind |-> "killCamDone", clip |-> activeClip]>>
Done == IF activeClip # 0 THEN <<[kind |-> "killCamDone", clip |-> activeClip]>> ELSE <<>>

(* One turn of the render loop: a new run generation resets the view, which *)
(* ends the replay; the input is staged; update cuts n frames, the first of *)
(* which takes everything staged, and flushes the newest; drained clips     *)
(* start to play.                                                           *)
RenderFrame(E, n) ==
  LET ended == newGeneration
      replay == replayActive /\ ~ended
      st == staged \cup (IF replay THEN E \cap ReplaySafe ELSE E)
      cut == {[seq |-> seq + i, edges |-> IF i = 1 THEN st ELSE {}] : i \in 1..n}
      kept == Newest(pending \cup cut, PendingCap)
      flush == n > 0 /\ (st # {} \/ (seq + n) % 2 = 0)
      message == [kind |-> "input", frames |-> Newest(kept, Redundancy)]
  IN /\ ~reloaded /\ (n > 0 => hasSnapshot)
     /\ seq + n <= MaxSeq /\ Len(up) < MaxUp
     /\ seq' = seq + n
     /\ up' = ToServer((IF ended THEN Done ELSE <<>>) \o (IF flush THEN <<message>> ELSE <<>>))
     /\ activeClip' = IF ended THEN 0 ELSE activeClip
     /\ newGeneration' = FALSE
     /\ drainable' = 0
     /\ IF drainable # 0
        THEN playing' = drainable /\ StartReplay(IF n > 0 THEN {} ELSE st, kept)
        ELSE /\ playing' = IF ended THEN 0 ELSE playing
             /\ replayActive' = replay
             /\ staged' = IF n > 0 THEN {} ELSE st
             /\ pending' = kept
     /\ UNCHANGED <<linkVars, hasSnapshot, baseline, reloaded, down, serverVars>>

EndReplay_bug ==
  /\ playing # 0 /\ Len(up) < MaxUp
  /\ playing' = 0 /\ replayActive' = FALSE /\ activeClip' = 0
  /\ UNCHANGED <<linkVars, frameVars, hasSnapshot, drainable, newGeneration, baseline,
                 reloaded, down, up, serverVars>>

(* The playback reaches its end or is skipped, or the player is seen alive. *)
EndReplay ==
  /\ playing # 0
  /\ Len(up) < MaxUp
  /\ playing' = 0 /\ replayActive' = FALSE /\ activeClip' = 0
  /\ up' = ToServer(Done)
  /\ UNCHANGED <<linkVars, frameVars, hasSnapshot, drainable, newGeneration, baseline,
                 reloaded, down, serverVars>>

(* The connection is lost, as the client sees it: what is pending goes, and *)
(* the server may still read some of what was sent.                         *)
Lose ==
  /\ closes < MaxCloses /\ link # "closed"
  /\ link' = "closed" /\ closes' = closes + 1
  /\ down' = <<>>
  /\ \E k \in 0..Len(up) : up' = SubSeq(up, 1, k)

Close_bug ==
  /\ Lose
  /\ staged' = {}
  /\ UNCHANGED <<seq, pending, replayVars, hasSnapshot, baseline, reloaded, serverVars>>
Close ==
  /\ Lose
  /\ pending' = {} /\ staged' = {}
  /\ UNCHANGED <<seq, replayVars, hasSnapshot, baseline, reloaded, serverVars>>

(* The page is reloaded: a new session, which counts from one.              *)
Reload ==
  /\ Lose
  /\ seq' = 0 /\ pending' = {} /\ staged' = {} /\ hasSnapshot' = FALSE
  /\ replayActive' = FALSE /\ activeClip' = 0 /\ drainable' = 0 /\ playing' = 0
  /\ newGeneration' = FALSE /\ reloaded' = TRUE
  /\ UNCHANGED <<baseline, serverVars>>

(* NetSession.receive *)
ClientReceive ==
  /\ down # <<>>
  /\ down' = Tail(down)
  /\ LET m == Head(down) IN
     \/ /\ m.kind = "welcome"
        /\ link' = "open"
        /\ UNCHANGED <<frameVars, replayVars, hasSnapshot, baseline, reloaded>>
     \/ /\ m.kind = "matchStart"
        /\ pending' = {} /\ staged' = {} /\ hasSnapshot' = FALSE
        /\ replayActive' = FALSE /\ activeClip' = 0 /\ drainable' = 0
        \* the loop of a reloaded page starts after its first matchStart
        /\ newGeneration' = ~reloaded /\ reloaded' = FALSE
        /\ baseline' = seq
        /\ UNCHANGED <<link, seq, playing>>
     \/ /\ m.kind = "snap"
        /\ hasSnapshot' = TRUE
        /\ pending' = {f \in pending : f.seq > m.ack}
        /\ UNCHANGED <<link, seq, staged, replayVars, baseline, reloaded>>
     \/ /\ m.kind = "killCam"
        /\ activeClip' = m.clip /\ drainable' = m.clip
        /\ StartReplay(staged, pending)
        /\ UNCHANGED <<link, seq, playing, newGeneration, hasSnapshot, baseline, reloaded>>
  /\ UNCHANGED <<closes, up, serverVars>>

-----------------------------------------------------------------------------
(* Server.                                                                 *)

ToClient(msgs) == IF peer /\ link # "closed" THEN down \o msgs ELSE down

(* Which of two queued frames is shed first: movement before edges, then    *)
(* the older one.                                                           *)
ShedBefore(f, g) ==
  \/ ~CarriesAction(f) /\ CarriesAction(g)
  \/ CarriesAction(f) = CarriesAction(g) /\ f.seq < g.seq
Shed(Q, k) == {f \in Q : Cardinality({g \in Q : ShedBefore(g, f)}) < k}

(* The acknowledgement after D was shed from Q: it follows a frame that was *)
(* the first of the queue when it was shed.                                 *)
AckOf_bug(Q, D, ack) == IF D = {} THEN ack ELSE NewestOf(D).seq
AckOf(Q, D, ack) ==
  LET first == {f \in D : CarriesAction(f) \/ \A g \in Q : CarriesAction(g) => f.seq < g.seq}
  IN IF first = {} \/ NewestOf(first).seq <= ack THEN ack ELSE NewestOf(first).seq

EnqueueInputFrames_bug(F) ==
  LET all == inputQueue \cup {f \in F : f.seq > lastAppliedSeq /\ f.seq \notin Seqs(inputQueue)}
  IN /\ inputQueue' = all \ Shed(all, Cardinality(all) - QueueLimit)
     /\ lastAppliedSeq' = IF all = {} THEN lastAppliedSeq ELSE NewestOf(all).seq

(* enqueueInputFrames *)
EnqueueInputFrames(F) ==
  LET fresh == {f \in F : f.seq > lastAppliedSeq /\ f.seq \notin Seqs(inputQueue)}
      all == inputQueue \cup fresh
      shed == Shed(all, Cardinality(all) - QueueLimit)
  IN /\ inputQueue' = all \ shed
     /\ lastAppliedSeq' = AckOf(all, shed, lastAppliedSeq)

(* receive: input is ignored outside the run, and only the clip that gates  *)
(* the input releases the gate.                                             *)
ServerReceive ==
  /\ peer /\ up # <<>>
  /\ up' = Tail(up)
  /\ LET m == Head(up) IN
     \/ /\ m.kind = "input"
        /\ arrived' = arrived \cup Seqs(m.frames)
        /\ IF inRun THEN EnqueueInputFrames(m.frames) ELSE UNCHANGED <<inputQueue, lastAppliedSeq>>
        /\ UNCHANGED activeKillCamId
     \/ /\ m.kind = "killCamDone"
        /\ activeKillCamId' = IF activeKillCamId = m.clip THEN 0 ELSE activeKillCamId
        /\ UNCHANGED <<arrived, inputQueue, lastAppliedSeq>>
  /\ UNCHANGED <<clientVars, down, peer, starved, holdTicks, minDepth, windowTicks, inRun,
                 downed, downs, tick, applied>>

(* trimStandingBacklog, as the queue and acknowledgement it leaves *)
WindowEnds == windowTicks + 1 >= Window
Trimmed ==
  IF WindowEnds
  THEN Shed(inputQueue, Least(minDepth, Cardinality(inputQueue)) - JitterTarget)
  ELSE {}
TrimStandingBacklog ==
  /\ windowTicks' = IF WindowEnds THEN 0 ELSE windowTicks + 1
  /\ minDepth' = IF WindowEnds THEN Unbounded ELSE Least(minDepth, Cardinality(inputQueue))

Gated(f) == IF activeKillCamId # 0 THEN ReplaySafeInput(f) ELSE f

(* consumeInputFrame on the trimmed queue Q and acknowledgement ack: after  *)
(* an underrun a lone frame waits for its pair, an empty queue starves, and *)
(* otherwise the oldest frame is applied; Remaining is the queue it leaves. *)
Holds(Q) == starved /\ Cardinality(Q) = 1 /\ holdTicks < HoldTicks
AwaitPair_bug(ack) ==
  /\ lastAppliedSeq' = ack
  /\ UNCHANGED <<starved, holdTicks, applied>>
AwaitPair(ack) ==
  /\ holdTicks' = holdTicks + 1 /\ lastAppliedSeq' = ack
  /\ UNCHANGED <<starved, applied>>
Starve(ack) ==
  /\ starved' = TRUE /\ holdTicks' = 0 /\ lastAppliedSeq' = ack
  /\ UNCHANGED applied
Apply(f) ==
  /\ starved' = FALSE /\ holdTicks' = 0
  /\ lastAppliedSeq' = f.seq
  /\ applied' = Append(applied, Gated(f))
ConsumeInputFrame(Q, ack) ==
  \/ Holds(Q) /\ AwaitPair(ack)
  \/ Q = {} /\ Starve(ack)
  \/ Q # {} /\ ~Holds(Q) /\ Apply(OldestOf(Q))
Remaining(Q) == IF Q = {} \/ Holds(Q) THEN Q ELSE Q \ {OldestOf(Q)}

(* What the simulation's step does to this player: processKillCamEvents and *)
(* sendRunOver. C is the message the event sends.                           *)
StepEvent(event, Q) ==
  \/ /\ event = "none"
     /\ inputQueue' = Q
     /\ UNCHANGED bodyVars
  \/ /\ event = "downed" /\ inRun /\ ~downed /\ downs < MaxDowns
     /\ downed' = TRUE /\ downs' = downs + 1 /\ activeKillCamId' = downs + 1
     /\ inputQueue' = {}
     /\ UNCHANGED inRun
  \/ /\ event = "revived" /\ downed
     /\ downed' = FALSE /\ activeKillCamId' = 0
     /\ inputQueue' = Q
     /\ UNCHANGED <<inRun, downs>>
  \/ /\ event = "extracted" /\ inRun /\ ~downed
     /\ inRun' = FALSE /\ activeKillCamId' = 0
     /\ inputQueue' = {}
     /\ UNCHANGED <<downed, downs>>

KillCamMessage == [kind |-> "killCam", clip |-> activeKillCamId']
Tick(event) ==
  /\ Len(down) < MaxDown
  /\ LET D == Trimmed
         Q == inputQueue \ D
     IN /\ TrimStandingBacklog
        /\ ConsumeInputFrame(Q, AckOf(inputQueue, D, lastAppliedSeq))
        /\ StepEvent(event, Remaining(Q))
  /\ tick' = (tick + 1) % SnapEvery
  /\ down' = ToClient((IF event = "downed" THEN <<KillCamMessage>> ELSE <<>>)
                      \o (IF tick' = 0 THEN <<[kind |-> "snap", ack |-> lastAppliedSeq']>> ELSE <<>>))
  /\ UNCHANGED <<clientVars, up, peer, arrived>>

(* disconnect, after the server has read what the connection still held *)
Disconnect ==
  /\ link = "closed" /\ peer /\ up = <<>>
  /\ peer' = FALSE
  /\ UNCHANGED <<clientVars, queueVars, bodyVars, tick, applied, arrived, up, down>>

(* join forgets the stream of the previous connection. *)
ResetStream_bug ==
  /\ inputQueue' = {} /\ UNCHANGED lastAppliedSeq
  /\ starved' = TRUE /\ holdTicks' = 0 /\ minDepth' = Unbounded /\ windowTicks' = 0
ResetStream ==
  /\ inputQueue' = {} /\ lastAppliedSeq' = 0
  /\ starved' = TRUE /\ holdTicks' = 0 /\ minDepth' = Unbounded /\ windowTicks' = 0

(* sendMatchStart: the kill cam again, if the player is still to see it. *)
MatchStart_bug == <<[kind |-> "matchStart"]>>
MatchStart ==
  <<[kind |-> "matchStart"]>>
  \o (IF downed /\ activeKillCamId # 0
      THEN <<[kind |-> "killCam", clip |-> activeKillCamId]>> ELSE <<>>)

(* join of an existing member during the run *)
Rejoin ==
  /\ link = "closed" /\ ~peer
  /\ link' = "joining" /\ peer' = TRUE
  /\ ResetStream
  /\ down' = <<[kind |-> "welcome"]>> \o MatchStart
  /\ IF reloaded THEN applied' = <<>> /\ arrived' = {} ELSE UNCHANGED <<applied, arrived>>
  /\ UNCHANGED <<up, closes, frameVars, replayVars, hasSnapshot, baseline, reloaded, bodyVars, tick>>

-----------------------------------------------------------------------------
(* The run has just started and the client knows it. *)
Init ==
  /\ link = "open" /\ seq = 0 /\ pending = {} /\ staged = {} /\ hasSnapshot = FALSE
  /\ replayActive = FALSE /\ activeClip = 0 /\ drainable = 0 /\ playing = 0
  /\ newGeneration = FALSE /\ reloaded = FALSE
  /\ up = <<>> /\ down = <<>>
  /\ peer = TRUE /\ inRun = TRUE /\ inputQueue = {} /\ lastAppliedSeq = 0
  /\ starved = TRUE /\ holdTicks = 0 /\ minDepth = Unbounded /\ windowTicks = 0
  /\ activeKillCamId = 0 /\ downed = FALSE /\ tick = 0
  /\ applied = <<>> /\ arrived = {} /\ baseline = 0 /\ closes = 0 /\ downs = 0

ServerTick == \E event \in {"none", "downed", "revived", "extracted"} : Tick(event)
Next ==
  \/ \E E \in SUBSET Edges, n \in 0..MaxBurst : RenderFrame(E, n)
  \/ EndReplay \/ Close \/ Reload \/ ClientReceive
  \/ ServerReceive \/ ServerTick \/ Disconnect \/ Rejoin

Spec == Init /\ [][Next]_vars

(* The server ticks and both ends read what arrives; the render loop runs,  *)
(* and a playback ends.  Nothing makes a player come back.                  *)
FairSpec ==
  /\ Spec
  /\ WF_vars(ServerTick) /\ WF_vars(ServerReceive) /\ WF_vars(ClientReceive)
  /\ WF_vars(RenderFrame({}, 0)) /\ WF_vars(EndReplay)
=============================================================================
