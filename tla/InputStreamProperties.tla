------------------------ MODULE InputStreamProperties ------------------------
(***************************************************************************)
(* What the input stream promises, stated of InputStream.                  *)
(***************************************************************************)
EXTENDS InputStream

ClientType ==
  /\ link \in {"open", "joining", "closed"} /\ closes \in Nat
  /\ seq \in 0..MaxSeq /\ pending \subseteq Frames /\ staged \subseteq Edges
  /\ hasSnapshot \in BOOLEAN /\ replayActive \in BOOLEAN
  /\ activeClip \in Clips /\ drainable \in Clips /\ playing \in Clips
  /\ newGeneration \in BOOLEAN /\ reloaded \in BOOLEAN /\ baseline \in 0..MaxSeq
ChannelType == up \in Seq(UpMessages) /\ down \in Seq(DownMessages)
ServerType ==
  /\ peer \in BOOLEAN /\ inRun \in BOOLEAN /\ downed \in BOOLEAN
  /\ inputQueue \subseteq Frames /\ lastAppliedSeq \in 0..MaxSeq
  /\ starved \in BOOLEAN /\ holdTicks \in Nat
  /\ minDepth \in Nat /\ windowTicks \in Nat
  /\ activeKillCamId \in Clips /\ downs \in Clips /\ tick \in Nat
HistoryType == applied \in Seq(Frames) /\ arrived \subseteq 1..MaxSeq

(* Every variable has its type. *)
TypeOK == ClientType /\ ChannelType /\ ServerType /\ HistoryType

-----------------------------------------------------------------------------
(* Safety.                                                                 *)

(* The simulation never sees a frame twice, nor one after a newer one, for  *)
(* as long as the page lives: redundant copies, shedding and a handoff      *)
(* (which forgets the acknowledgement, Room.ts 533) included.               *)
AppliedInOrder ==
  \A i, j \in DOMAIN applied : i < j => applied[i].seq < applied[j].seq

(* A frame is never refused as stale when its first copy arrives: not after *)
(* a handoff, and not after a reload, whose page counts from one again      *)
(* (Room.ts 529).                                                           *)
FirstCopyIsFresh ==
  \A i \in DOMAIN up :
    up[i].kind = "input" /\ peer /\ ~reloaded
      => \A f \in up[i].frames : f.seq \in arrived \/ f.seq > lastAppliedSeq

(* Whatever the server still will apply, the client still replays: a frame  *)
(* in the server's queue is pending at the client, if it was cut in this    *)
(* run stream and is not older than the client's memory.  Prediction rests  *)
(* on it (reconciliation.ts 19).                                            *)
Connected == peer /\ link # "closed"
Settled == link = "open" /\ peer /\ \A i \in DOMAIN down : down[i].kind # "matchStart"
ReplayCoversServer ==
  Settled => \A s \in Seqs(inputQueue) :
               s > baseline /\ s > seq - PendingCap => s \in Seqs(pending)

(* While a kill cam gates the input of a connected player, somebody is      *)
(* going to release the gate: the clip is on its way to the client, it is   *)
(* queued, it plays, or its end is on its way back.                         *)
Announced == \E i \in DOMAIN down : down[i].kind = "killCam" /\ down[i].clip = activeKillCamId
Answered == \E i \in DOMAIN up : up[i].kind = "killCamDone" /\ up[i].clip = activeKillCamId
GateHasKeeper ==
  activeKillCamId # 0 /\ Connected
    => Announced \/ Answered \/ activeClip = activeKillCamId

-----------------------------------------------------------------------------
(* Liveness.                                                               *)

(* No queued frame waits for ever, not even the lone frame of a client that *)
(* sends sparsely (Room.ts 49).                                             *)
NoFrameWaits ==
  \A s \in 1..MaxSeq : s \in Seqs(inputQueue) ~> s \notin Seqs(inputQueue)

(* A kill cam never locks a player out: while the player stays connected    *)
(* the server's gate opens again, whatever was lost in a handoff.           *)
GateReopens == activeKillCamId # 0 /\ Connected ~> activeKillCamId = 0 \/ ~Connected

-----------------------------------------------------------------------------
(* What comments say and the code does not do.                             *)

(* "Every message repeats the last few frames so a dropped or reordered     *)
(* packet cannot lose an input" (NetSession.ts 745), and edges "go out      *)
(* immediately": an edge cut on an open connection is in a message.         *)
PressIsSent ==
  [][\A f \in pending' \ pending :
       f.seq > seq /\ CarriesAction(f) /\ link = "open"
         => \E i \in DOMAIN up' : up'[i].kind = "input" /\ f.seq \in Seqs(up'[i].frames)]_vars

(* killCamDone: "Victim finished or skipped this exact replay; releases     *)
(* the server input gate" (messages.ts 389).  So a replay that plays for a  *)
(* player who is down keeps the gate shut, if the connection is up.         *)
GateShutDuringReplay ==
  Settled /\ downed /\ playing # 0 /\ playing = downs => activeKillCamId = playing
=============================================================================
