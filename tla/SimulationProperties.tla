------------------------ MODULE SimulationProperties ------------------------
(***************************************************************************)
(* What must hold of a run at the end of every tick, and between its       *)
(* phases, whatever the players and the bots ask for.                      *)
(***************************************************************************)
EXTENDS Simulation

Bodies == {b \in Bot : Present(World, b)}

SwapsOf == [bay : 1..BaySlots, slot : 1..HoldSlots, fresh : BOOLEAN, progress : 0..(SwapTicks - 1),
            chosen : (Item \union {None}) \X Item]

Channelings == [actor : Bot \union {None}, kind : {"loot", "revive", None}, progress : 0..Longest]

BodyCorrect(bot) ==
  /\ bot.state \in {"alive", "downed"} /\ bot.control \in Controls
  /\ bot.squad \in Squad /\ bot.place \in Place /\ bot.plates \in 0..MaxPlates
  /\ bot.bays \in [1..BaySlots -> Item \union {None}]
  /\ bot.hold \in Seq(Item) /\ Len(bot.hold) <= HoldSlots
  /\ {bot.safe, bot.searched, bot.pleaded, bot.quiet} \subseteq BOOLEAN
  /\ bot.swap \in SwapsOf \union {None}
  /\ bot.channel \in Channelings /\ bot.exit \in 0..(ExtractTicks - 1) /\ bot.stay \in 0..Longest

(* Every variable has its shape, and no inventory is over its slots. *)
TypeOK ==
  /\ DOMAIN bots = Bot /\ \A b \in Bodies : BodyCorrect(bots[b])
  /\ dots \in [Item -> Lain \union {None}]
  /\ mines \in Seq([item : Item, owner : Bot, squad : Squad, place : Place, armed : BOOLEAN])
  /\ gone \in [Item -> {None, "unused", "spent", "extracted", "lost"}]
  /\ phase \in {"idle", "move", "mines", "combat"} /\ fighters \subseteq Bot

(* How many times an item is carried, lies on the floor, or is a mine. *)
Copies(i) ==
  Cardinality({s \in Bodies \X (1..BaySlots) : bots[s[1]].bays[s[2]] = i})
  + Cardinality({s \in Bodies \X (1..HoldSlots) : s[2] <= Len(bots[s[1]].hold) /\ bots[s[1]].hold[s[2]] = i})
  + (IF dots[i] # None THEN 1 ELSE 0)
  + Cardinality({k \in DOMAIN mines : mines[k].item = i})

(* Items are neither copied nor lost: by whatever order several players drop, *)
(* take, swap, fire, capture, are recruited and leave, each item stays in  *)
(* exactly one place until it is spent, extracted or lost with its owner   *)
(* (takeFromBody, dropItem, fireBay, resolveSwaps, removeBot).             *)
ItemsAreConserved == \A i \in Item : Copies(i) = IF gone[i] = None THEN 1 ELSE 0

(* A swap that will complete exchanges the two items that its player chose: *)
(* nothing that happened to the inventory since then, a capture or items    *)
(* taken off a body, has put another item in either slot (resolveSwaps and  *)
(* the revision that every change of an inventory must raise).              *)
SwapIsAsChosen ==
  \A b \in Bodies : bots[b].swap # None =>
    LET s == bots[b].swap IN
    s.fresh => s.slot <= Len(bots[b].hold) /\ s.chosen = <<bots[b].bays[s.bay], bots[b].hold[s.slot]>>

(* No mine outlives its owner or turns on its side: the owner is in the    *)
(* run and is of the squad the mine spares, through recruitment, extraction *)
(* and departure, and it has no more than its share of them (placeMine,     *)
(* reviveBot, removeBot).                                                   *)
MinesFollowTheirOwner ==
  /\ \A k \in DOMAIN mines : mines[k].owner \in Bodies /\ mines[k].squad = bots[mines[k].owner].squad
  /\ \A b \in Bot : Cardinality(Owned(World, b)) <= MaxMines

(* A squad never grows over its cap, also when several of its members pick *)
(* up rivals that end their channels in the same tick (canRecruit).         *)
SquadsAreCapped == \A s \in Squad : SquadSize(World, s) <= MaxSquad

(* Whoever is about to finish a channel did all of it: progress on a Dot,  *)
(* on a body or at the extraction point is never more than the ticks for   *)
(* which its actor, and the body, have stayed where and as they are, so    *)
(* that none is inherited from the bot that stood there before             *)
(* (resolveDotCapture, resolveDownedCoverage, resolveExtraction).           *)
ProgressIsEarned ==
  phase = "idle" =>
    /\ \A i \in Item : dots[i] # None /\ dots[i].by # None => dots[i].progress <= bots[dots[i].by].stay
    /\ \A b \in Bodies : bots[b].exit <= bots[b].stay
    /\ \A b \in Bodies : Downed(World, b) =>
         LET c == bots[b].channel IN
         c.actor # None => c.progress <= bots[b].stay /\ c.progress <= bots[c.actor].stay
=============================================================================
