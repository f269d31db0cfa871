----------------------------- MODULE Simulation -----------------------------
(***************************************************************************)
(* The rules of a run: simulation.ts, with inventory.ts and interactions.ts. *)
(* One tick is one call of step(), whose phases follow one another in the  *)
(* order of the code; between ticks the room applies inputs, changes       *)
(* controllers and removes the bodies of players who leave.                *)
(*                                                                         *)
(* Geometry is abstract: bodies, Dots, mines and the extraction point are  *)
(* in reach of one another when they are at the same place, alive bodies   *)
(* walk anywhere, and which attack lands, and on which plate, is open.     *)
(* Durations are counted in ticks; cooldowns end at any tick.              *)
(***************************************************************************)
EXTENDS Naturals, Sequences, FiniteSets, SequencesExt

CONSTANTS
  Bot,          \* bot ids, in the order in which the bots were spawned
  Squad,
  Item,
  Kind,         \* [Item -> {"health", "mine", "blueprint", "signal"}]
  Place,
  Exit,         \* the place of the extraction point
  Scene,        \* the bodies and Dots that a run may begin with
  BaySlots, HoldSlots, MaxPlates, MaxMines, MaxSquad,
  CaptureTicks, CoverTicks, LootTicks, ExtractTicks, SwapTicks,
  None

(* A Dot on the floor: who has it in hand, and for how long. *)
Lain == [place : Place, by : Bot \union {None}, progress : 0..(CaptureTicks - 1)]

ASSUME SimulationAssumption ==
  /\ Bot \subseteq Nat /\ IsFiniteSet(Bot) /\ IsFiniteSet(Item)
  /\ Kind \in [Item -> {"health", "mine", "blueprint", "signal"}]
  /\ Exit \in Place
  /\ None \notin Bot \union Squad \union Item \union Place \union Lain
  /\ None \notin {"unused", "spent", "extracted", "lost", "loot", "revive"}
  /\ {BaySlots, MaxPlates, MaxSquad, MaxMines, CaptureTicks, CoverTicks, LootTicks, ExtractTicks, SwapTicks}
       \subseteq Nat \ {0}
  /\ HoldSlots \in Nat

VARIABLES
  bots,     \* the bodies of the run
  dots,     \* the Dots that lie on the floor, by their item
  mines,    \* the mines, the oldest first
  gone,     \* where an item went that nobody can have any more
  phase,    \* the next phase of the tick; "idle" between ticks
  fighters, \* the bots that were alive when combat began
  acts      \* a bound: how much more the players press and the room hands over

vars == <<bots, dots, mines, gone, phase, fighters, acts>>

NoInput == [use |-> None, swap |-> None, drop |-> None, take |-> None, plea |-> FALSE, verb |-> None]

NoChannel == [actor |-> None, kind |-> None, progress |-> 0]

(* pleaded and searched belong to a body on the floor, channel is what is  *)
(* being done to it, exit its progress at the extraction point.  stay is   *)
(* history: in how many ticks the body has been in its place and state.    *)
(* does is a bound: what of all this the body and its player do in a scene. *)
Spawned(s, place) ==
  [state |-> "alive", control |-> s.control, squad |-> s.squad, place |-> place, does |-> s.does,
   plates |-> MaxPlates, safe |-> FALSE, bays |-> s.bays, hold |-> s.hold,
   searched |-> FALSE, pleaded |-> FALSE, quiet |-> FALSE,
   swap |-> None, input |-> NoInput, channel |-> NoChannel, exit |-> 0, stay |-> 0]

Absent == [state |-> "absent"]

Lying(place) == [place |-> place, by |-> None, progress |-> 0]

Init ==
  /\ \E s \in Scene :
       /\ bots = [b \in Bot |-> IF b \in DOMAIN s.bots THEN Spawned(s.bots[b], s.at) ELSE Absent]
       /\ dots = [i \in Item |-> IF i \in s.dots THEN Lying(s.at) ELSE None]
       /\ gone = [i \in Item |-> IF i \in s.items THEN None ELSE "unused"]
       /\ acts = s.acts
  /\ mines = <<>>
  /\ phase = "idle" /\ fighters = {}

(***************************************************************************)
(* A world is what the phases of a tick transform.                         *)
(***************************************************************************)
World == [bots |-> bots, dots |-> dots, mines |-> mines, gone |-> gone]

Becomes(w) == bots' = w.bots /\ dots' = w.dots /\ mines' = w.mines /\ gone' = w.gone

(* The n-th of a set of numbers, from the lowest. *)
Nth(S, n) == CHOOSE k \in S : Cardinality({j \in S : j <= k}) = n

Order == [n \in 1..Cardinality(Bot) |-> Nth(Bot, n)]

ItemOrder == SetToSeq(Item)

Present(w, b) == w.bots[b].state # "absent"

Alive(w, b) == w.bots[b].state = "alive"

Downed(w, b) == w.bots[b].state = "downed"

Controlled(w, b, control) == Present(w, b) /\ w.bots[b].control = control

Together(w, a, b) == w.bots[a].place = w.bots[b].place

Friendly(w, a, b) == w.bots[a].squad = w.bots[b].squad

Lowest(S) == CHOOSE b \in S : \A a \in S : b <= a

(***************************************************************************)
(* Inventories: bays keep their holes, the hold closes up.                 *)
(***************************************************************************)
FullBays(bot) == {k \in 1..BaySlots : bot.bays[k] # None}

EmptyBays(bot) == {k \in 1..BaySlots : bot.bays[k] = None}

Contents(bot) == {bot.bays[k] : k \in FullBays(bot)} \union ToSet(bot.hold)

Load(bot) == Cardinality(FullBays(bot)) + Len(bot.hold)

(* What it carries is counted over the bays in their order, then the hold. *)
Carried(bot, n) ==
  LET full == FullBays(bot) IN
  IF n <= Cardinality(full) THEN bot.bays[Nth(full, n)] ELSE bot.hold[n - Cardinality(full)]

HasRoom_bug(bot) == EmptyBays(bot) # {} \/ Len(bot.hold) <= HoldSlots
HasRoom(bot) == EmptyBays(bot) # {} \/ Len(bot.hold) < HoldSlots

(* Every change of an inventory makes another revision of it: a swap that  *)
(* began, and a drop that was asked for, under an older one are stale.     *)
Revised(bot) ==
  [bot EXCEPT !.swap = IF @ = None THEN None ELSE [@ EXCEPT !.fresh = FALSE],
              !.input.drop = IF @ = None THEN None ELSE [@ EXCEPT !.fresh = FALSE]]

Inserted(bot, i) ==
  IF EmptyBays(bot) # {} THEN [bot EXCEPT !.bays[Lowest(EmptyBays(bot))] = i]
  ELSE [bot EXCEPT !.hold = Append(@, i)]

(* Without the n-th item that it carries, or as it was if there is none. *)
Without(bot, n) ==
  LET full == FullBays(bot) IN
  IF n <= Cardinality(full) THEN [bot EXCEPT !.bays[Nth(full, n)] = None]
  ELSE IF n <= Load(bot) THEN [bot EXCEPT !.hold = RemoveAt(@, n - Cardinality(full))]
  ELSE bot

Restored(bot) == [bot EXCEPT !.plates = IF @ < MaxPlates THEN @ + 1 ELSE @]

(***************************************************************************)
(* A run may begin with bodies and Dots that have no item twice, in squads *)
(* that are not over their cap.                                            *)
(***************************************************************************)
Controls == {"human", "frozen", "ai"}

Deeds == {"use", "swap", "drop", "take", "plea", "loot", "revive", "walk", "fight", "away"}

Tidy(bot) ==
  /\ \A k, l \in FullBays(bot) : bot.bays[k] = bot.bays[l] => k = l
  /\ \A k, l \in DOMAIN bot.hold : bot.hold[k] = bot.hold[l] => k = l
  /\ \A k \in FullBays(bot), l \in DOMAIN bot.hold : bot.bays[k] # bot.hold[l]

ASSUME SceneAssumption ==
  \A s \in Scene :
    /\ DOMAIN s.bots \subseteq Bot /\ s.at \in Place /\ s.dots \subseteq Item
    /\ \A b \in DOMAIN s.bots :
         /\ s.bots[b] \in [control : Controls, squad : Squad, bays : [1..BaySlots -> Item \union {None}],
                           hold : Seq(Item), does : SUBSET Deeds]
         /\ Len(s.bots[b].hold) <= HoldSlots /\ Tidy(s.bots[b])
         /\ Contents(s.bots[b]) \intersect s.dots = {}
         /\ \A a \in DOMAIN s.bots \ {b} : Contents(s.bots[a]) \intersect Contents(s.bots[b]) = {}
    /\ s.items = s.dots \union UNION {Contents(s.bots[b]) : b \in DOMAIN s.bots}
    /\ \A q \in Squad : Cardinality({b \in DOMAIN s.bots : s.bots[b].squad = q}) <= MaxSquad
    /\ s.acts \in Nat

(***************************************************************************)
(* What a player asks for before a tick.  Of the requests of several       *)
(* frames the first is kept; the verb for bodies is the last.              *)
(***************************************************************************)
All == 0   \* the index of a take of everything that fits

Requests ==
  [use |-> 1..BaySlots,
   swap |-> [bay : 1..BaySlots, slot : 1..HoldSlots],
   drop |-> [from : {"bay"}, index : 1..BaySlots, fresh : BOOLEAN]
            \union [from : {"hold"}, index : 1..HoldSlots, fresh : BOOLEAN],
   take |-> [body : Bot, index : {All} \union 1..(BaySlots + HoldSlots)]]

Press(b) ==
  /\ phase = "idle" /\ Controlled(World, b, "human")
  /\ acts > 0 /\ acts' = acts - 1
  /\ \/ \E k \in bots[b].does \intersect DOMAIN Requests : \E what \in Requests[k] :
          /\ bots[b].input[k] = None
          /\ bots' = [bots EXCEPT ![b].input[k] = what]
     \/ /\ "plea" \in bots[b].does /\ ~bots[b].input.plea
        /\ bots' = [bots EXCEPT ![b].input.plea = TRUE]
     \/ \E v \in ({"loot", "revive"} \intersect bots[b].does) \union {None} :
          v # bots[b].input.verb /\ bots' = [bots EXCEPT ![b].input.verb = v]
  /\ UNCHANGED <<dots, mines, gone, phase, fighters>>

(***************************************************************************)
(* updateHumanIntents.                                                     *)
(***************************************************************************)
(* A drop from a snapshot that is not the latest is refused. *)
Drops(bot) ==
  LET d == bot.input.drop IN
  /\ d # None /\ d.fresh
  /\ IF d.from = "bay" THEN bot.bays[d.index] # None ELSE d.index <= Len(bot.hold)

Dropped(w, b) ==
  LET bot == w.bots[b]  d == bot.input.drop
      item == IF d.from = "bay" THEN bot.bays[d.index] ELSE bot.hold[d.index]
      left == IF d.from = "bay" THEN [bot EXCEPT !.bays[d.index] = None]
              ELSE [bot EXCEPT !.hold = RemoveAt(@, d.index)]
  IN  [w EXCEPT !.bots[b] = [Revised(left) EXCEPT !.swap = None],
                !.dots[item] = Lying(bot.place)]

Owned(w, b) == {k \in DOMAIN w.mines : w.mines[k].owner = b}

Buried(w, b) == {w.mines[k].item : k \in Owned(w, b)}

(* The oldest mine goes when its owner has too many. *)
Placed(w, b, item) ==
  LET mine == [item |-> item, owner |-> b, squad |-> w.bots[b].squad, place |-> w.bots[b].place, armed |-> FALSE]
      oldest == Lowest(Owned(w, b))
  IN  IF Cardinality(Owned(w, b)) < MaxMines THEN [w EXCEPT !.mines = Append(@, mine)]
      ELSE [w EXCEPT !.mines = Append(RemoveAt(@, oldest), mine), !.gone[w.mines[oldest].item] = "spent"]

(* Every mine of a bot is taken out. *)
Cleared(w, b) ==
  LET left == DOMAIN w.mines \ Owned(w, b)
  IN  [n \in 1..Cardinality(left) |-> w.mines[Nth(left, n)]]

Fired(w, b, k) ==
  LET item == w.bots[b].bays[k]
      left == Revised([w.bots[b] EXCEPT !.bays[k] = None])
  IN  IF item = None \/ (item # None /\ Kind[item] = "blueprint") THEN w
      ELSE IF Kind[item] = "mine" THEN Placed([w EXCEPT !.bots[b] = left], b, item)
      ELSE [w EXCEPT !.bots[b] = IF Kind[item] = "health" THEN Restored(left) ELSE left,
                     !.gone[item] = "spent"]

(* chosen is history: what the swap is to exchange. *)
SwapBegun(w, b) ==
  LET bot == w.bots[b]  s == bot.input.swap IN
  IF s = None \/ bot.swap # None \/ s.slot > Len(bot.hold) THEN w
  ELSE [w EXCEPT !.bots[b].swap =
         [bay |-> s.bay, slot |-> s.slot, fresh |-> TRUE, progress |-> 0,
          chosen |-> <<bot.bays[s.bay], bot.hold[s.slot]>>]]

CanTake(w, a, b) ==
  /\ a # b /\ Alive(w, a) /\ Downed(w, b) /\ w.bots[b].searched
  /\ ~Friendly(w, a, b) /\ Together(w, a, b)

TakenOne_bug(w, a, b, n) ==
  IF ~HasRoom(w.bots[a]) \/ n > Load(w.bots[b]) THEN w
  ELSE [w EXCEPT !.bots[a] = Inserted(@, Carried(w.bots[b], n)),
                 !.bots[b] = Revised(Without(@, n))]
TakenOne_copy_bug(w, a, b, n) ==
  IF ~HasRoom(w.bots[a]) \/ n > Load(w.bots[b]) THEN w
  ELSE [w EXCEPT !.bots[a] = Revised(Inserted(@, Carried(w.bots[b], n)))]
TakenOne(w, a, b, n) ==
  IF ~HasRoom(w.bots[a]) \/ n > Load(w.bots[b]) THEN w
  ELSE [w EXCEPT !.bots[a] = Revised(Inserted(w.bots[a], Carried(w.bots[b], n))),
                 !.bots[b] = Revised(Without(w.bots[b], n))]

Taken(w, a) ==
  LET t == w.bots[a].input.take IN
  IF t = None THEN w
  ELSE IF ~CanTake(w, a, t.body) THEN w
  ELSE IF t.index # All THEN TakenOne(w, a, t.body, t.index)
  ELSE FoldLeft(LAMBDA x, k : TakenOne(x, a, t.body, 1), w, [k \in 1..(BaySlots + HoldSlots) |-> k])

Pleads(w, b) == [w EXCEPT !.bots[b].pleaded = TRUE, !.bots[b].quiet = TRUE]

Consumed(w, b) == [w EXCEPT !.bots[b].input = [NoInput EXCEPT !.verb = w.bots[b].input.verb]]

(* A body on the floor may drop and plead.  A take it asked for is not     *)
(* consumed alone, so that it may still be there when the body is up.      *)
DownedIntent(w, b) ==
  LET in == w.bots[b].input
      pled == IF Downed(w, b) /\ in.plea /\ ~w.bots[b].quiet THEN Pleads(w, b) ELSE w
  IN  IF in.plea \/ \E k \in {"use", "swap", "drop"} : in[k] # None THEN [pled EXCEPT !.bots[b].input = NoInput] ELSE pled

AliveIntent(w, b) ==
  LET used == IF w.bots[b].input.use = None THEN w ELSE Fired(w, b, w.bots[b].input.use)
  IN  Consumed(Taken(SwapBegun(used, b), b), b)

(* Whoever is on the floor and is not a player pleads by itself. *)
Intent(w, b) ==
  IF ~Present(w, b) THEN w
  ELSE IF ~Controlled(w, b, "human") THEN
    IF Downed(w, b) /\ ~w.bots[b].quiet THEN Pleads(w, b) ELSE w
  ELSE LET drops == Drops(w.bots[b])
           after == IF drops THEN Dropped(w, b) ELSE w
       IN  IF ~Alive(w, b) THEN DownedIntent(after, b)
           ELSE IF drops THEN Consumed(after, b)
           ELSE AliveIntent(after, b)

(* The timers run first, and mines that were placed before are armed. *)
Timed(w, calm, bare) ==
  [w EXCEPT !.bots = [b \in Bot |->
                IF ~Present(w, b) THEN w.bots[b]
                ELSE [w.bots[b] EXCEPT !.quiet = @ /\ b \notin calm, !.safe = @ /\ b \notin bare]],
            !.mines = [k \in DOMAIN w.mines |-> [w.mines[k] EXCEPT !.armed = TRUE]]]

Intents ==
  /\ phase = "idle" /\ phase' = "move"
  /\ \E calm \in SUBSET {b \in Bot : Present(World, b) /\ bots[b].quiet},
        bare \in SUBSET {b \in Bot : Present(World, b) /\ bots[b].safe} :
       Becomes(FoldLeft(Intent, Timed(World, calm, bare), Order))
  /\ UNCHANGED <<fighters, acts>>

(***************************************************************************)
(* Movement, and the escorts that spend their health items.                *)
(***************************************************************************)
Escort(w, b) == Alive(w, b) /\ Controlled(w, b, "ai")

HealthBays(bot) == {k \in 1..BaySlots : bot.bays[k] # None /\ Kind[bot.bays[k]] = "health"}

EscortHeals ==
  /\ phase = "move"
  /\ \E b \in Bot :
       /\ Escort(World, b) /\ bots[b].plates < MaxPlates /\ HealthBays(bots[b]) # {}
       /\ Becomes(Fired(World, b, Lowest(HealthBays(bots[b]))))
  /\ UNCHANGED <<phase, fighters, acts>>

Walk ==
  /\ phase = "move" /\ phase' = "mines"
  /\ \E to \in [{b \in Bot : Alive(World, b) /\ "walk" \in bots[b].does} -> Place] :
       bots' = [b \in Bot |->
         IF b \in DOMAIN to /\ to[b] # bots[b].place
         THEN [bots[b] EXCEPT !.place = to[b], !.stay = 0] ELSE bots[b]]
  /\ UNCHANGED <<dots, mines, gone, fighters, acts>>

(***************************************************************************)
(* Harm.                                                                   *)
(***************************************************************************)
PutDown(bot) == [bot EXCEPT !.state = "downed", !.plates = 0, !.pleaded = FALSE, !.stay = 0]

(* A hit breaks a plate, or goes past the plates that are left. *)
Struck(bot) ==
  {[x EXCEPT !.safe = TRUE] : x \in
     (IF bot.plates > 0 THEN {[bot EXCEPT !.plates = @ - 1]} ELSE {})
     \union (IF bot.plates < MaxPlates THEN {PutDown(bot)} ELSE {})}

Detonate ==
  /\ phase = "mines"
  /\ \E k \in DOMAIN mines, b \in Bot :
       /\ mines[k].armed /\ Alive(World, b)
       /\ bots[b].place = mines[k].place /\ bots[b].squad # mines[k].squad
       /\ mines' = RemoveAt(mines, k)
       /\ gone' = [gone EXCEPT ![mines[k].item] = "spent"]
       /\ IF bots[b].safe THEN UNCHANGED bots
          ELSE \E hit \in Struck(bots[b]) : bots' = [bots EXCEPT ![b] = hit]
  /\ UNCHANGED <<dots, phase, fighters, acts>>

Engage ==
  /\ phase = "mines" /\ phase' = "combat"
  /\ fighters' = {b \in Bot : Alive(World, b)}
  /\ UNCHANGED <<bots, dots, mines, gone, acts>>

(* A bot that was put down in this tick still rams what it was moving into. *)
Hit ==
  /\ phase = "combat"
  /\ \E a \in fighters, b \in Bot :
       /\ "fight" \in bots[a].does
       /\ a # b /\ Alive(World, b) /\ ~bots[b].safe
       /\ ~Friendly(World, a, b) /\ Together(World, a, b)
       /\ \E hit \in Struck(bots[b]) : bots' = [bots EXCEPT ![b] = hit]
  /\ UNCHANGED <<dots, mines, gone, phase, fighters, acts>>

(***************************************************************************)
(* resolveDotCapture.  A player's hands come first, then an escort that is *)
(* ordered to the Dot, then one that needs the health in it.               *)
(***************************************************************************)
AtDot(w, i, control) ==
  {b \in Bot : Alive(w, b) /\ Controlled(w, b, control) /\ w.bots[b].place = w.dots[i].place}

Wounded(w, S) == {b \in S : w.bots[b].plates < MaxPlates}

MostWounded(w, S) == Lowest({b \in S : \A a \in S : w.bots[b].plates <= w.bots[a].plates})

Capturer(w, i, marks) ==
  LET humans == AtDot(w, i, "human")
      escorts == AtDot(w, i, "ai")
      ordered == {b \in escorts : marks[w.bots[b].squad] = i}
      needy == IF Kind[i] = "health" THEN Wounded(w, escorts) ELSE {}
  IN  IF humans # {} THEN Lowest(humans)
      ELSE IF ordered # {} THEN Lowest(ordered)
      ELSE IF needy # {} THEN MostWounded(w, needy)
      ELSE None

(* An escort that is wounded uses up the health. *)
Captured(w, i, b) ==
  IF Escort(w, b) /\ Kind[i] = "health" /\ w.bots[b].plates < MaxPlates
  THEN [w EXCEPT !.bots[b] = Restored(w.bots[b]), !.dots[i] = None, !.gone[i] = "spent"]
  ELSE IF HasRoom(w.bots[b]) THEN [w EXCEPT !.bots[b] = Revised(Inserted(w.bots[b], i)), !.dots[i] = None]
  ELSE [w EXCEPT !.dots[i] = Lying(w.dots[i].place)]

DotAfter_bug(w, i, marks) ==
  LET b == Capturer(w, i, marks)  p == w.dots[i].progress + 1 IN
  IF b = None THEN [w EXCEPT !.dots[i].by = None]
  ELSE IF p >= CaptureTicks THEN Captured(w, i, b)
  ELSE [w EXCEPT !.dots[i].by = b, !.dots[i].progress = p]
DotAfter(w, i, marks) ==
  LET b == Capturer(w, i, marks)
      p == IF w.dots[i].by = b THEN w.dots[i].progress + 1 ELSE 1
  IN  IF b = None THEN [w EXCEPT !.dots[i] = Lying(w.dots[i].place)]
      ELSE IF p >= CaptureTicks THEN Captured(w, i, b)
      ELSE [w EXCEPT !.dots[i].by = b, !.dots[i].progress = p]

DotsResolved(w, marks) ==
  FoldLeft(LAMBDA x, i : IF x.dots[i] = None THEN x ELSE DotAfter(x, i, marks), w, ItemOrder)

(* A squad's mark matters where one of its escorts stands on the Dot. *)
Marks(w) ==
  {m \in [Squad -> Item \union {None}] :
     \A s \in Squad : m[s] # None =>
       w.dots[m[s]] # None /\ \E b \in AtDot(w, m[s], "ai") : w.bots[b].squad = s}

(***************************************************************************)
(* resolveDownedCoverage.                                                  *)
(***************************************************************************)
(* Which of the bodies in its reach is the nearest to each alive bot. *)
Nearest(w) ==
  LET bodies(b) == {d \in Bot : Downed(w, d) /\ Together(w, b, d)}
      near == {b \in Bot : Alive(w, b) /\ bodies(b) # {}}
  IN  {f \in [near -> Bot] : \A b \in near : f[b] \in bodies(b)}

SquadSize(w, s) == Cardinality({b \in Bot : Present(w, b) /\ w.bots[b].squad = s})

CanRecruit_bug(w, a, b) == w.bots[b].pleaded /\ SquadSize(World, w.bots[a].squad) < MaxSquad
CanRecruit(w, a, b) == w.bots[b].pleaded /\ SquadSize(w, w.bots[a].squad) < MaxSquad

(* The player, or else the bot, with the lowest id whose nearest body it is. *)
Coverer(w, nearest, d) ==
  LET all == {b \in DOMAIN nearest : nearest[b] = d}
      humans == {b \in all : Controlled(w, b, "human")}
  IN  IF humans # {} THEN Lowest(humans) ELSE IF all # {} THEN Lowest(all) ELSE None

Verb(w, a, d) ==
  IF a = None THEN None
  ELSE IF Friendly(w, a, d) THEN "revive"
  ELSE IF ~Controlled(w, a, "human") THEN None
  ELSE IF w.bots[a].input.verb = "revive" THEN IF CanRecruit(w, a, d) THEN "revive" ELSE None
  ELSE IF w.bots[a].input.verb = "loot" /\ ~w.bots[d].searched THEN "loot"
  ELSE None

(* A rival that is picked up changes sides, and its mines are removed. *)
Revived_bug(w, d, a) ==
  [w EXCEPT !.bots[d] = [@ EXCEPT !.squad = w.bots[a].squad, !.state = "alive", !.pleaded = FALSE,
                                  !.searched = FALSE, !.plates = 1, !.safe = TRUE, !.channel = NoChannel, !.stay = 1]]
Revived(w, d, a) ==
  LET up == [w EXCEPT !.bots[d] =
               [w.bots[d] EXCEPT !.squad = w.bots[a].squad, !.state = "alive", !.pleaded = FALSE,
                                 !.searched = FALSE, !.plates = 1, !.safe = TRUE, !.channel = NoChannel, !.stay = 1]]
  IN  IF Friendly(w, a, d) THEN up
      ELSE [up EXCEPT !.mines = Cleared(w, d),
                      !.gone = [i \in Item |-> IF i \in Buried(w, d) THEN "spent" ELSE w.gone[i]]]

Covered(w, nearest, d) ==
  LET a == Coverer(w, nearest, d)  verb == Verb(w, a, d)  old == w.bots[d].channel
      p == IF old.actor = a /\ old.kind = verb THEN old.progress + 1 ELSE 1
  IN  IF verb = None THEN [w EXCEPT !.bots[d].channel = NoChannel]
      ELSE IF p < (IF verb = "loot" THEN LootTicks ELSE CoverTicks)
           THEN [w EXCEPT !.bots[d].channel = [actor |-> a, kind |-> verb, progress |-> p]]
      ELSE IF verb = "loot" THEN [w EXCEPT !.bots[d].searched = TRUE, !.bots[d].channel = NoChannel]
      ELSE Revived(w, d, a)

BodiesResolved(w, nearest) ==
  FoldLeft(LAMBDA x, d : IF Downed(w, d) THEN Covered(x, nearest, d) ELSE x, w, Order)

(***************************************************************************)
(* Leaving the simulation, by extraction or with the player.               *)
(***************************************************************************)
Removed(w, b, where) ==
  LET freed == [d \in Bot |-> IF Downed(w, d) /\ w.bots[d].channel.actor = b
                              THEN [w.bots[d] EXCEPT !.channel = NoChannel] ELSE w.bots[d]]
  IN  [bots |-> [freed EXCEPT ![b] = Absent],
       dots |-> [i \in Item |-> IF w.dots[i] # None /\ w.dots[i].by = b
                                THEN [w.dots[i] EXCEPT !.by = None] ELSE w.dots[i]],
       mines |-> Cleared(w, b),
       gone |-> [i \in Item |-> IF i \in Contents(w.bots[b]) THEN where
                                ELSE IF i \in Buried(w, b) THEN "spent" ELSE w.gone[i]]]

Extracting(w, b) ==
  Alive(w, b) /\ Controlled(w, b, "human") /\ w.bots[b].place = Exit /\ Load(w.bots[b]) > 0

Extracted(w, b) ==
  IF ~Present(w, b) THEN w
  ELSE IF ~Extracting(w, b) THEN [w EXCEPT !.bots[b].exit = 0]
  ELSE IF w.bots[b].exit + 1 >= ExtractTicks THEN Removed(w, b, "extracted")
  ELSE [w EXCEPT !.bots[b].exit = w.bots[b].exit + 1]

ExtractionResolved(w) == FoldLeft(Extracted, w, Order)

(***************************************************************************)
(* resolveSwaps.                                                           *)
(***************************************************************************)
Exchanged(bot) ==
  LET s == bot.swap  held == bot.hold[s.slot]  bay == bot.bays[s.bay] IN
  [Revised(bot) EXCEPT !.bays[s.bay] = held, !.swap = None,
     !.hold = IF bay = None THEN RemoveAt(@, s.slot) ELSE [@ EXCEPT ![s.slot] = bay]]

SwapAfter(bot) ==
  IF bot.state = "absent" THEN bot
  ELSE IF bot.swap = None THEN bot
  ELSE IF bot.state # "alive" \/ ~bot.swap.fresh THEN [bot EXCEPT !.swap = None]
  ELSE IF bot.swap.progress + 1 >= SwapTicks THEN Exchanged(bot)
  ELSE [bot EXCEPT !.swap.progress = @ + 1]

SwapsResolved(w) == [w EXCEPT !.bots = [b \in Bot |-> SwapAfter(w.bots[b])]]

(***************************************************************************)
(* The end of a tick.                                                      *)
(***************************************************************************)
Longest == CHOOSE n \in {CaptureTicks, CoverTicks, LootTicks, ExtractTicks} :
             \A m \in {CaptureTicks, CoverTicks, LootTicks, ExtractTicks} : m <= n

Stayed(w) ==
  [w EXCEPT !.bots = [b \in Bot |->
     IF Present(w, b) THEN [w.bots[b] EXCEPT !.stay = IF @ < Longest THEN @ + 1 ELSE @] ELSE w.bots[b]]]

Channels ==
  /\ phase = "combat" /\ phase' = "idle" /\ fighters' = {} /\ UNCHANGED acts
  /\ \E marks \in Marks(World) :
       LET w == DotsResolved(Stayed(World), marks) IN
       \E nearest \in Nearest(w) :
         Becomes(SwapsResolved(ExtractionResolved(BodiesResolved(w, nearest))))

(***************************************************************************)
(* The room between ticks: a connection is lost, its grace expires or the  *)
(* player is back in time.  A player who leaves is replaced for the rest   *)
(* of the run, unless on the floor or in a room that is no public arena:   *)
(* then the body goes.                                                     *)
(***************************************************************************)
NextControl(control) ==
  CASE control = "human" -> {"frozen", "ai"}
    [] control = "frozen" -> {"human", "ai"}
    [] control = "ai" -> {}

HandOver(b) ==
  /\ phase = "idle" /\ Present(World, b) /\ "away" \in bots[b].does
  /\ acts > 0 /\ acts' = acts - 1
  /\ \E c \in NextControl(bots[b].control) : bots' = [bots EXCEPT ![b].control = c]
  /\ UNCHANGED <<dots, mines, gone, phase, fighters>>

Leave(b) ==
  /\ phase = "idle" /\ Controlled(World, b, "human")
  /\ Becomes(Removed(World, b, "lost"))
  /\ UNCHANGED <<phase, fighters, acts>>

Next ==
  \/ \E b \in Bot : Press(b) \/ HandOver(b) \/ Leave(b)
  \/ Intents \/ EscortHeals \/ Walk \/ Detonate \/ Engage \/ Hit \/ Channels

Spec == Init /\ [][Next]_vars
=============================================================================
