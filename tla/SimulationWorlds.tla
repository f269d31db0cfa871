-------------------------- MODULE SimulationWorlds --------------------------
(***************************************************************************)
(* What the operators of the simulation do to the bots, the Dots and the   *)
(* mines of a run, for every number of bots, squads, items, slots and      *)
(* ticks.                                                                  *)
(*                                                                         *)
(* A world is Sound if its bots are well formed (a bay or the hold carries *)
(* an item once, a swap that is not stale exchanges what it was begun      *)
(* for), no item is in two places, every mine belongs to somebody of the   *)
(* side it spares, and no squad is over its cap.  The lemmas say that an   *)
(* intent, a hit, a drop, a mine, a swap and a tick's count-downs turn a   *)
(* sound world into a sound one (Keeps), and what they leave of the bots   *)
(* in it (Steady, Quiet, Standing).                                        *)
(*                                                                         *)
(* What is picked, counted or ordered by a fold is followed by Folded: the *)
(* library defines MapThenFoldSet by CHOOSE, so the lemmas FoldExists,     *)
(* FoldKeeps and FoldReaches derive from that choice that a fold keeps     *)
(* what its step keeps and reaches every member once.                      *)
(***************************************************************************)
EXTENDS SimulationProperties, SequenceTheorems, FunctionTheorems, FiniteSetTheorems, TLAPS

(***************************************************************************)
(* The worlds that the phases of a tick turn into one another.             *)
(***************************************************************************)
Inputs == [use : (1..BaySlots) \union {None}, swap : Requests.swap \union {None},
           drop : Requests.drop \union {None}, take : Requests.take \union {None},
           plea : BOOLEAN, verb : {"loot", "revive", None}]

Body == [state : {"alive", "downed"}, control : Controls, squad : Squad, place : Place, does : SUBSET Deeds,
         plates : 0..MaxPlates, safe : BOOLEAN, bays : [1..BaySlots -> Item \union {None}], hold : Seq(Item),
         searched : BOOLEAN, pleaded : BOOLEAN, quiet : BOOLEAN, swap : SwapsOf \union {None}, input : Inputs,
         channel : Channelings, exit : 0..(ExtractTicks - 1), stay : 0..Longest]

(* A swap that is not stale exchanges what it was begun for. *)
AsChosen(bot) ==
  bot.swap # None /\ bot.swap.fresh =>
    /\ bot.swap.slot <= Len(bot.hold)
    /\ bot.swap.chosen = <<bot.bays[bot.swap.bay], bot.hold[bot.swap.slot]>>

Sane == {x \in Body : Len(x.hold) <= HoldSlots /\ Tidy(x) /\ AsChosen(x)}

Armed == [item : Item, owner : Bot, squad : Squad, place : Place, armed : BOOLEAN]

Ends == {None, "unused", "spent", "extracted", "lost"}

Worlds == [bots : [Bot -> Sane \union {Absent}], dots : [Item -> Lain \union {None}],
           mines : Seq(Armed), gone : [Item -> Ends]]

Has(w, b, i) == Present(w, b) /\ i \in Contents(w.bots[b])

Laid(w) == {w.mines[k].item : k \in DOMAIN w.mines}

(* An item is in one place at most, and in none once it is gone. *)
One(w, i) ==
  /\ \A a, b \in Bot : Has(w, a, i) /\ Has(w, b, i) => a = b
  /\ \A b \in Bot : Has(w, b, i) => w.dots[i] = None /\ i \notin Laid(w)
  /\ i \in Laid(w) => w.dots[i] = None
  /\ w.gone[i] = None <=> w.dots[i] # None \/ i \in Laid(w) \/ \E b \in Bot : Has(w, b, i)

Apart(w) ==
  /\ \A k, l \in DOMAIN w.mines : w.mines[k].item = w.mines[l].item => k = l
  /\ \A i \in Item : One(w, i)

Allied(w) ==
  /\ \A k \in DOMAIN w.mines :
       Present(w, w.mines[k].owner) /\ w.mines[k].squad = w.bots[w.mines[k].owner].squad
  /\ \A b \in Bot : Cardinality(Owned(w, b)) <= MaxMines

Capped(w) == \A s \in Squad : SquadSize(w, s) <= MaxSquad

Sound(w) == w \in Worlds /\ Apart(w) /\ Allied(w) /\ Capped(w)


(***************************************************************************)
(* Numbers.                                                                *)
(***************************************************************************)
(* A nonempty set of naturals has a least element. *)
LEMMA LeastOf ==
  ASSUME NEW T, T \subseteq Nat, T # {}
  PROVE  \E x \in T : \A t \in T : x <= t
  <1> DEFINE Less == {ss \in Nat \X Nat : ss[1] < ss[2]}
  <1>1. IsWellFoundedOn(Less, Nat)
    BY NatLessThanWellFounded, Zenon DEF OpToRel
  <1>2. \A x, y \in Nat : x < y => <<x, y>> \in Less
    OBVIOUS
  <1> HIDE DEF Less
  <1>3. \E x \in T : \A y \in T : ~(<<y, x>> \in Less)
    BY ONLY <1>1, WFMin, T \subseteq Nat, T # {}
  <1>4. PICK x \in T : \A y \in T : ~(<<y, x>> \in Less)
    BY <1>3
  <1>5. \A y \in T : x <= y
    <2> TAKE y \in T
    <2>1. x \in Nat /\ y \in Nat
      OBVIOUS
    <2>2. ~(y < x)
      BY <1>2, <1>4, <2>1
    <2> QED
      BY <2>1, <2>2
  <1> QED
    BY <1>5

LEMMA LowestIs ==
  ASSUME NEW S, S \subseteq Nat, S # {}
  PROVE  Lowest(S) \in S
  BY LeastOf DEF Lowest

(* The numbers up to n that are in a nonempty set have a greatest one. *)
LEMMA GreatestIs ==
  ASSUME NEW n \in Nat, NEW S \in SUBSET (1..n), S # {}
  PROVE  Max(S) \in S /\ \A k \in S : k <= Max(S)
  <1> DEFINE T == {n - k : k \in S}
  <1>0. \A k \in S : n - k \in Nat
    OBVIOUS
  <1>1. T \subseteq Nat /\ T # {}
    BY <1>0
  <1>2. PICK x \in T : \A t \in T : x <= t
    BY <1>1, LeastOf
  <1>3. PICK m \in S : x = n - m
    BY <1>2
  <1>4. \A k \in S : m >= k
    <2> TAKE k \in S
    <2>1. n - k \in T
      OBVIOUS
    <2>2. n - m <= n - k
      BY <1>2, <1>3, <2>1
    <2> QED
      BY <2>2
  <1>5. \E y \in S : \A k \in S : y >= k
    BY <1>4
  <1>6. Max(S) \in S /\ \A k \in S : Max(S) >= k
    BY <1>5 DEF Max
  <1> QED
    BY <1>6

(* The members of a finite set of numbers are counted from the lowest. *)
LEMMA NthIs ==
  ASSUME NEW S, S \subseteq Nat, IsFiniteSet(S)
  PROVE  /\ Cardinality(S) \in Nat
         /\ \A n \in 1..Cardinality(S) : Nth(S, n) \in S
         /\ \A n, m \in 1..Cardinality(S) : Nth(S, n) = Nth(S, m) => n = m
         /\ \A k \in S : \E n \in 1..Cardinality(S) : Nth(S, n) = k
  <1> DEFINE N == Cardinality(S)
             UpTo(r) == {q \in S : q <= r}
             rank == [r \in S |-> Cardinality(UpTo(r))]
  <1>1. N \in Nat
    BY FS_CardinalityType
  <1>2. \A r \in S : IsFiniteSet(UpTo(r)) /\ Cardinality(UpTo(r)) \in 1..N
    <2> TAKE r \in S
    <2>1. UpTo(r) \in SUBSET S /\ r \in UpTo(r)
      OBVIOUS
    <2>2. IsFiniteSet(UpTo(r)) /\ Cardinality(UpTo(r)) <= N
      BY <2>1, FS_Subset
    <2>3. Cardinality(UpTo(r)) \in Nat /\ Cardinality(UpTo(r)) # 0
      BY <2>1, <2>2, FS_CardinalityType, FS_EmptySet
    <2> QED
      BY <1>1, <2>2, <2>3
  <1>3. \A q, r \in S : q < r => Cardinality(UpTo(q)) < Cardinality(UpTo(r))
    <2> SUFFICES ASSUME NEW q \in S, NEW r \in S, q < r
                 PROVE  Cardinality(UpTo(q)) < Cardinality(UpTo(r))
      OBVIOUS
    <2>1. UpTo(q) \subseteq UpTo(r) /\ r \in UpTo(r) /\ r \notin UpTo(q)
      <3>1. \A a \in S : a \in Nat
        OBVIOUS
      <3>2. \A a \in S : a <= q => a <= r
        BY <3>1
      <3>3. UpTo(q) \subseteq UpTo(r)
        BY <3>2
      <3>4. r <= r /\ ~(r <= q)
        BY <3>1
      <3> QED
        BY <3>3, <3>4
    <2>2. /\ Cardinality(UpTo(q)) <= Cardinality(UpTo(r))
          /\ Cardinality(UpTo(r)) = Cardinality(UpTo(q)) => UpTo(r) = UpTo(q)
      BY <1>2, <2>1, FS_Subset
    <2> QED
      BY <1>2, <2>1, <2>2
  <1>4. \A q, r \in S : rank[q] = rank[r] => q = r
    <2> SUFFICES ASSUME NEW q \in S, NEW r \in S, rank[q] = rank[r], q # r PROVE FALSE
      OBVIOUS
    <2>1. q < r \/ r < q
      OBVIOUS
    <2>2. Cardinality(UpTo(q)) = Cardinality(UpTo(r))
      OBVIOUS
    <2> QED
      BY <1>2, <1>3, <2>1, <2>2
  <1>5. rank \in Injection(S, 1..N)
    BY <1>2, <1>4 DEF Injection, IsInjective
  <1>6. rank \in Surjection(S, 1..N)
    <2>1. IsFiniteSet(1..N) /\ Cardinality(1..N) = N
      BY <1>1, FS_Interval
    <2> HIDE DEF rank
    <2> QED
      BY <1>5, <2>1, FS_Injection
  <1>7. \A n \in 1..N : Nth(S, n) \in S /\ Cardinality(UpTo(Nth(S, n))) = n
    <2> TAKE n \in 1..N
    <2>1. \E r \in S : rank[r] = n
      BY <1>6 DEF Surjection
    <2>2. \E r \in S : Cardinality(UpTo(r)) = n
      BY <2>1
    <2> QED
      BY <2>2 DEF Nth
  <1>8. \A n, m \in 1..N : Nth(S, n) = Nth(S, m) => n = m
    BY <1>7
  <1>9. ASSUME NEW k \in S PROVE \E n \in 1..N : Nth(S, n) = k
    <2> DEFINE n == Cardinality(UpTo(k))
    <2>1. n \in 1..N
      BY <1>2
    <2>2. Nth(S, n) \in S /\ Cardinality(UpTo(Nth(S, n))) = n
      BY <1>7, <2>1
    <2>3. Nth(S, n) = k
      BY <1>4, <2>2
    <2> QED
      BY <2>1, <2>3
  <1> QED
    BY <1>1, <1>7, <1>8, <1>9

(***************************************************************************)
(* Folds.  A fold over n steps goes through the worlds that are reached at *)
(* the subsets of 1..n; only the prefixes matter, but the definition names *)
(* them all.                                                               *)
(***************************************************************************)
LEMMA WithoutGreatest ==
  ASSUME NEW n \in Nat, NEW t \in SUBSET (1..n), t # {}
  PROVE  /\ Max(t) \in 1..n
         /\ t \ {Max(t)} \in SUBSET (1..n)
         /\ t \ {Max(t)} \in SUBSET (1..(Max(t) - 1))
  <1>1. Max(t) \in t /\ \A k \in t : k <= Max(t)
    BY GreatestIs
  <1>2. \A k \in t : k \in Nat /\ 1 <= k
    OBVIOUS
  <1>3. PICK m \in t : m = Max(t)
    BY <1>1
  <1>4. ASSUME NEW k \in t \ {m} PROVE k \in 1..(m - 1)
    <2>1. k <= m
      BY <1>1, <1>3
    <2> QED
      BY <1>2, <2>1
  <1> QED
    BY <1>3, <1>4

(* g is what it is to fold the functions F[1], ..., F[n] over w, for every  *)
(* set of their indices.                                                   *)
Folded(g, P, w, n, F) ==
  /\ g \in [SUBSET (1..n) -> P]
  /\ \A t \in SUBSET (1..n) : g[t] = IF t = {} THEN w ELSE F[Max(t)][g[t \ {Max(t)}]]

(* Whatever the steps do, the fold is well defined. *)
LEMMA FoldExists ==
  ASSUME NEW P, NEW w \in P, NEW n \in Nat, NEW F \in [1..n -> [P -> P]]
  PROVE  \E g : Folded(g, P, w, n, F)
  <1> DEFINE Good(k) ==
        \E g \in [SUBSET (1..k) -> P] :
          \A t \in SUBSET (1..k) : g[t] = IF t = {} THEN w ELSE F[Max(t)][g[t \ {Max(t)}]]
             Bad == {k \in 0..n : ~Good(k)}
  <1>1. Good(0)
    <2> DEFINE g == [t \in SUBSET (1..0) |-> w]
    <2>1. \A t \in SUBSET (1..0) : t = {}
      OBVIOUS
    <2>2. g \in [SUBSET (1..0) -> P]
      OBVIOUS
    <2>3. \A t \in SUBSET (1..0) : g[t] = w
      OBVIOUS
    <2> HIDE DEF g
    <2> QED
      BY <2>1, <2>2, <2>3
  <1>2. ASSUME NEW k \in 0..n, k # n, Good(k)
        PROVE  Good(k + 1)
    <2>1. PICK g \in [SUBSET (1..k) -> P] :
            \A t \in SUBSET (1..k) : g[t] = IF t = {} THEN w ELSE F[Max(t)][g[t \ {Max(t)}]]
      BY <1>2
    <2> DEFINE h == [t \in SUBSET (1..(k + 1)) |-> IF t \in SUBSET (1..k) THEN g[t] ELSE F[k + 1][g[t \ {k + 1}]]]
    <2>2. ASSUME NEW t \in SUBSET (1..(k + 1))
          PROVE  t \ {k + 1} \in SUBSET (1..k)
      OBVIOUS
    <2>3. F[k + 1] \in [P -> P]
      BY <1>2
    <2>4. ASSUME NEW t \in SUBSET (1..(k + 1)) PROVE h[t] \in P
      BY <2>2, <2>3, <2>1
    <2>5. h \in [SUBSET (1..(k + 1)) -> P]
      <3>1. h = [t \in SUBSET (1..(k + 1)) |-> h[t]]
        OBVIOUS
      <3> HIDE DEF h
      <3> QED
        BY <2>4, <3>1
    <2>6. ASSUME NEW t \in SUBSET (1..k)
          PROVE  t \in SUBSET (1..(k + 1)) /\ h[t] = g[t]
      OBVIOUS
    <2>7. ASSUME NEW t \in SUBSET (1..(k + 1))
          PROVE  h[t] = IF t = {} THEN w ELSE F[Max(t)][h[t \ {Max(t)}]]
      <3>1. CASE t \in SUBSET (1..k)
        <4>1. CASE t = {}
          BY <2>1, <2>6, <3>1, <4>1
        <4>2. CASE t # {}
          <5>1. t \ {Max(t)} \in SUBSET (1..k)
            BY <3>1
          <5> QED
            BY <2>1, <2>6, <3>1, <4>2, <5>1
        <4> QED
          BY <4>1, <4>2
      <3>2. CASE t \notin SUBSET (1..k)
        <4>1. k + 1 \in t
          BY <3>2
        <4>0. k + 1 \in Nat /\ t # {} /\ \A j \in t : j \in Nat /\ j <= k + 1
          BY <4>1
        <4>2. Max(t) \in t /\ \A j \in t : j <= Max(t)
          BY <4>0, GreatestIs
        <4>3. Max(t) = k + 1
          <5>1. \A m \in Nat : m <= k + 1 /\ k + 1 <= m => m = k + 1
            OBVIOUS
          <5> QED
            BY <4>0, <4>1, <4>2, <5>1
        <4>4. h[t] = F[k + 1][g[t \ {k + 1}]]
          BY <3>2
        <4>5. h[t \ {k + 1}] = g[t \ {k + 1}]
          BY <2>2, <2>6
        <4> HIDE DEF h
        <4> QED
          BY <4>1, <4>3, <4>4, <4>5
      <3> QED
        BY <3>1, <3>2
    <2> HIDE DEF h
    <2> QED
      BY <2>5, <2>7
  <1>3. Bad = {}
    <2> SUFFICES ASSUME Bad # {} PROVE FALSE
      OBVIOUS
    <2>1. Bad \subseteq Nat
      OBVIOUS
    <2>2. PICK k \in Bad : \A j \in Bad : k <= j
      BY <2>1, LeastOf
    <2> HIDE DEF Good
    <2>3. k \in 0..n /\ ~Good(k)
      OBVIOUS
    <2>4. k # 0
      BY <1>1, <2>3
    <2>5. k - 1 \in 0..n /\ k - 1 # n /\ (k - 1) + 1 = k
      BY <2>3, <2>4
    <2>6. Good(k - 1)
      BY <2>2, <2>5
    <2> QED
      BY <1>2, <2>3, <2>5, <2>6
  <1>4. Good(n)
    <2> HIDE DEF Good
    <2>1. n \in 0..n /\ n \notin Bad
      BY <1>3
    <2> QED
      BY <2>1
  <1> QED
    BY <1>4 DEF Folded

(* What every step keeps, the fold keeps. *)
LEMMA FoldKeeps ==
  ASSUME NEW P, NEW w \in P, NEW n \in Nat, NEW h, DOMAIN h = SUBSET (1..n),
         h[{}] = w,
         \A t \in SUBSET (1..n) : t # {} /\ h[t \ {Max(t)}] \in P => h[t] \in P
  PROVE  h[1..n] \in P
  <1> DEFINE Bad == {k \in 0..n : \E t \in SUBSET (1..k) : h[t] \notin P}
  <1>1. Bad = {}
    <2> SUFFICES ASSUME Bad # {} PROVE FALSE
      OBVIOUS
    <2>1. Bad \subseteq Nat
      OBVIOUS
    <2>2. PICK k \in Bad : \A j \in Bad : k <= j
      BY <2>1, LeastOf
    <2>3. PICK t \in SUBSET (1..k) : h[t] \notin P
      BY <2>2
    <2>4. k \in 0..n /\ t \in SUBSET (1..n)
      BY <2>3
    <2>5. t # {}
      BY <2>3
    <2>6. /\ Max(t) \in 1..k /\ t \ {Max(t)} \in SUBSET (1..(Max(t) - 1))
      BY <2>4, <2>5, WithoutGreatest
    <2>7. h[t \ {Max(t)}] \notin P
      BY <2>3, <2>4, <2>5
    <2>8. Max(t) - 1 \in 0..n
      BY <2>4, <2>6
    <2>9. Max(t) - 1 \in Bad
      BY <2>6, <2>7, <2>8
    <2>10. k <= Max(t) - 1
      BY <2>2, <2>9
    <2> QED
      BY <2>4, <2>6, <2>10
  <1>2. n \notin Bad /\ n \in 0..n /\ 1..n \in SUBSET (1..n)
    BY <1>1
  <1> QED
    BY <1>2

(* What a step makes of its own index, and leaves of what was reached before, *)
(* the fold makes of all of them.                                          *)
LEMMA FoldReaches ==
  ASSUME NEW n \in Nat, NEW Q, DOMAIN Q = SUBSET (1..n), NEW h, DOMAIN h = SUBSET (1..n), h[{}] \in Q[{}],
         \A t \in SUBSET (1..n) : t # {} /\ h[t \ {Max(t)}] \in Q[t \ {Max(t)}] => h[t] \in Q[t]
  PROVE  h[1..n] \in Q[1..n]
  <1> DEFINE Bad == {k \in 0..n : \E t \in SUBSET (1..k) : h[t] \notin Q[t]}
  <1>1. Bad = {}
    <2> SUFFICES ASSUME Bad # {} PROVE FALSE
      OBVIOUS
    <2>1. Bad \subseteq Nat
      OBVIOUS
    <2>2. PICK k \in Bad : \A j \in Bad : k <= j
      BY <2>1, LeastOf
    <2>3. PICK t \in SUBSET (1..k) : h[t] \notin Q[t]
      BY <2>2
    <2>4. k \in 0..n /\ t \in SUBSET (1..n)
      BY <2>3
    <2>5. t # {}
      BY <2>3
    <2>6. /\ Max(t) \in 1..k /\ t \ {Max(t)} \in SUBSET (1..(Max(t) - 1))
      BY <2>4, <2>5, WithoutGreatest
    <2>7. h[t \ {Max(t)}] \notin Q[t \ {Max(t)}]
      BY <2>3, <2>4, <2>5
    <2>8. Max(t) - 1 \in 0..n
      BY <2>4, <2>6
    <2>9. Max(t) - 1 \in Bad
      BY <2>6, <2>7, <2>8
    <2>10. k <= Max(t) - 1
      BY <2>2, <2>9
    <2> QED
      BY <2>4, <2>6, <2>10
  <1>2. n \notin Bad /\ n \in 0..n /\ 1..n \in SUBSET (1..n)
    BY <1>1
  <1> QED
    BY <1>2


(***************************************************************************)
(* The constants.                                                          *)
(***************************************************************************)
LEMMA Sizes ==
  /\ BaySlots \in Nat /\ 1 <= BaySlots /\ HoldSlots \in Nat
  /\ MaxPlates \in Nat /\ 1 <= MaxPlates /\ MaxMines \in Nat /\ 1 <= MaxMines /\ MaxSquad \in Nat /\ 1 <= MaxSquad
  /\ CaptureTicks \in Nat /\ 1 <= CaptureTicks /\ CoverTicks \in Nat /\ 1 <= CoverTicks
  /\ LootTicks \in Nat /\ 1 <= LootTicks /\ ExtractTicks \in Nat /\ 1 <= ExtractTicks
  /\ SwapTicks \in Nat /\ 1 <= SwapTicks
  <1>1. \A n \in Nat \ {0} : n \in Nat /\ 1 <= n
    OBVIOUS
  <1>2. /\ HoldSlots \in Nat
        /\ {BaySlots, MaxPlates, MaxSquad, MaxMines, CaptureTicks, CoverTicks, LootTicks, ExtractTicks, SwapTicks}
             \subseteq Nat \ {0}
    BY SimulationAssumption
  <1> QED
    BY <1>1, <1>2

LEMMA LongestIs ==
  /\ Longest \in Nat /\ 1 <= Longest
  /\ CaptureTicks <= Longest /\ CoverTicks <= Longest /\ LootTicks <= Longest /\ ExtractTicks <= Longest
  <1> DEFINE S == {CaptureTicks, CoverTicks, LootTicks, ExtractTicks}
  <1>1. \E n \in S : \A m \in S : m <= n
    <2>1. \A a, b \in Nat : a <= b \/ b <= a
      OBVIOUS
    <2>2. \A a, b, c \in Nat : a <= b /\ b <= c => a <= c
      OBVIOUS
    <2>3. \A a \in Nat : a <= a
      OBVIOUS
    <2>4. PICK p \in {CaptureTicks, CoverTicks} : CaptureTicks <= p /\ CoverTicks <= p
      BY <2>1, <2>3, Sizes
    <2>5. PICK q \in {LootTicks, ExtractTicks} : LootTicks <= q /\ ExtractTicks <= q
      BY <2>1, <2>3, Sizes
    <2>6. p \in Nat /\ q \in Nat /\ p \in S /\ q \in S
      BY Sizes
    <2>7. CASE p <= q
      BY <2>2, <2>4, <2>5, <2>6, <2>7, Sizes
    <2>8. CASE q <= p
      BY <2>2, <2>4, <2>5, <2>6, <2>8, Sizes
    <2> QED
      BY <2>1, <2>6, <2>7, <2>8
  <1>2. Longest \in S /\ \A m \in S : m <= Longest
    BY <1>1 DEF Longest
  <1>3. CaptureTicks <= Longest /\ CoverTicks <= Longest /\ LootTicks <= Longest /\ ExtractTicks <= Longest
    BY <1>2
  <1>4. Longest \in Nat
    BY <1>2, Sizes
  <1> QED
    BY <1>3, <1>4, Sizes

LEMMA NoneIs ==
  /\ None \notin Bot /\ None \notin Squad /\ None \notin Item /\ None \notin Place /\ None \notin Lain
  /\ "unused" # None /\ "spent" # None /\ "extracted" # None /\ "lost" # None /\ "loot" # None /\ "revive" # None
  BY SimulationAssumption

(***************************************************************************)
(* Bodies.                                                                 *)
(***************************************************************************)
(* A body whose swap may be about what it no longer has. *)
Loose == {x \in Body : Len(x.hold) <= HoldSlots /\ Tidy(x)}

LEMMA SaneIs ==
  ASSUME NEW x
  PROVE  x \in Sane <=> x \in Loose /\ AsChosen(x)
  BY DEF Sane, Loose

LEMMA BodyIs ==
  ASSUME NEW x \in Body
  PROVE  /\ x.state \in {"alive", "downed"} /\ x.control \in Controls /\ x.squad \in Squad /\ x.place \in Place
         /\ x.plates \in 0..MaxPlates /\ x.bays \in [1..BaySlots -> Item \union {None}] /\ x.hold \in Seq(Item)
         /\ x.swap \in SwapsOf \union {None} /\ x.input \in Inputs /\ x.channel \in Channelings
         /\ x.exit \in 0..(ExtractTicks - 1) /\ x.stay \in 0..Longest
  BY DEF Body

LEMMA AbsentIs ==
  /\ Absent.state = "absent" /\ Absent \notin Body
  /\ \A x \in Body : x.state # "absent" /\ x # Absent
  BY DEF Absent, Body

(* Another revision of an inventory makes what was about the last one stale. *)
LEMMA RevisedIs ==
  ASSUME NEW x \in Loose
  PROVE  /\ Revised(x) \in Sane
         /\ \E s \in SwapsOf \union {None}, i \in Inputs : Revised(x) = [x EXCEPT !.swap = s, !.input = i]
  <1> DEFINE s == IF x.swap = None THEN None ELSE [x.swap EXCEPT !.fresh = FALSE]
             d == IF x.input.drop = None THEN None ELSE [x.input.drop EXCEPT !.fresh = FALSE]
             i == [x.input EXCEPT !.drop = d]
  <1>1. x \in Body /\ Len(x.hold) <= HoldSlots /\ Tidy(x)
    BY DEF Loose
  <1>2. Revised(x) = [x EXCEPT !.swap = s, !.input = i]
    BY <1>1 DEF Revised, Body
  <1>3. s \in SwapsOf \union {None} /\ (s # None => s.fresh = FALSE)
    BY <1>1 DEF Body, SwapsOf
  <1>4. d \in Requests.drop \union {None}
    BY <1>1 DEF Body, Inputs, Requests
  <1>5. i \in Inputs
    BY <1>1, <1>4 DEF Body, Inputs
  <1> HIDE DEF s, d, i
  <1> DEFINE y == [x EXCEPT !.swap = s, !.input = i]
  <1>6. y \in Body
    BY <1>1, <1>3, <1>5 DEF Body
  <1>7. y.hold = x.hold /\ y.bays = x.bays /\ y.swap = s
    BY <1>1 DEF Body
  <1> HIDE DEF y
  <1>8. Tidy(y)
    BY <1>1, <1>7 DEF Tidy, FullBays
  <1>9. AsChosen(y)
    BY <1>3, <1>7 DEF AsChosen
  <1> QED
    BY <1>1, <1>2, <1>3, <1>5, <1>6, <1>7, <1>8, <1>9 DEF Sane, y


(***************************************************************************)
(* Sequences from which places are removed.                                *)
(***************************************************************************)
(* t has what s has at the places K, in whatever order. *)
Picks(t, s, K) == \E f \in Bijection(DOMAIN t, K) : \A j \in DOMAIN t : t[j] = s[f[j]]

(* The members of a sequence at the positions K, and how many they are.    *)
LEMMA PicksIs ==
  ASSUME NEW t, NEW s, NEW K, Picks(t, s, K)
  PROVE  /\ \A j \in DOMAIN t : \E k \in K : t[j] = s[k]
         /\ \A k \in K : \E j \in DOMAIN t : t[j] = s[k]
         /\ (\A k, l \in K : s[k] = s[l] => k = l) => \A i, j \in DOMAIN t : t[i] = t[j] => i = j
  <1>1. PICK f \in Bijection(DOMAIN t, K) : \A j \in DOMAIN t : t[j] = s[f[j]]
    BY DEF Picks
  <1>2. /\ \A j \in DOMAIN t : f[j] \in K
        /\ \A i, j \in DOMAIN t : f[i] = f[j] => i = j
        /\ \A k \in K : \E j \in DOMAIN t : f[j] = k
    BY DEF Bijection, Injection, Surjection, IsInjective
  <1> QED
    BY <1>1, <1>2

(* As many of them are of a kind. *)
LEMMA PicksCount ==
  ASSUME NEW t, NEW s, NEW K, NEW L, Picks(t, s, K), IsFiniteSet(K), NEW T,
         T \subseteq DOMAIN t, L \subseteq K,
         \A j \in DOMAIN t, k \in K : t[j] = s[k] => (j \in T <=> k \in L)
  PROVE  IsFiniteSet(T) /\ IsFiniteSet(L) /\ Cardinality(T) = Cardinality(L)
  <1>1. PICK f \in Bijection(DOMAIN t, K) : \A j \in DOMAIN t : t[j] = s[f[j]]
    BY DEF Picks
  <1>2. /\ \A j \in DOMAIN t : f[j] \in K
        /\ \A i, j \in DOMAIN t : f[i] = f[j] => i = j
        /\ \A k \in K : \E j \in DOMAIN t : f[j] = k
    BY DEF Bijection, Injection, Surjection, IsInjective
  <1> DEFINE g == [j \in T |-> f[j]]
  <1>3. \A j \in T : g[j] \in L
    BY <1>1, <1>2
  <1>4. \A k \in L : \E j \in T : g[j] = k
    BY <1>1, <1>2
  <1>5. \A i, j \in T : g[i] = g[j] => i = j
    BY <1>2
  <1>6. g \in Bijection(L, T) \/ g \in Bijection(T, L)
    BY <1>3, <1>4, <1>5 DEF Bijection, Injection, Surjection, IsInjective
  <1>7. IsFiniteSet(L)
    BY FS_Subset
  <1> HIDE DEF g
  <1>8. ExistsBijection(L, T)
    BY <1>6, Fun_ExistsBijSymmetric DEF ExistsBijection
  <1> QED
    BY <1>7, <1>8, FS_Bijection

(* Removing a position shifts what follows it.                             *)
LEMMA RemovalIs ==
  ASSUME NEW S, NEW s \in Seq(S), NEW k \in DOMAIN s
  PROVE  /\ RemoveAt(s, k) \in Seq(S) /\ Len(RemoveAt(s, k)) = Len(s) - 1
         /\ Picks(RemoveAt(s, k), s, DOMAIN s \ {k})
  <1> DEFINE a == SubSeq(s, 1, k - 1)
             b == SubSeq(s, k + 1, Len(s))
             t == RemoveAt(s, k)
  <1>1. /\ s \in Seq(S) /\ Len(s) \in Nat /\ DOMAIN s = 1..Len(s)
        /\ k \in 1..Len(s) /\ \A i \in 1..Len(s) : s[i] \in S
    OBVIOUS
  <1>2. a \in Seq(S) /\ Len(a) = k - 1 /\ \A i \in 1..(k - 1) : a[i] = s[i]
    <2>1. \A i \in 1..(k - 1) : s[i] \in S
      BY <1>1
    <2>2. /\ a \in Seq(S) /\ Len(a) = IF 1 <= k - 1 THEN k - 1 - 1 + 1 ELSE 0
          /\ \A i \in 1..(k - 1 - 1 + 1) : a[i] = s[1 + i - 1]
      BY <1>1, <2>1, SubSeqProperties
    <2> HIDE DEF a
    <2> QED
      BY <1>1, <2>2
  <1>3. b \in Seq(S) /\ Len(b) = Len(s) - k /\ \A i \in 1..(Len(s) - k) : b[i] = s[k + i]
    <2>1. \A i \in (k + 1)..Len(s) : s[i] \in S
      BY <1>1
    <2>2. /\ b \in Seq(S) /\ Len(b) = IF k + 1 <= Len(s) THEN Len(s) - (k + 1) + 1 ELSE 0
          /\ \A i \in 1..(Len(s) - (k + 1) + 1) : b[i] = s[k + 1 + i - 1]
      BY <1>1, <2>1, SubSeqProperties
    <2> HIDE DEF b
    <2>3. \A i \in 1..(Len(s) - k) : i \in 1..(Len(s) - (k + 1) + 1) /\ k + 1 + i - 1 = k + i
      BY <1>1
    <2>4. Len(b) = Len(s) - k
      BY <1>1, <2>2
    <2> QED
      BY <2>2, <2>3, <2>4
  <1>4. t = a \o b
    BY DEF RemoveAt
  <1> HIDE DEF a, b, t
  <1>5. /\ t \in Seq(S) /\ Len(t) = Len(s) - 1
        /\ \A i \in 1..(Len(s) - 1) : t[i] = IF i <= k - 1 THEN s[i] ELSE s[i + 1]
    <2>1. /\ t \in Seq(S) /\ Len(t) = Len(a) + Len(b)
          /\ \A i \in 1..(Len(a) + Len(b)) : t[i] = IF i <= Len(a) THEN a[i] ELSE b[i - Len(a)]
      BY <1>2, <1>3, <1>4, ConcatProperties
    <2>2. Len(a) + Len(b) = Len(s) - 1
      BY <1>1, <1>2, <1>3
    <2>3. ASSUME NEW i \in 1..(Len(s) - 1)
          PROVE  t[i] = IF i <= k - 1 THEN s[i] ELSE s[i + 1]
      <3>1. t[i] = IF i <= k - 1 THEN a[i] ELSE b[i - (k - 1)]
        BY <1>2, <2>1, <2>2
      <3>2. CASE i <= k - 1
        BY <1>1, <1>2, <3>1, <3>2
      <3>3. CASE ~(i <= k - 1)
        <4>1. i - (k - 1) \in 1..(Len(s) - k) /\ k + (i - (k - 1)) = i + 1
          BY <1>1, <3>3
        <4>2. b[i - (k - 1)] = s[i + 1]
          BY <1>3, <4>1
        <4> QED
          BY <3>1, <3>3, <4>2
      <3> QED
        BY <3>2, <3>3
    <2> QED
      BY <2>1, <2>2, <2>3
  <1>6. DOMAIN t = 1..(Len(s) - 1)
    BY <1>5
  <1> DEFINE from(i) == IF i <= k - 1 THEN i ELSE i + 1
             K == DOMAIN s \ {k}
             f == [i \in DOMAIN t |-> from(i)]
  <1>7. \A i \in DOMAIN t : from(i) \in DOMAIN s /\ from(i) # k /\ t[i] = s[from(i)]
    BY <1>1, <1>5, <1>6
  <1>8. \A j \in DOMAIN s : j # k => \E i \in DOMAIN t : from(i) = j
    <2> SUFFICES ASSUME NEW j \in DOMAIN s, j # k PROVE \E i \in DOMAIN t : from(i) = j
      OBVIOUS
    <2>1. CASE j < k
      BY <1>1, <1>6, <2>1
    <2>2. CASE k < j
      <3>1. j - 1 \in DOMAIN t /\ from(j - 1) = j
        BY <1>1, <1>6, <2>2
      <3> QED
        BY <3>1
    <2> QED
      BY <1>1, <2>1, <2>2
  <1>9. \A i, j \in DOMAIN t : from(i) = from(j) => i = j
    BY <1>1, <1>6
  <1> HIDE DEF from
  <1>10. /\ f \in [DOMAIN t -> K]
         /\ \A i, j \in DOMAIN t : f[i] = f[j] => i = j
         /\ \A j \in K : \E i \in DOMAIN t : f[i] = j
         /\ \A i \in DOMAIN t : t[i] = s[f[i]]
    BY <1>7, <1>8, <1>9
  <1>11. f \in Bijection(DOMAIN t, K)
    BY <1>10 DEF Bijection, Injection, Surjection, IsInjective
  <1>12. Picks(t, s, K)
    BY <1>10, <1>11 DEF Picks
  <1> QED
    BY <1>5, <1>12 DEF t

LEMMA AppendIs ==
  ASSUME NEW S, NEW s \in Seq(S), NEW e \in S
  PROVE  /\ Append(s, e) \in Seq(S) /\ Len(Append(s, e)) = Len(s) + 1
         /\ DOMAIN Append(s, e) = DOMAIN s \union {Len(s) + 1} /\ Len(s) + 1 \notin DOMAIN s
         /\ \A k \in DOMAIN s : Append(s, e)[k] = s[k]
         /\ Append(s, e)[Len(s) + 1] = e
  <1>1. Len(s) \in Nat /\ DOMAIN s = 1..Len(s)
    OBVIOUS
  <1>2. /\ Append(s, e) \in Seq(S) /\ Len(Append(s, e)) = Len(s) + 1
        /\ \A k \in 1..Len(s) : Append(s, e)[k] = s[k]
        /\ Append(s, e)[Len(s) + 1] = e
    BY AppendProperties
  <1>3. DOMAIN Append(s, e) = 1..(Len(s) + 1)
    BY <1>2
  <1>4. 1..(Len(s) + 1) = (1..Len(s)) \union {Len(s) + 1}
    BY <1>1
  <1> QED
    BY <1>1, <1>2, <1>3, <1>4

(* What is left of a sequence at some of its places. *)
LEMMA LeftIs ==
  ASSUME NEW S, NEW s \in Seq(S), NEW K \in SUBSET DOMAIN s, NEW t,
         t = [n \in 1..Cardinality(K) |-> s[Nth(K, n)]]
  PROVE  t \in Seq(S) /\ Picks(t, s, K)
  <1>1. K \subseteq Nat /\ IsFiniteSet(K)
    <2>1. DOMAIN s = 1..Len(s) /\ Len(s) \in Nat
      OBVIOUS
    <2>2. IsFiniteSet(1..Len(s))
      BY <2>1, FS_Interval
    <2> QED
      BY <2>1, <2>2, FS_Subset
  <1> DEFINE c == Cardinality(K)
             f == [n \in 1..c |-> Nth(K, n)]
  <1>2. /\ c \in Nat
        /\ \A n \in 1..c : Nth(K, n) \in K
        /\ \A n, m \in 1..c : Nth(K, n) = Nth(K, m) => n = m
        /\ \A k \in K : \E n \in 1..c : Nth(K, n) = k
    BY <1>1, NthIs
  <1>3. DOMAIN t = 1..c /\ \A n \in 1..c : t[n] = s[f[n]]
    OBVIOUS
  <1>4. f \in Bijection(1..c, K)
    BY <1>2 DEF Bijection, Injection, Surjection, IsInjective
  <1>5. t \in [1..c -> S]
    BY <1>2
  <1>6. t \in Seq(S)
    BY <1>2, <1>5
  <1> QED
    BY <1>3, <1>4, <1>6 DEF Picks


(***************************************************************************)
(* Inventories.                                                            *)
(***************************************************************************)
(* y is x with another inventory, or other plates and wishes. *)
Stands(x, y) ==
  /\ y.state = x.state /\ y.control = x.control /\ y.squad = x.squad /\ y.place = x.place
  /\ y.channel = x.channel /\ y.exit = x.exit /\ y.stay = x.stay

(* What a bot carries, slot by slot.                                       *)
LEMMA ContentsAre ==
  ASSUME NEW x \in Body
  PROVE  /\ Contents(x) \subseteq Item
         /\ \A i \in Item : i \in Contents(x) <=> \/ \E k \in 1..BaySlots : x.bays[k] = i
                                                  \/ \E k \in DOMAIN x.hold : x.hold[k] = i
         /\ Len(x.hold) \in Nat /\ DOMAIN x.hold = 1..Len(x.hold)
         /\ \A k \in 1..BaySlots : x.bays[k] \in Item \/ x.bays[k] = None
         /\ \A k \in DOMAIN x.hold : x.hold[k] \in Item
         /\ FullBays(x) = {k \in 1..BaySlots : x.bays[k] \in Item}
  <1>1. x.bays \in [1..BaySlots -> Item \union {None}] /\ x.hold \in Seq(Item)
    BY BodyIs
  <1>2. /\ Len(x.hold) \in Nat /\ DOMAIN x.hold = 1..Len(x.hold)
        /\ \A k \in DOMAIN x.hold : x.hold[k] \in Item
    BY <1>1
  <1>3. \A k \in 1..BaySlots : x.bays[k] \in Item \/ x.bays[k] = None
    BY <1>1
  <1>4. FullBays(x) = {k \in 1..BaySlots : x.bays[k] \in Item}
    BY <1>3, NoneIs DEF FullBays
  <1>5. Contents(x) = {x.bays[k] : k \in FullBays(x)} \union {x.hold[k] : k \in DOMAIN x.hold}
    BY DEF Contents, ToSet
  <1>6. \A i \in Item : i \in Contents(x) <=> \/ \E k \in 1..BaySlots : x.bays[k] = i
                                              \/ \E k \in DOMAIN x.hold : x.hold[k] = i
    BY <1>4, <1>5
  <1>7. Contents(x) \subseteq Item
    BY <1>2, <1>4, <1>5
  <1> QED
    BY <1>2, <1>3, <1>4, <1>6, <1>7

LEMMA TidyIs ==
  ASSUME NEW x \in Body
  PROVE  Tidy(x) <=>
           /\ \A k, l \in 1..BaySlots : x.bays[k] = x.bays[l] /\ x.bays[k] \in Item => k = l
           /\ \A k, l \in DOMAIN x.hold : x.hold[k] = x.hold[l] => k = l
           /\ \A k \in 1..BaySlots, l \in DOMAIN x.hold : x.bays[k] # x.hold[l]
  <1>1. /\ FullBays(x) = {k \in 1..BaySlots : x.bays[k] \in Item}
        /\ \A k \in 1..BaySlots : x.bays[k] \in Item \/ x.bays[k] = None
        /\ \A k \in DOMAIN x.hold : x.hold[k] \in Item
    BY ContentsAre
  <1> QED
    BY <1>1, NoneIs DEF Tidy

(* A bay gets what the body does not have, or nothing. *)
LEMMA BayIs ==
  ASSUME NEW x \in Loose, NEW k \in 1..BaySlots, NEW e \in Item \union {None}, e \notin Contents(x)
  PROVE  /\ [x EXCEPT !.bays[k] = e] \in Loose /\ Stands(x, [x EXCEPT !.bays[k] = e])
         /\ Contents([x EXCEPT !.bays[k] = e]) = (Contents(x) \ {x.bays[k]}) \union ({e} \intersect Item)
  <1> DEFINE y == [x EXCEPT !.bays[k] = e]
  <1>1. x \in Body /\ Len(x.hold) <= HoldSlots /\ Tidy(x)
    BY DEF Loose
  <1>2. /\ y \in Body /\ y.hold = x.hold /\ Stands(x, y)
        /\ y.bays = [x.bays EXCEPT ![k] = e]
    BY <1>1 DEF Body, Stands
  <1>3. x.bays \in [1..BaySlots -> Item \union {None}]
    BY <1>1, BodyIs
  <1>4. y.bays[k] = e /\ \A l \in 1..BaySlots \ {k} : y.bays[l] = x.bays[l]
    BY <1>2, <1>3
  <1> HIDE DEF y
  <1>5. \A l \in 1..BaySlots : x.bays[l] \in Item => x.bays[l] # e
    BY <1>1, ContentsAre
  <1>6. \A l \in DOMAIN x.hold : x.hold[l] \in Item /\ x.hold[l] # e
    BY <1>1, ContentsAre
  <1>7. /\ \A l, m \in 1..BaySlots : x.bays[l] = x.bays[m] /\ x.bays[l] \in Item => l = m
        /\ \A l, m \in DOMAIN x.hold : x.hold[l] = x.hold[m] => l = m
        /\ \A l \in 1..BaySlots, m \in DOMAIN x.hold : x.bays[l] # x.hold[m]
    BY <1>1, TidyIs
  <1>8. Tidy(y)
    <2>1. \A l, m \in 1..BaySlots : y.bays[l] = y.bays[m] /\ y.bays[l] \in Item => l = m
      BY <1>4, <1>5, <1>7
    <2>2. \A l \in 1..BaySlots, m \in DOMAIN y.hold : y.bays[l] # y.hold[m]
      BY <1>2, <1>4, <1>6, <1>7
    <2> QED
      BY <1>2, <1>7, <2>1, <2>2, TidyIs
  <1>9. ASSUME NEW i \in Item
        PROVE  i \in Contents(y) <=> i \in (Contents(x) \ {x.bays[k]}) \union ({e} \intersect Item)
    <2>0. y \in Body
      BY <1>2
    <2>5. i \in Contents(y) <=> \/ \E l \in 1..BaySlots : y.bays[l] = i
                                \/ \E l \in DOMAIN y.hold : y.hold[l] = i
      BY ONLY <2>0, i \in Item, ContentsAre
    <2>1. i \in Contents(y) <=> \/ \E l \in 1..BaySlots : y.bays[l] = i
                                \/ \E l \in DOMAIN x.hold : x.hold[l] = i
      BY <1>2, <2>5
    <2>2. i \in Contents(x) <=> \/ \E l \in 1..BaySlots : x.bays[l] = i
                                \/ \E l \in DOMAIN x.hold : x.hold[l] = i
      BY <1>1, ContentsAre
    <2>3. CASE i = e
      BY <1>4, <2>1, <2>3
    <2>4. CASE i # e
      <3>1. (\E l \in 1..BaySlots : y.bays[l] = i) <=> \E l \in 1..BaySlots \ {k} : x.bays[l] = i
        BY <1>4, <2>4
      <3>2. (\E l \in 1..BaySlots \ {k} : x.bays[l] = i) <=> (\E l \in 1..BaySlots : x.bays[l] = i) /\ i # x.bays[k]
        BY <1>7
      <3>3. (\E l \in DOMAIN x.hold : x.hold[l] = i) => i # x.bays[k]
        BY <1>7
      <3> QED
        BY <2>1, <2>2, <2>4, <3>1, <3>2, <3>3
    <2> QED
      BY <2>3, <2>4
  <1>10. Contents(y) = (Contents(x) \ {x.bays[k]}) \union ({e} \intersect Item)
    BY <1>1, <1>2, <1>9, ContentsAre
  <1> QED
    BY <1>1, <1>2, <1>8, <1>10 DEF Loose, y

(* Adding to the hold something the bot does not carry, and taking a slot  *)
(* out of it.                                                              *)
LEMMA HoldGrown ==
  ASSUME NEW x \in Loose, Len(x.hold) < HoldSlots, NEW e \in Item, e \notin Contents(x)
  PROVE  /\ [x EXCEPT !.hold = Append(x.hold, e)] \in Loose /\ Stands(x, [x EXCEPT !.hold = Append(x.hold, e)])
         /\ Contents([x EXCEPT !.hold = Append(x.hold, e)]) = Contents(x) \union {e}
  <1> DEFINE h == Append(x.hold, e)
             y == [x EXCEPT !.hold = h]
  <1>1. x \in Body /\ Tidy(x) /\ x.hold \in Seq(Item) /\ Len(x.hold) \in Nat
    BY BodyIs DEF Loose
  <1>2. /\ h \in Seq(Item) /\ Len(h) = Len(x.hold) + 1
        /\ DOMAIN h = DOMAIN x.hold \union {Len(x.hold) + 1} /\ Len(x.hold) + 1 \notin DOMAIN x.hold
        /\ \A k \in DOMAIN x.hold : h[k] = x.hold[k]
        /\ h[Len(x.hold) + 1] = e
    BY <1>1, AppendIs
  <1> HIDE DEF h
  <1>3. y \in Body /\ y.hold = h /\ y.bays = x.bays /\ Stands(x, y)
    BY <1>1, <1>2 DEF Body, Stands
  <1> HIDE DEF y
  <1>4. Len(h) <= HoldSlots
    BY <1>1, <1>2, Sizes
  <1>5. \A l \in 1..BaySlots : x.bays[l] # e
    BY <1>1, ContentsAre
  <1>6. \A l \in DOMAIN x.hold : x.hold[l] \in Item /\ x.hold[l] # e
    BY <1>1, ContentsAre
  <1>7. /\ \A l, m \in 1..BaySlots : x.bays[l] = x.bays[m] /\ x.bays[l] \in Item => l = m
        /\ \A l, m \in DOMAIN x.hold : x.hold[l] = x.hold[m] => l = m
        /\ \A l \in 1..BaySlots, m \in DOMAIN x.hold : x.bays[l] # x.hold[m]
    BY <1>1, TidyIs
  <1>8. Tidy(y)
    <2>1. \A l, m \in DOMAIN h : h[l] = h[m] => l = m
      BY <1>2, <1>6, <1>7
    <2>2. \A l \in 1..BaySlots, m \in DOMAIN h : x.bays[l] # h[m]
      BY <1>2, <1>5, <1>7
    <2> QED
      BY <1>3, <1>7, <2>1, <2>2, TidyIs
  <1>9. ASSUME NEW i \in Item
        PROVE  i \in Contents(y) <=> i \in Contents(x) \union {e}
    <2>1. i \in Contents(y) <=> \/ \E l \in 1..BaySlots : x.bays[l] = i
                                \/ \E l \in DOMAIN h : h[l] = i
      BY <1>3, ContentsAre
    <2>2. i \in Contents(x) <=> \/ \E l \in 1..BaySlots : x.bays[l] = i
                                \/ \E l \in DOMAIN x.hold : x.hold[l] = i
      BY <1>1, ContentsAre
    <2>3. (\E l \in DOMAIN h : h[l] = i) <=> (\E l \in DOMAIN x.hold : x.hold[l] = i) \/ i = e
      BY <1>2
    <2> QED
      BY <2>1, <2>2, <2>3
  <1>10. Contents(y) = Contents(x) \union {e}
    BY <1>1, <1>3, <1>9, ContentsAre
  <1> QED
    BY <1>3, <1>4, <1>8, <1>10 DEF Loose, y, h

LEMMA HoldShrunk ==
  ASSUME NEW x \in Loose, NEW k \in DOMAIN x.hold
  PROVE  /\ [x EXCEPT !.hold = RemoveAt(x.hold, k)] \in Loose /\ Stands(x, [x EXCEPT !.hold = RemoveAt(x.hold, k)])
         /\ Contents([x EXCEPT !.hold = RemoveAt(x.hold, k)]) = Contents(x) \ {x.hold[k]}
  <1> DEFINE h == RemoveAt(x.hold, k)
             y == [x EXCEPT !.hold = h]
  <1>1. x \in Body /\ Tidy(x) /\ x.hold \in Seq(Item) /\ Len(x.hold) \in Nat /\ Len(x.hold) <= HoldSlots
    BY BodyIs DEF Loose
  <1>2. h \in Seq(Item) /\ Len(h) = Len(x.hold) - 1 /\ Picks(h, x.hold, DOMAIN x.hold \ {k})
    BY <1>1, RemovalIs
  <1> HIDE DEF h
  <1>3. y \in Body /\ y.hold = h /\ y.bays = x.bays /\ Stands(x, y)
    BY <1>1, <1>2 DEF Body, Stands
  <1> HIDE DEF y
  <1>4. Len(h) <= HoldSlots
    BY <1>1, <1>2, Sizes
  <1>5. /\ \A j \in DOMAIN h : \E l \in DOMAIN x.hold \ {k} : h[j] = x.hold[l]
        /\ \A l \in DOMAIN x.hold \ {k} : \E j \in DOMAIN h : h[j] = x.hold[l]
        /\ (\A l, m \in DOMAIN x.hold \ {k} : x.hold[l] = x.hold[m] => l = m)
             => \A i, j \in DOMAIN h : h[i] = h[j] => i = j
    <2>1. Picks(h, x.hold, DOMAIN x.hold \ {k})
      BY <1>2
    <2> HIDE DEF y
    <2> DEFINE s == x.hold
               K == DOMAIN x.hold \ {k}
    <2>2. Picks(h, s, K)
      BY <2>1
    <2> HIDE DEF s, K
    <2>3. /\ \A j \in DOMAIN h : \E l \in K : h[j] = s[l]
          /\ \A l \in K : \E j \in DOMAIN h : h[j] = s[l]
          /\ (\A l, m \in K : s[l] = s[m] => l = m) => \A i, j \in DOMAIN h : h[i] = h[j] => i = j
      BY ONLY <2>2, PicksIs
    <2> QED
      BY <2>3 DEF s, K
  <1>7. /\ \A l, m \in 1..BaySlots : x.bays[l] = x.bays[m] /\ x.bays[l] \in Item => l = m
        /\ \A l, m \in DOMAIN x.hold : x.hold[l] = x.hold[m] => l = m
        /\ \A l \in 1..BaySlots, m \in DOMAIN x.hold : x.bays[l] # x.hold[m]
    BY <1>1, TidyIs
  <1>8. Tidy(y)
    <2>1. \A l, m \in DOMAIN h : h[l] = h[m] => l = m
      BY <1>5, <1>7
    <2>2. \A l \in 1..BaySlots, m \in DOMAIN h : x.bays[l] # h[m]
      BY <1>5, <1>7
    <2> QED
      BY <1>3, <1>7, <2>1, <2>2, TidyIs
  <1>9. ASSUME NEW i \in Item
        PROVE  i \in Contents(y) <=> i \in Contents(x) \ {x.hold[k]}
    <2>1. i \in Contents(y) <=> \/ \E l \in 1..BaySlots : x.bays[l] = i
                                \/ \E l \in DOMAIN h : h[l] = i
      BY <1>3, ContentsAre
    <2>2. i \in Contents(x) <=> \/ \E l \in 1..BaySlots : x.bays[l] = i
                                \/ \E l \in DOMAIN x.hold : x.hold[l] = i
      BY <1>1, ContentsAre
    <2>3. (\E l \in DOMAIN h : h[l] = i) <=> \E l \in DOMAIN x.hold \ {k} : x.hold[l] = i
      BY <1>5
    <2>4. (\E l \in DOMAIN x.hold \ {k} : x.hold[l] = i) <=> (\E l \in DOMAIN x.hold : x.hold[l] = i) /\ i # x.hold[k]
      BY <1>7
    <2>5. (\E l \in 1..BaySlots : x.bays[l] = i) => i # x.hold[k]
      BY <1>7
    <2> QED
      BY <2>1, <2>2, <2>3, <2>4, <2>5
  <1>10. Contents(y) = Contents(x) \ {x.hold[k]}
    BY <1>1, <1>3, <1>9, ContentsAre
  <1> QED
    BY <1>3, <1>4, <1>8, <1>10 DEF Loose, y, h


(* What a body has depends on its slots alone. *)
LEMMA SlotsDecide ==
  ASSUME NEW x, NEW y, y.bays = x.bays, y.hold = x.hold
  PROVE  Contents(y) = Contents(x) /\ (Tidy(y) <=> Tidy(x)) /\ Load(y) = Load(x)
  <1>1. FullBays(y) = FullBays(x)
    BY DEF FullBays
  <1> QED
    BY <1>1 DEF Contents, Tidy, Load

(* A body with a change of anything but its slots and its swap is as sane. *)
LEMMA StillSane ==
  ASSUME NEW x \in Sane, NEW y \in Body, y.bays = x.bays, y.hold = x.hold, y.swap = x.swap \/ y.swap = None
  PROVE  y \in Sane /\ Contents(y) = Contents(x)
  <1>1. x \in Body /\ Len(x.hold) <= HoldSlots /\ Tidy(x) /\ AsChosen(x)
    BY DEF Sane
  <1>2. Contents(y) = Contents(x) /\ Tidy(y)
    BY <1>1, SlotsDecide
  <1>3. AsChosen(y)
    BY <1>1 DEF AsChosen
  <1> QED
    BY <1>1, <1>2, <1>3 DEF Sane

LEMMA RevisedStands ==
  ASSUME NEW x \in Loose
  PROVE  Revised(x) \in Sane /\ Stands(x, Revised(x)) /\ Contents(Revised(x)) = Contents(x)
  <1>1. PICK s \in SwapsOf \union {None}, i \in Inputs : Revised(x) = [x EXCEPT !.swap = s, !.input = i]
    BY RevisedIs
  <1>2. x \in Body
    BY DEF Loose
  <1> DEFINE y == [x EXCEPT !.swap = s, !.input = i]
  <1>3. Stands(x, y) /\ y.bays = x.bays /\ y.hold = x.hold
    BY <1>2 DEF Stands, Body
  <1> HIDE DEF y
  <1>4. Contents(y) = Contents(x)
    BY <1>3, SlotsDecide
  <1> QED
    BY <1>1, <1>3, <1>4, RevisedIs DEF y

LEMMA RestoredStands ==
  ASSUME NEW x \in Sane
  PROVE  Restored(x) \in Sane /\ Stands(x, Restored(x)) /\ Contents(Restored(x)) = Contents(x)
  <1>1. x \in Body
    BY DEF Sane
  <1> DEFINE p == IF x.plates < MaxPlates THEN x.plates + 1 ELSE x.plates
             y == [x EXCEPT !.plates = p]
  <1>2. p \in 0..MaxPlates
    BY <1>1, BodyIs, Sizes
  <1>3. Restored(x) = y
    BY DEF Restored
  <1> HIDE DEF p
  <1>4. y \in Body /\ Stands(x, y) /\ y.bays = x.bays /\ y.hold = x.hold /\ y.swap = x.swap
    BY <1>1, <1>2 DEF Stands, Body
  <1> QED
    BY <1>3, <1>4, StillSane

LEMMA InsertedStands ==
  ASSUME NEW x \in Loose, HasRoom(x), NEW i \in Item, i \notin Contents(x)
  PROVE  Inserted(x, i) \in Loose /\ Stands(x, Inserted(x, i)) /\ Contents(Inserted(x, i)) = Contents(x) \union {i}
  <1>1. x \in Body
    BY DEF Loose
  <1>2. CASE EmptyBays(x) # {}
    <2> DEFINE k == Lowest(EmptyBays(x))
    <2>1. EmptyBays(x) \subseteq Nat
      BY DEF EmptyBays
    <2>2. k \in EmptyBays(x)
      BY <1>2, <2>1, LowestIs
    <2>3. k \in 1..BaySlots /\ x.bays[k] = None
      BY <2>2 DEF EmptyBays
    <2>4. Inserted(x, i) = [x EXCEPT !.bays[k] = i]
      BY <1>2 DEF Inserted
    <2> HIDE DEF k
    <2>5. Contents([x EXCEPT !.bays[k] = i]) = (Contents(x) \ {x.bays[k]}) \union ({i} \intersect Item)
      BY <2>3, BayIs
    <2>6. None \notin Contents(x)
      BY <1>1, ContentsAre, NoneIs
    <2>7. (Contents(x) \ {x.bays[k]}) \union ({i} \intersect Item) = Contents(x) \union {i}
      BY <2>3, <2>6
    <2> QED
      BY <2>3, <2>4, <2>5, <2>7, BayIs
  <1>3. CASE EmptyBays(x) = {}
    <2>1. Len(x.hold) < HoldSlots
      BY <1>3 DEF HasRoom
    <2>2. Inserted(x, i) = [x EXCEPT !.hold = Append(x.hold, i)]
      BY <1>3 DEF Inserted
    <2> QED
      BY <2>1, <2>2, HoldGrown
  <1> QED
    BY <1>2, <1>3

(* The n-th item that a body carries, and the body without it. *)
LEMMA CarriedIs ==
  ASSUME NEW x \in Loose, NEW n \in Nat \ {0}, ~(n > Load(x))
  PROVE  /\ Carried(x, n) \in Item /\ Carried(x, n) \in Contents(x)
         /\ Without(x, n) \in Loose /\ Stands(x, Without(x, n))
         /\ Contents(Without(x, n)) = Contents(x) \ {Carried(x, n)}
  <1> DEFINE full == FullBays(x)
             c == Cardinality(full)
  <1>1. x \in Body
    BY DEF Loose
  <1>2. full \subseteq Nat /\ IsFiniteSet(full)
    <2>1. full \subseteq 1..BaySlots
      BY DEF FullBays
    <2>2. IsFiniteSet(1..BaySlots)
      BY Sizes, FS_Interval
    <2>3. IsFiniteSet(full)
      BY ONLY <2>1, <2>2, FS_Subset
    <2>4. 1..BaySlots \subseteq Nat
      OBVIOUS
    <2> QED
      BY <2>1, <2>3, <2>4
  <1>3. c \in Nat /\ \A m \in 1..c : Nth(full, m) \in full
    BY <1>2, NthIs
  <1>4. full = {k \in 1..BaySlots : x.bays[k] \in Item}
    BY <1>1, ContentsAre
  <1>5. Len(x.hold) \in Nat /\ DOMAIN x.hold = 1..Len(x.hold) /\ \A k \in DOMAIN x.hold : x.hold[k] \in Item
    BY <1>1, ContentsAre
  <1>6. CASE n <= c
    <2> DEFINE k == Nth(full, n)
    <2>1. n \in 1..c
      BY <1>3, <1>6
    <2>2. k \in full
      BY <1>3, <2>1
    <2>3. k \in 1..BaySlots /\ x.bays[k] \in Item
      BY <1>4, <2>2
    <2>4. Carried(x, n) = x.bays[k] /\ Without(x, n) = [x EXCEPT !.bays[k] = None]
      BY <1>6 DEF Carried, Without
    <2> HIDE DEF k
    <2>5. x.bays[k] \in Contents(x)
      BY <1>1, <2>3, ContentsAre
    <2>6. None \notin Contents(x) /\ None \notin Item
      BY <1>1, ContentsAre, NoneIs
    <2>7. /\ [x EXCEPT !.bays[k] = None] \in Loose /\ Stands(x, [x EXCEPT !.bays[k] = None])
          /\ Contents([x EXCEPT !.bays[k] = None]) = (Contents(x) \ {x.bays[k]}) \union ({None} \intersect Item)
      BY <2>3, <2>6, BayIs
    <2>8. {None} \intersect Item = {}
      BY <2>6
    <2> QED
      BY <2>3, <2>4, <2>5, <2>7, <2>8
  <1>7. CASE ~(n <= c)
    <2> DEFINE k == n - c
    <2>1. Load(x) = c + Len(x.hold)
      BY DEF Load
    <2>2. n <= Load(x)
      BY <1>3, <1>5, <2>1
    <2>3. k \in DOMAIN x.hold
      BY <1>3, <1>5, <1>7, <2>1, <2>2
    <2>4. Carried(x, n) = x.hold[k] /\ Without(x, n) = [x EXCEPT !.hold = RemoveAt(x.hold, k)]
      BY <1>7, <2>2 DEF Carried, Without
    <2> HIDE DEF k
    <2>5. x.hold[k] \in Contents(x) /\ x.hold[k] \in Item
      BY <1>1, <1>5, <2>3, ContentsAre
    <2> QED
      BY <2>3, <2>4, <2>5, HoldShrunk
  <1> QED
    BY <1>6, <1>7


(* A hit takes plates or puts the bot down, and cancels what it was doing; *)
(* what it carries stays.                                                  *)
LEMMA HitStands ==
  ASSUME NEW x \in Sane, NEW y \in Struck(x)
  PROVE  /\ y \in Sane /\ Contents(y) = Contents(x) /\ y.squad = x.squad /\ y.place = x.place
         /\ y.control = x.control /\ y.channel = x.channel /\ y.exit = x.exit
         /\ \/ y.state = x.state /\ y.stay = x.stay
            \/ y.state = "downed" /\ y.stay = 0
  <1>1. x \in Body
    BY DEF Sane
  <1> DEFINE z1 == [x EXCEPT !.plates = x.plates - 1]
             z2 == [x EXCEPT !.state = "downed", !.plates = 0, !.pleaded = FALSE, !.stay = 0]
  <1>2. \/ x.plates > 0 /\ y = [z1 EXCEPT !.safe = TRUE]
        \/ y = [z2 EXCEPT !.safe = TRUE]
    BY DEF Struck, PutDown
  <1>3. 0 \in 0..MaxPlates /\ 0 \in 0..Longest
    BY Sizes, LongestIs
  <1>4. CASE x.plates > 0 /\ y = [z1 EXCEPT !.safe = TRUE]
    <2>1. x.plates - 1 \in 0..MaxPlates
      BY <1>1, <1>4, BodyIs, Sizes
    <2>2. z1 \in Body /\ Stands(x, z1) /\ z1.bays = x.bays /\ z1.hold = x.hold /\ z1.swap = x.swap
      BY <1>1, <2>1 DEF Body, Stands
    <2> HIDE DEF z1
    <2>3. y \in Body /\ Stands(z1, y) /\ y.bays = z1.bays /\ y.hold = z1.hold /\ y.swap = z1.swap
      BY <1>4, <2>2 DEF Body, Stands
    <2>4. y \in Sane /\ Contents(y) = Contents(x)
      BY <2>2, <2>3, StillSane
    <2> QED
      BY <2>2, <2>3, <2>4 DEF Stands
  <1>5. CASE y = [z2 EXCEPT !.safe = TRUE]
    <2>2. /\ z2 \in Body /\ z2.state = "downed" /\ z2.control = x.control /\ z2.squad = x.squad /\ z2.place = x.place
          /\ z2.channel = x.channel /\ z2.exit = x.exit /\ z2.stay = 0
          /\ z2.bays = x.bays /\ z2.hold = x.hold /\ z2.swap = x.swap
      BY <1>1, <1>3 DEF Body
    <2> HIDE DEF z2
    <2>3. y \in Body /\ Stands(z2, y) /\ y.bays = z2.bays /\ y.hold = z2.hold /\ y.swap = z2.swap
      BY <1>5, <2>2 DEF Body, Stands
    <2>4. y \in Sane /\ Contents(y) = Contents(x)
      BY <2>2, <2>3, StillSane
    <2> QED
      BY <2>2, <2>3, <2>4 DEF Stands
  <1> QED
    BY <1>2, <1>4, <1>5

(* A bay and a slot of the hold change places. *)
LEMMA ChangedPlaces ==
  ASSUME NEW x \in Loose, NEW k \in 1..BaySlots, NEW n \in DOMAIN x.hold, x.bays[k] # None
  PROVE  LET y == [x EXCEPT !.bays[k] = x.hold[n], !.hold = [x.hold EXCEPT ![n] = x.bays[k]]]
         IN  y \in Loose /\ Stands(x, y) /\ Contents(y) = Contents(x)
  <1> DEFINE bay == x.bays[k]
             held == x.hold[n]
             h == [x.hold EXCEPT ![n] = bay]
             c == [x.bays EXCEPT ![k] = held]
             y == [x EXCEPT !.bays[k] = held, !.hold = h]
  <1>1. x \in Body /\ Len(x.hold) <= HoldSlots /\ Tidy(x)
    BY DEF Loose
  <1>2. x.bays \in [1..BaySlots -> Item \union {None}] /\ x.hold \in Seq(Item)
    BY <1>1, BodyIs
  <1>3. bay \in Item /\ held \in Item
    BY <1>1, ContentsAre
  <1>4. /\ c \in [1..BaySlots -> Item \union {None}] /\ c[k] = held
        /\ \A l \in 1..BaySlots \ {k} : c[l] = x.bays[l]
    BY <1>2, <1>3
  <1>5. /\ h \in Seq(Item) /\ Len(h) = Len(x.hold) /\ DOMAIN h = DOMAIN x.hold /\ h[n] = bay
        /\ \A l \in DOMAIN x.hold \ {n} : h[l] = x.hold[l]
    BY <1>2, <1>3
  <1>6. /\ \A l, m \in 1..BaySlots : x.bays[l] = x.bays[m] /\ x.bays[l] \in Item => l = m
        /\ \A l, m \in DOMAIN x.hold : x.hold[l] = x.hold[m] => l = m
        /\ \A l \in 1..BaySlots, m \in DOMAIN x.hold : x.bays[l] # x.hold[m]
    BY <1>1, TidyIs
  <1>7. y = [x EXCEPT !.bays = c, !.hold = h]
    OBVIOUS
  <1> HIDE DEF c, h
  <1>8. y \in Body /\ y.hold = h /\ y.bays = c /\ Stands(x, y)
    BY <1>1, <1>4, <1>5, <1>7 DEF Body, Stands
  <1> HIDE DEF y
  <1>9. Tidy(y)
    <2>1. \A l, m \in 1..BaySlots : c[l] = c[m] /\ c[l] \in Item => l = m
      BY <1>4, <1>6
    <2>2. \A l, m \in DOMAIN h : h[l] = h[m] => l = m
      BY <1>5, <1>6
    <2>3. \A l \in 1..BaySlots, m \in DOMAIN h : c[l] # h[m]
      <3> TAKE l \in 1..BaySlots, m \in DOMAIN h
      <3>1. CASE l = k /\ m = n
        BY <1>4, <1>5, <1>6, <3>1
      <3>2. CASE l = k /\ m # n
        BY <1>4, <1>5, <1>6, <3>2
      <3>3. CASE l # k /\ m = n
        BY <1>3, <1>4, <1>5, <1>6, <3>3
      <3>4. CASE l # k /\ m # n
        BY <1>4, <1>5, <1>6, <3>4
      <3> QED
        BY <3>1, <3>2, <3>3, <3>4
    <2> QED
      BY <1>8, <2>1, <2>2, <2>3, TidyIs
  <1>10. ASSUME NEW i \in Item
         PROVE  i \in Contents(y) <=> i \in Contents(x)
    <2>0. y \in Body
      BY <1>8
    <2>1. i \in Contents(y) <=> \/ \E l \in 1..BaySlots : y.bays[l] = i
                                \/ \E l \in DOMAIN y.hold : y.hold[l] = i
      BY ONLY <2>0, i \in Item, ContentsAre
    <2>2. i \in Contents(x) <=> \/ \E l \in 1..BaySlots : x.bays[l] = i
                                \/ \E l \in DOMAIN x.hold : x.hold[l] = i
      BY <1>1, ContentsAre
    <2>3. i \in Contents(y) <=> (\E l \in 1..BaySlots : c[l] = i) \/ (\E l \in DOMAIN h : h[l] = i)
      BY <1>8, <2>1
    <2>4. CASE i = bay
      BY <1>5, <2>2, <2>3, <2>4
    <2>5. CASE i = held
      BY <1>4, <2>2, <2>3, <2>5
    <2>6. CASE i # bay /\ i # held
      <3>1. (\E l \in 1..BaySlots : c[l] = i) <=> \E l \in 1..BaySlots : x.bays[l] = i
        BY <1>4, <2>6
      <3>2. (\E l \in DOMAIN h : h[l] = i) <=> \E l \in DOMAIN x.hold : x.hold[l] = i
        BY <1>5, <2>6
      <3> QED
        BY <2>2, <2>3, <3>1, <3>2
    <2> QED
      BY <2>4, <2>5, <2>6
  <1>11. Contents(y) = Contents(x)
    BY <1>1, <1>8, <1>10, ContentsAre
  <1>12. y \in Loose
    BY <1>1, <1>5, <1>8, <1>9 DEF Loose
  <1> QED
    BY <1>8, <1>11, <1>12 DEF y, h

(* A swap that ends leaves the body what it had. *)
LEMMA ExchangedStands ==
  ASSUME NEW x \in Sane, x.swap # None, x.swap.fresh
  PROVE  Exchanged(x) \in Sane /\ Stands(x, Exchanged(x)) /\ Contents(Exchanged(x)) = Contents(x)
  <1>1. x \in Body /\ x \in Loose /\ x.swap \in SwapsOf
    BY SaneIs, BodyIs DEF Loose
  <1> DEFINE k == x.swap.bay
             n == x.swap.slot
             bay == x.bays[k]
             held == x.hold[n]
             h == IF bay = None THEN RemoveAt(x.hold, n) ELSE [x.hold EXCEPT ![n] = bay]
             c == [x.bays EXCEPT ![k] = held]
             z == [x EXCEPT !.bays[k] = held, !.hold = h]
  <1>2. k \in 1..BaySlots /\ n \in Nat /\ 1 <= n /\ n <= Len(x.hold)
    BY <1>1 DEF Sane, AsChosen, SwapsOf
  <1>3. n \in DOMAIN x.hold /\ held \in Item /\ held \in Contents(x)
    <2>1. Len(x.hold) \in Nat /\ DOMAIN x.hold = 1..Len(x.hold)
      BY <1>1, ContentsAre
    <2>2. n \in DOMAIN x.hold
      BY <1>2, <2>1
    <2> QED
      BY <1>1, <2>2, ContentsAre
  <1>4. z \in Loose /\ Stands(x, z) /\ Contents(z) = Contents(x)
    <2>1. CASE bay # None
      BY <1>1, <1>2, <1>3, <2>1, ChangedPlaces
    <2>2. CASE bay = None
      <3> DEFINE y == [x EXCEPT !.hold = RemoveAt(x.hold, n)]
      <3>1. y \in Loose /\ Stands(x, y) /\ Contents(y) = Contents(x) \ {held}
        BY <1>1, <1>3, HoldShrunk
      <3>2. y.bays = x.bays
        BY <1>1 DEF Body
      <3>3. z = [y EXCEPT !.bays[k] = held]
        BY <1>1, <2>2 DEF Body
      <3> HIDE DEF y, z, h
      <3>4. held \notin Contents(y)
        BY <3>1
      <3>9. y \in Loose /\ k \in 1..BaySlots /\ held \in Item \union {None}
        BY <1>2, <1>3, <3>1
      <3> HIDE DEF k, held
      <3>5. /\ z \in Loose /\ Stands(y, z)
            /\ Contents(z) = (Contents(y) \ {y.bays[k]}) \union ({held} \intersect Item)
        BY ONLY <3>3, <3>4, <3>9, BayIs
      <3> USE DEF k, held
      <3>6. None \notin Contents(x)
        BY <1>1, ContentsAre, NoneIs
      <3>7. Contents(z) = Contents(x)
        BY <1>3, <2>2, <3>1, <3>2, <3>5, <3>6
      <3>8. Stands(x, z)
        BY <3>1, <3>5 DEF Stands
      <3> QED
        BY <3>5, <3>7, <3>8
    <2> QED
      BY <2>1, <2>2
  <1>5. PICK s \in SwapsOf \union {None}, i \in Inputs : Revised(x) = [x EXCEPT !.swap = s, !.input = i]
    BY <1>1, RevisedIs
  <1> DEFINE y == [z EXCEPT !.swap = None, !.input = i]
  <1>6. Exchanged(x) = [x EXCEPT !.bays = c, !.hold = h, !.swap = None, !.input = i]
    <2>1. x.bays \in [1..BaySlots -> Item \union {None}]
      BY <1>1, BodyIs
    <2> DEFINE r == [x EXCEPT !.swap = s, !.input = i]
    <2>2. r.bays = x.bays /\ r.hold = x.hold
      BY <1>1 DEF Body
    <2>3. Exchanged(x) = [r EXCEPT !.bays[k] = held, !.swap = None, !.hold = h]
      BY <1>5, <2>2 DEF Exchanged
    <2> HIDE DEF h
    <2>4. [r EXCEPT !.bays[k] = held, !.swap = None, !.hold = h] = [r EXCEPT !.bays = c, !.swap = None, !.hold = h]
      BY <2>2
    <2> HIDE DEF c
    <2> QED
      BY <1>1, <2>3, <2>4 DEF Body
  <1>7. z = [x EXCEPT !.bays = c, !.hold = h]
    OBVIOUS
  <1> HIDE DEF c, h
  <1>8. Exchanged(x) = y
    BY <1>1, <1>6, <1>7 DEF Body
  <1>9. z \in Body /\ Len(z.hold) <= HoldSlots /\ Tidy(z)
    BY <1>4 DEF Loose
  <1> HIDE DEF z
  <1>10. y \in Body /\ Stands(z, y) /\ y.bays = z.bays /\ y.hold = z.hold /\ y.swap = None
    BY <1>9 DEF Body, Stands
  <1> HIDE DEF y
  <1>11. Contents(y) = Contents(z) /\ Tidy(y)
    BY <1>9, <1>10, SlotsDecide
  <1>12. y \in Sane
    BY <1>9, <1>10, <1>11 DEF Sane, AsChosen
  <1> QED
    BY <1>4, <1>8, <1>10, <1>11, <1>12 DEF Stands

(* A swap whose time is up exchanges its two items, and is dropped when it *)
(* has gone stale.                                                         *)
LEMMA SwapAfterStands ==
  ASSUME NEW x \in Sane
  PROVE  SwapAfter(x) \in Sane /\ Stands(x, SwapAfter(x)) /\ Contents(SwapAfter(x)) = Contents(x)
  <1>1. x \in Body /\ x.state # "absent"
    BY AbsentIs DEF Sane
  <1>2. CASE x.swap = None
    BY <1>1, <1>2 DEF SwapAfter, Stands
  <1>3. CASE x.swap # None /\ (x.state # "alive" \/ ~x.swap.fresh)
    <2> DEFINE y == [x EXCEPT !.swap = None]
    <2>1. SwapAfter(x) = y
      BY <1>1, <1>3 DEF SwapAfter
    <2>2. y \in Body /\ Stands(x, y) /\ y.bays = x.bays /\ y.hold = x.hold /\ y.swap = None
      BY <1>1 DEF Body, Stands
    <2> QED
      BY <2>1, <2>2, StillSane
  <1>4. CASE x.swap # None /\ x.swap.fresh /\ SwapAfter(x) = Exchanged(x)
    BY <1>4, ExchangedStands
  <1>5. CASE /\ x.swap # None /\ x.swap.fresh /\ ~(x.swap.progress + 1 >= SwapTicks)
             /\ SwapAfter(x) = [x EXCEPT !.swap.progress = x.swap.progress + 1]
    <2> DEFINE s == [x.swap EXCEPT !.progress = x.swap.progress + 1]
               y == [x EXCEPT !.swap = s]
    <2>1. x.swap \in SwapsOf
      BY <1>1, <1>5, BodyIs
    <2>2. x.swap.progress + 1 \in 0..(SwapTicks - 1)
      BY <1>5, <2>1, Sizes DEF SwapsOf
    <2>3. s \in SwapsOf /\ s.fresh = x.swap.fresh /\ s.slot = x.swap.slot /\ s.bay = x.swap.bay /\ s.chosen = x.swap.chosen
      BY <2>1, <2>2 DEF SwapsOf
    <2>4. SwapAfter(x) = y
      BY <1>5
    <2> HIDE DEF s
    <2>5. y \in Body /\ Stands(x, y) /\ y.bays = x.bays /\ y.hold = x.hold /\ y.swap = s
      BY <1>1, <2>3 DEF Body, Stands
    <2> HIDE DEF y
    <2>6. Contents(y) = Contents(x) /\ (Tidy(y) <=> Tidy(x))
      BY <2>5, SlotsDecide
    <2>7. y \in Sane
      BY <1>5, <2>3, <2>5, <2>6 DEF Sane, AsChosen
    <2> QED
      BY <2>4, <2>5, <2>6, <2>7
  <1> QED
    BY <1>1, <1>2, <1>3, <1>4, <1>5 DEF SwapAfter


(***************************************************************************)
(* Worlds.                                                                 *)
(***************************************************************************)
LEMMA WorldIs ==
  ASSUME NEW w \in Worlds
  PROVE  /\ w.bots \in [Bot -> Sane \union {Absent}] /\ w.dots \in [Item -> Lain \union {None}]
         /\ w.mines \in Seq(Armed) /\ w.gone \in [Item -> Ends]
  BY DEF Worlds

LEMMA PresentIs ==
  ASSUME NEW w \in Worlds, NEW b \in Bot
  PROVE  /\ Present(w, b) <=> w.bots[b] # Absent
         /\ Present(w, b) <=> w.bots[b] \in Sane
         /\ Present(w, b) => w.bots[b] \in Sane /\ w.bots[b] \in Loose /\ w.bots[b] \in Body
         /\ Alive(w, b) => Present(w, b)
         /\ Downed(w, b) => Present(w, b)
         /\ Present(w, b) => Alive(w, b) \/ Downed(w, b)
  <1>1. w.bots[b] \in Sane \union {Absent}
    BY WorldIs
  <1>2. \A x \in Sane : x \in Loose /\ x \in Body
    BY SaneIs DEF Sane
  <1>3. \A x \in Sane : x.state \in {"alive", "downed"} /\ x # Absent
    BY <1>2, BodyIs, AbsentIs
  <1> QED
    BY <1>1, <1>2, <1>3, AbsentIs DEF Present, Alive, Downed

LEMMA MinesAre ==
  ASSUME NEW w \in Worlds
  PROVE  /\ Len(w.mines) \in Nat /\ DOMAIN w.mines = 1..Len(w.mines)
         /\ \A k \in DOMAIN w.mines : /\ w.mines[k] \in Armed /\ w.mines[k].item \in Item /\ w.mines[k].owner \in Bot
                                      /\ w.mines[k].squad \in Squad /\ w.mines[k].place \in Place
         /\ IsFiniteSet(DOMAIN w.mines) /\ Laid(w) \subseteq Item
         /\ \A b \in Bot : Owned(w, b) \subseteq DOMAIN w.mines
  <1>1. w.mines \in Seq(Armed)
    BY WorldIs
  <1>2. Len(w.mines) \in Nat /\ DOMAIN w.mines = 1..Len(w.mines) /\ \A k \in DOMAIN w.mines : w.mines[k] \in Armed
    BY <1>1
  <1>3. \A x \in Armed : x.item \in Item /\ x.owner \in Bot /\ x.squad \in Squad /\ x.place \in Place
    BY DEF Armed
  <1>4. IsFiniteSet(DOMAIN w.mines)
    BY <1>2, FS_Interval
  <1>5. Laid(w) \subseteq Item
    BY <1>2, <1>3 DEF Laid
  <1>6. \A b \in Bot : Owned(w, b) \subseteq DOMAIN w.mines
    BY DEF Owned
  <1> QED
    BY <1>2, <1>3, <1>4, <1>5, <1>6

(* The same bodies are in the run, on the same sides. *)
Steady(w, v) ==
  \A b \in Bot : /\ Present(v, b) <=> Present(w, b)
                 /\ Present(w, b) => v.bots[b].squad = w.bots[b].squad

(* The cap of a squad depends on who is present and on which side.         *)
LEMMA CappedKept ==
  ASSUME NEW w, NEW v, Steady(w, v), Capped(w)
  PROVE  Capped(v)
  <1>1. ASSUME NEW s \in Squad PROVE SquadSize(v, s) = SquadSize(w, s)
    <2>1. {b \in Bot : Present(v, b) /\ v.bots[b].squad = s} = {b \in Bot : Present(w, b) /\ w.bots[b].squad = s}
      BY DEF Steady, Present
    <2> QED
      BY <2>1 DEF SquadSize
  <1> QED
    BY <1>1 DEF Capped

(* What happens to other items does not matter to this one. *)
LEMMA OneKept ==
  ASSUME NEW w, NEW v, NEW i, One(w, i),
         \A b \in Bot : Has(v, b, i) <=> Has(w, b, i),
         v.dots[i] = None <=> w.dots[i] = None,
         i \in Laid(v) <=> i \in Laid(w),
         v.gone[i] = None <=> w.gone[i] = None
  PROVE  One(v, i)
  BY DEF One

(* Mines that are only armed are the same mines. *)
LEMMA MinesKept ==
  ASSUME NEW w \in Worlds, NEW v, Allied(w), Apart(w), DOMAIN v.mines = DOMAIN w.mines,
         \A k \in DOMAIN w.mines : /\ v.mines[k].item = w.mines[k].item /\ v.mines[k].owner = w.mines[k].owner
                                   /\ v.mines[k].squad = w.mines[k].squad
  PROVE  /\ Laid(v) = Laid(w)
         /\ \A k, l \in DOMAIN v.mines : v.mines[k].item = v.mines[l].item => k = l
         /\ Steady(w, v) => Allied(v)
  <1>1. Laid(v) = Laid(w)
    BY DEF Laid
  <1>2. \A k, l \in DOMAIN v.mines : v.mines[k].item = v.mines[l].item => k = l
    BY DEF Apart
  <1>3. ASSUME Steady(w, v) PROVE Allied(v)
    <2>1. ASSUME NEW b \in Bot PROVE Owned(v, b) = Owned(w, b)
      BY DEF Owned
    <2>2. \A k \in DOMAIN v.mines : Present(v, v.mines[k].owner) /\ v.mines[k].squad = v.bots[v.mines[k].owner].squad
      BY <1>3, MinesAre DEF Allied, Steady, Present
    <2> QED
      BY <2>1, <2>2 DEF Allied
  <1> QED
    BY <1>1, <1>2, <1>3

(* Bodies, Dots and mines that only change what no part of Sound is about. *)
LEMMA SoundKept ==
  ASSUME NEW w, Sound(w), NEW v \in Worlds, Steady(w, v),
         \A b \in Bot : Present(w, b) => Contents(v.bots[b]) = Contents(w.bots[b]),
         \A i \in Item : v.dots[i] = None <=> w.dots[i] = None,
         v.gone = w.gone, DOMAIN v.mines = DOMAIN w.mines,
         \A k \in DOMAIN w.mines : /\ v.mines[k].item = w.mines[k].item /\ v.mines[k].owner = w.mines[k].owner
                                   /\ v.mines[k].squad = w.mines[k].squad
  PROVE  Sound(v)
  <1>1. w \in Worlds /\ Apart(w) /\ Allied(w) /\ Capped(w)
    BY DEF Sound
  <1>2. /\ Laid(v) = Laid(w)
        /\ \A k, l \in DOMAIN v.mines : v.mines[k].item = v.mines[l].item => k = l
        /\ Steady(w, v) => Allied(v)
    BY <1>1, MinesKept
  <1>3. ASSUME NEW i \in Item PROVE One(v, i)
    <2>1. \A b \in Bot : Has(v, b, i) <=> Has(w, b, i)
      BY DEF Has, Steady, Present
    <2>2. One(w, i)
      BY <1>1 DEF Apart
    <2> QED
      BY <1>2, <2>1, <2>2, OneKept
  <1> QED
    BY <1>1, <1>2, <1>3, CappedKept DEF Sound, Apart

(* A single body that changes nothing of that. *)
LEMMA BodyKept ==
  ASSUME NEW w, Sound(w), NEW b \in Bot, Present(w, b), NEW y \in Sane,
         y.squad = w.bots[b].squad, Contents(y) = Contents(w.bots[b]),
         NEW v \in Worlds, v.bots = [w.bots EXCEPT ![b] = y], v.dots = w.dots, v.mines = w.mines, v.gone = w.gone
  PROVE  Sound(v)
  <1>1. w \in Worlds
    BY DEF Sound
  <1>2. w.bots \in [Bot -> Sane \union {Absent}]
    BY <1>1, WorldIs
  <1>3. /\ v \in Worlds /\ v.bots = [w.bots EXCEPT ![b] = y] /\ v.dots = w.dots /\ v.mines = w.mines /\ v.gone = w.gone
    OBVIOUS
  <1>4. v.bots[b] = y /\ \A a \in Bot \ {b} : v.bots[a] = w.bots[a]
    BY <1>2, <1>3
  <1>5. Present(v, b)
    BY <1>3, <1>4, PresentIs
  <1>6. Steady(w, v)
    BY <1>4, <1>5 DEF Steady, Present
  <1>7. \A a \in Bot : Present(w, a) => Contents(v.bots[a]) = Contents(w.bots[a])
    BY <1>4
  <1>8. Sound(v)
    BY <1>3, <1>6, <1>7, SoundKept
  <1> QED
    BY <1>8

(* One item changes its place. *)
LEMMA SoundMoved ==
  ASSUME NEW w, Sound(w), NEW v \in Worlds, Steady(w, v), NEW i \in Item, v.mines = w.mines, One(v, i),
         \A j \in Item \ {i} : /\ \A b \in Bot : Has(v, b, j) <=> Has(w, b, j)
                               /\ v.dots[j] = None <=> w.dots[j] = None
                               /\ v.gone[j] = w.gone[j]
  PROVE  Sound(v)
  <1>1. w \in Worlds /\ Apart(w) /\ Allied(w) /\ Capped(w)
    BY DEF Sound
  <1>2. /\ Laid(v) = Laid(w)
        /\ \A k, l \in DOMAIN v.mines : v.mines[k].item = v.mines[l].item => k = l
        /\ Steady(w, v) => Allied(v)
    BY <1>1, MinesKept
  <1>3. ASSUME NEW j \in Item \ {i} PROVE One(v, j)
    <2>1. One(w, j)
      BY <1>1 DEF Apart
    <2> QED
      BY <1>2, <2>1, OneKept
  <1> QED
    BY <1>1, <1>2, <1>3, CappedKept DEF Sound, Apart


(* Some of the mines are left. *)
LEMMA MinesFewer ==
  ASSUME NEW w \in Worlds, Apart(w), Allied(w), NEW K \in SUBSET DOMAIN w.mines,
         NEW v, v.mines \in Seq(Armed), Picks(v.mines, w.mines, K)
  PROVE  /\ \A k, l \in DOMAIN v.mines : v.mines[k].item = v.mines[l].item => k = l
         /\ Laid(v) = {w.mines[k].item : k \in K}
         /\ \A j \in DOMAIN v.mines : \E k \in K : v.mines[j] = w.mines[k]
         /\ \A b \in Bot : /\ Cardinality(Owned(v, b)) = Cardinality(Owned(w, b) \intersect K)
                          /\ Cardinality(Owned(v, b)) <= MaxMines
  <1> DEFINE s == w.mines
             t == v.mines
  <1>1. PICK f \in Bijection(DOMAIN t, K) : \A j \in DOMAIN t : t[j] = s[f[j]]
    BY DEF Picks
  <1>2. /\ \A j \in DOMAIN t : f[j] \in K
        /\ \A i, j \in DOMAIN t : f[i] = f[j] => i = j
        /\ \A k \in K : \E j \in DOMAIN t : f[j] = k
    BY DEF Bijection, Injection, Surjection, IsInjective
  <1>3. \A k, l \in DOMAIN s : s[k].item = s[l].item => k = l
    BY DEF Apart
  <1>4. \A k, l \in DOMAIN t : t[k].item = t[l].item => k = l
    BY <1>1, <1>2, <1>3
  <1>5. Laid(v) = {s[k].item : k \in K}
    BY <1>1, <1>2 DEF Laid
  <1>6. \A j \in DOMAIN t : \E k \in K : t[j] = s[k]
    BY <1>1, <1>2
  <1>7. IsFiniteSet(K) /\ IsFiniteSet(DOMAIN s)
    BY MinesAre, FS_Subset
  <1>8. ASSUME NEW b \in Bot
        PROVE  /\ Cardinality(Owned(v, b)) = Cardinality(Owned(w, b) \intersect K)
               /\ Cardinality(Owned(v, b)) <= MaxMines
    <2> DEFINE T == Owned(v, b)
               L == Owned(w, b) \intersect K
    <2>1. T \subseteq DOMAIN t /\ L \subseteq K /\ Owned(w, b) \subseteq DOMAIN s
      BY DEF Owned
    <2>2. \A j \in DOMAIN t, k \in K : t[j] = s[k] => (j \in T <=> k \in L)
      BY DEF Owned
    <2> HIDE DEF T, L
    <2>3. Picks(t, s, K)
      OBVIOUS
    <2>4. Cardinality(T) = Cardinality(L)
      <3> HIDE DEF t, s
      <3> QED
        BY ONLY <1>7, <2>1, <2>2, <2>3, PicksCount
    <2>5. IsFiniteSet(Owned(w, b)) /\ L \subseteq Owned(w, b)
      BY <1>7, <2>1, FS_Subset DEF L
    <2>6. Cardinality(L) <= Cardinality(Owned(w, b)) /\ Cardinality(L) \in Nat /\ Cardinality(Owned(w, b)) \in Nat
      BY <2>5, FS_Subset, FS_CardinalityType
    <2>7. Cardinality(Owned(w, b)) <= MaxMines
      BY DEF Allied
    <2> QED
      BY <2>4, <2>6, <2>7, Sizes DEF T, L
  <1> QED
    BY <1>4, <1>5, <1>6, <1>8

(* One mine is gone, and with it its item. *)
LEMMA MineGone ==
  ASSUME NEW w, Sound(w), NEW k \in DOMAIN w.mines, NEW e \in Ends \ {None},
         NEW v \in Worlds, v.bots = w.bots, v.dots = w.dots, v.mines = RemoveAt(w.mines, k),
         v.gone = [w.gone EXCEPT ![w.mines[k].item] = e]
  PROVE  /\ Sound(v)
         /\ \A b \in Bot : Cardinality(Owned(v, b)) = Cardinality(Owned(w, b) \ {k})
  <1> DEFINE i == w.mines[k].item
             t == RemoveAt(w.mines, k)
             K == DOMAIN w.mines \ {k}
  <1>1. w \in Worlds /\ Apart(w) /\ Allied(w) /\ Capped(w)
    BY DEF Sound
  <1>2. i \in Item /\ w.mines \in Seq(Armed)
    BY <1>1, MinesAre, WorldIs
  <1>3. t \in Seq(Armed) /\ Picks(t, w.mines, K)
    BY <1>2, RemovalIs
  <1>0. v.mines = t
    OBVIOUS
  <1> HIDE DEF t
  <1>4. /\ v \in Worlds /\ v.mines = t /\ v.bots = w.bots /\ v.dots = w.dots
        /\ v.gone = [w.gone EXCEPT ![i] = e]
    BY <1>0
  <1>5. /\ \A l, m \in DOMAIN v.mines : v.mines[l].item = v.mines[m].item => l = m
        /\ Laid(v) = {w.mines[l].item : l \in K}
        /\ \A j \in DOMAIN v.mines : \E l \in K : v.mines[j] = w.mines[l]
        /\ \A b \in Bot : /\ Cardinality(Owned(v, b)) = Cardinality(Owned(w, b) \intersect K)
                         /\ Cardinality(Owned(v, b)) <= MaxMines
    <2>1. v.mines \in Seq(Armed) /\ Picks(v.mines, w.mines, K) /\ K \in SUBSET DOMAIN w.mines
      BY <1>3, <1>4
    <2> HIDE DEF K
    <2> QED
      BY ONLY <1>1, <2>1, MinesFewer
  <1>6. \A j \in Item : j \in Laid(v) <=> j \in Laid(w) /\ j # i
    <2>1. \A l \in DOMAIN w.mines : w.mines[l].item = i => l = k
      BY <1>1 DEF Apart
    <2> QED
      BY <1>5, <2>1 DEF Laid
  <1>7. \A b \in Bot, j \in Item : Has(v, b, j) <=> Has(w, b, j)
    BY <1>4 DEF Has, Present
  <1>8. ASSUME NEW j \in Item PROVE One(v, j)
    <2>1. One(w, j)
      BY <1>1 DEF Apart
    <2>2. v.gone[j] = None <=> w.gone[j] = None /\ j # i
      BY <1>1, <1>2, <1>4, WorldIs
    <2>3. i \in Laid(w)
      BY DEF Laid
    <2> QED
      BY <1>4, <1>6, <1>7, <2>1, <2>2, <2>3 DEF One
  <1>9. Apart(v)
    BY <1>5, <1>8 DEF Apart
  <1>10. Allied(v)
    <2>1. \A l \in DOMAIN w.mines : Present(w, w.mines[l].owner) /\ w.mines[l].squad = w.bots[w.mines[l].owner].squad
      BY <1>1 DEF Allied
    <2>2. \A l \in DOMAIN v.mines : Present(v, v.mines[l].owner) /\ v.mines[l].squad = v.bots[v.mines[l].owner].squad
      BY <1>4, <1>5, <2>1 DEF Present
    <2> QED
      BY <1>5, <2>2 DEF Allied
  <1>11. Capped(v)
    BY <1>1, <1>4, CappedKept DEF Steady, Present
  <1>12. \A b \in Bot : Cardinality(Owned(v, b)) = Cardinality(Owned(w, b) \ {k})
    <2> TAKE b \in Bot
    <2>1. Owned(w, b) \intersect K = Owned(w, b) \ {k}
      BY DEF Owned
    <2> QED
      BY <1>5, <2>1
  <1> QED
    BY <1>4, <1>9, <1>10, <1>11, <1>12 DEF Sound

(* A body gives an item away: to the floor, to nobody, or as a mine. *)
LEMMA Given ==
  ASSUME NEW w, Sound(w), NEW b \in Bot, Present(w, b), NEW y \in Sane, NEW i \in Contents(w.bots[b]),
         y.squad = w.bots[b].squad, Contents(y) = Contents(w.bots[b]) \ {i},
         NEW v \in Worlds, v.bots = [w.bots EXCEPT ![b] = y]
  PROVE  /\ i \in Item /\ Steady(w, v) /\ One(w, i)
         /\ \A a \in Bot, j \in Item \ {i} : Has(v, a, j) <=> Has(w, a, j)
         /\ \A a \in Bot : ~Has(v, a, i)
         /\ w.dots[i] = None /\ i \notin Laid(w) /\ w.gone[i] = None
  <1>1. w \in Worlds /\ Apart(w)
    BY DEF Sound
  <1>2. w.bots \in [Bot -> Sane \union {Absent}]
    BY <1>1, WorldIs
  <1>3. v.bots[b] = y /\ \A a \in Bot \ {b} : v.bots[a] = w.bots[a]
    BY <1>2
  <1>4. Present(v, b)
    BY <1>3, PresentIs
  <1>5. Steady(w, v)
    BY <1>3, <1>4 DEF Steady, Present
  <1>6. w.bots[b] \in Body
    BY <1>1, PresentIs
  <1>7. i \in Item
    BY <1>6, ContentsAre
  <1>8. One(w, i) /\ Has(w, b, i)
    BY <1>1, <1>7 DEF Apart, Has
  <1>9. \A a \in Bot, j \in Item \ {i} : Has(v, a, j) <=> Has(w, a, j)
    <2> TAKE a \in Bot, j \in Item \ {i}
    <2>1. CASE a = b
      BY <1>3, <1>4, <2>1 DEF Has, Present
    <2>2. CASE a # b
      BY <1>3, <2>2 DEF Has, Present
    <2> QED
      BY <2>1, <2>2
  <1>10. \A a \in Bot : ~Has(v, a, i)
    <2> TAKE a \in Bot
    <2>1. CASE a = b
      BY <1>3, <2>1 DEF Has
    <2>2. CASE a # b
      BY <1>3, <1>8, <2>2 DEF Has, Present, One
    <2> QED
      BY <2>1, <2>2
  <1>11. w.dots[i] = None /\ i \notin Laid(w) /\ w.gone[i] = None
    BY <1>8 DEF One
  <1> QED
    BY <1>5, <1>7, <1>8, <1>9, <1>10, <1>11


(* To the floor. *)
LEMMA GivenToFloor ==
  ASSUME NEW w, Sound(w), NEW b \in Bot, Present(w, b), NEW y \in Sane, NEW i \in Contents(w.bots[b]),
         y.squad = w.bots[b].squad, Contents(y) = Contents(w.bots[b]) \ {i}, NEW d \in Lain, NEW v \in Worlds,
         v.bots = [w.bots EXCEPT ![b] = y], v.dots = [w.dots EXCEPT ![i] = d], v.mines = w.mines, v.gone = w.gone
  PROVE  Sound(v)
  <1>1. w \in Worlds /\ w.bots[b] \in Body
    BY PresentIs DEF Sound
  <1>2. i \in Item
    BY <1>1, ContentsAre
  <1>3. /\ v \in Worlds /\ v.bots = [w.bots EXCEPT ![b] = y] /\ v.mines = w.mines /\ v.gone = w.gone
        /\ v.dots = [w.dots EXCEPT ![i] = d]
    OBVIOUS
  <1>4. /\ Steady(w, v) /\ One(w, i)
        /\ \A a \in Bot, j \in Item \ {i} : Has(v, a, j) <=> Has(w, a, j)
        /\ \A a \in Bot : ~Has(v, a, i)
        /\ w.dots[i] = None /\ i \notin Laid(w) /\ w.gone[i] = None
    BY <1>3, Given
  <1>5. v.dots[i] = d /\ d # None /\ \A j \in Item \ {i} : v.dots[j] = w.dots[j]
    BY <1>1, <1>2, <1>3, NoneIs, WorldIs
  <1>6. Laid(v) = Laid(w)
    BY <1>3 DEF Laid
  <1>7. One(v, i)
    BY <1>3, <1>4, <1>5, <1>6 DEF One
  <1>8. Sound(v)
    BY <1>2, <1>3, <1>4, <1>5, <1>7, SoundMoved
  <1> QED
    BY <1>8

(* To nobody. *)
LEMMA GivenUp ==
  ASSUME NEW w, Sound(w), NEW b \in Bot, Present(w, b), NEW y \in Sane, NEW i \in Contents(w.bots[b]),
         y.squad = w.bots[b].squad, Contents(y) = Contents(w.bots[b]) \ {i}, NEW e \in Ends \ {None},
         NEW v \in Worlds,
         v.bots = [w.bots EXCEPT ![b] = y], v.dots = w.dots, v.mines = w.mines, v.gone = [w.gone EXCEPT ![i] = e]
  PROVE  Sound(v)
  <1>1. w \in Worlds /\ w.bots[b] \in Body
    BY PresentIs DEF Sound
  <1>2. i \in Item
    BY <1>1, ContentsAre
  <1>3. /\ v \in Worlds /\ v.bots = [w.bots EXCEPT ![b] = y] /\ v.mines = w.mines /\ v.dots = w.dots
        /\ v.gone = [w.gone EXCEPT ![i] = e]
    OBVIOUS
  <1>4. /\ Steady(w, v) /\ One(w, i)
        /\ \A a \in Bot, j \in Item \ {i} : Has(v, a, j) <=> Has(w, a, j)
        /\ \A a \in Bot : ~Has(v, a, i)
        /\ w.dots[i] = None /\ i \notin Laid(w) /\ w.gone[i] = None
    BY <1>3, Given
  <1>5. v.gone[i] # None /\ \A j \in Item \ {i} : v.gone[j] = w.gone[j]
    BY <1>1, <1>2, <1>3, WorldIs
  <1>6. Laid(v) = Laid(w)
    BY <1>3 DEF Laid
  <1>7. One(v, i)
    BY <1>3, <1>4, <1>5, <1>6 DEF One
  <1>8. \A j \in Item \ {i} : /\ \A a \in Bot : Has(v, a, j) <=> Has(w, a, j)
                              /\ v.dots[j] = None <=> w.dots[j] = None
                              /\ v.gone[j] = w.gone[j]
    BY <1>3, <1>4, <1>5
  <1>9. Sound(v)
    BY ONLY Sound(w), <1>2, <1>3, <1>4, <1>7, <1>8, SoundMoved
  <1> QED
    BY <1>9

(* As a mine, while there are fewer of its own than may be. *)
LEMMA GivenAsMine ==
  ASSUME NEW w, Sound(w), NEW b \in Bot, Present(w, b), NEW y \in Sane, NEW i \in Contents(w.bots[b]),
         y.squad = w.bots[b].squad, Contents(y) = Contents(w.bots[b]) \ {i},
         NEW m \in Armed, m.item = i, m.owner = b, m.squad = y.squad, Cardinality(Owned(w, b)) < MaxMines,
         NEW v \in Worlds,
         v.bots = [w.bots EXCEPT ![b] = y], v.dots = w.dots, v.mines = Append(w.mines, m), v.gone = w.gone
  PROVE  Sound(v)
  <1> DEFINE t == Append(w.mines, m)
             n == Len(w.mines) + 1
  <1>1. w \in Worlds /\ w.bots[b] \in Body /\ Apart(w) /\ Allied(w) /\ Capped(w)
    BY PresentIs DEF Sound
  <1>2. i \in Item
    BY <1>1, ContentsAre
  <1>3. w.mines \in Seq(Armed)
    BY <1>1, WorldIs
  <1>4. /\ t \in Seq(Armed) /\ DOMAIN t = DOMAIN w.mines \union {n} /\ n \notin DOMAIN w.mines
        /\ \A k \in DOMAIN w.mines : t[k] = w.mines[k]
        /\ t[n] = m
    BY <1>3, AppendIs
  <1>0. v.mines = t
    OBVIOUS
  <1> HIDE DEF t, n
  <1>5. /\ v \in Worlds /\ v.bots = [w.bots EXCEPT ![b] = y] /\ v.mines = t /\ v.dots = w.dots /\ v.gone = w.gone
    BY <1>0
  <1>6. /\ Steady(w, v) /\ One(w, i)
        /\ \A a \in Bot, j \in Item \ {i} : Has(v, a, j) <=> Has(w, a, j)
        /\ \A a \in Bot : ~Has(v, a, i)
        /\ w.dots[i] = None /\ i \notin Laid(w) /\ w.gone[i] = None
    BY <1>5, Given
  <1>7. \A k \in DOMAIN w.mines : w.mines[k].item # i
    BY <1>6 DEF Laid
  <1>8. \A k, l \in DOMAIN v.mines : v.mines[k].item = v.mines[l].item => k = l
    <2>1. \A k, l \in DOMAIN w.mines : w.mines[k].item = w.mines[l].item => k = l
      BY <1>1 DEF Apart
    <2> QED
      BY <1>4, <1>5, <1>7, <2>1
  <1>9. \A j : j \in Laid(v) <=> j \in Laid(w) \/ j = i
    BY <1>4, <1>5 DEF Laid
  <1>10. ASSUME NEW j \in Item PROVE One(v, j)
    <2>1. One(w, j)
      BY <1>1 DEF Apart
    <2>2. CASE j = i
      BY <1>5, <1>6, <1>9, <2>2 DEF One
    <2>3. CASE j # i
      <3>1. \A a \in Bot : Has(v, a, j) <=> Has(w, a, j)
        BY <1>6, <2>3
      <3> QED
        BY <1>5, <1>9, <2>1, <2>3, <3>1, OneKept
    <2> QED
      BY <2>2, <2>3
  <1>11. \A k \in DOMAIN v.mines : Present(v, v.mines[k].owner) /\ v.mines[k].squad = v.bots[v.mines[k].owner].squad
    <2>1. \A k \in DOMAIN w.mines : Present(w, w.mines[k].owner) /\ w.mines[k].squad = w.bots[w.mines[k].owner].squad
      BY <1>1 DEF Allied
    <2>2. \A k \in DOMAIN w.mines : w.mines[k].owner \in Bot
      BY <1>1, MinesAre
    <2>3. ASSUME NEW k \in DOMAIN w.mines
          PROVE  Present(v, v.mines[k].owner) /\ v.mines[k].squad = v.bots[v.mines[k].owner].squad
      BY <1>4, <1>5, <1>6, <2>1, <2>2 DEF Steady, Present
    <2>4. v.bots[b] = y /\ Present(v, b)
      BY <1>1, <1>5, <1>6, WorldIs DEF Steady, Present
    <2>5. Present(v, v.mines[n].owner) /\ v.mines[n].squad = v.bots[v.mines[n].owner].squad
      BY <1>4, <1>5, <2>4
    <2> QED
      BY <1>4, <1>5, <2>3, <2>5
  <1>12. ASSUME NEW a \in Bot PROVE Cardinality(Owned(v, a)) <= MaxMines
    <2>1. Cardinality(Owned(w, a)) <= MaxMines
      BY <1>1 DEF Allied
    <2>2. CASE a = b
      <3>1. Owned(v, b) = Owned(w, b) \union {n} /\ n \notin Owned(w, b)
        BY <1>4, <1>5 DEF Owned
      <3>2. IsFiniteSet(Owned(w, b))
        BY <1>1, MinesAre, FS_Subset
      <3>3. Cardinality(Owned(v, b)) = Cardinality(Owned(w, b)) + 1 /\ Cardinality(Owned(w, b)) \in Nat
        BY <3>1, <3>2, FS_AddElement, FS_CardinalityType
      <3> QED
        BY <2>2, <3>3, Sizes
    <2>3. CASE a # b
      <3>1. Owned(v, a) = Owned(w, a)
        BY <1>4, <1>5, <2>3 DEF Owned
      <3> QED
        BY <2>1, <3>1
    <2> QED
      BY <2>2, <2>3
  <1>13. Sound(v)
    BY <1>1, <1>5, <1>6, <1>8, <1>10, <1>11, <1>12, CappedKept DEF Sound, Apart, Allied
  <1> QED
    BY <1>13

(***************************************************************************)
(* What the intents of a tick leave as it is: who is there, on which side, *)
(* in which state and place, and every channel; a Dot is let go at most.   *)
(***************************************************************************)
Quiet(w, v) ==
  /\ \A b \in Bot : /\ Present(v, b) <=> Present(w, b)
                    /\ Present(w, b) => Stands(w.bots[b], v.bots[b])
  /\ \A i \in Item : v.dots[i] = w.dots[i] \/ v.dots[i] = None \/ v.dots[i].by = None

LEMMA QuietIs ==
  ASSUME NEW u, NEW v, NEW w
  PROVE  /\ Quiet(w, w)
         /\ Quiet(u, v) /\ Quiet(v, w) => Quiet(u, w)
         /\ Quiet(u, v) => Steady(u, v)
  <1>1. Quiet(w, w)
    BY DEF Quiet, Stands, Present
  <1>2. ASSUME Quiet(u, v), Quiet(v, w) PROVE Quiet(u, w)
    BY <1>2 DEF Quiet, Stands, Present
  <1>3. ASSUME Quiet(u, v) PROVE Steady(u, v)
    BY <1>3 DEF Quiet, Stands, Steady, Present
  <1> QED
    BY <1>1, <1>2, <1>3

LEMMA BodyQuiet ==
  ASSUME NEW w \in Worlds, NEW b \in Bot, Present(w, b), NEW y \in Sane, Stands(w.bots[b], y),
         NEW v, v.bots = [w.bots EXCEPT ![b] = y],
         \A i \in Item : v.dots[i] = w.dots[i] \/ v.dots[i] = None \/ v.dots[i].by = None
  PROVE  Quiet(w, v)
  <1>1. w.bots \in [Bot -> Sane \union {Absent}]
    BY WorldIs
  <1>2. v.bots[b] = y /\ \A a \in Bot \ {b} : v.bots[a] = w.bots[a]
    BY <1>1
  <1>3. y.state # "absent"
    BY AbsentIs DEF Sane
  <1>4. \A a \in Bot : /\ Present(v, a) <=> Present(w, a)
                       /\ Present(w, a) => Stands(w.bots[a], v.bots[a])
    <2> TAKE a \in Bot
    <2>1. CASE a = b
      BY <1>2, <1>3, <2>1 DEF Present
    <2>2. CASE a # b
      BY <1>2, <2>2 DEF Present, Stands
    <2> QED
      BY <2>1, <2>2
  <1> QED
    BY <1>4 DEF Quiet


(***************************************************************************)
(* Intents.                                                                *)
(***************************************************************************)
Keeps(w, v) == Sound(v) /\ Quiet(w, v)

LEMMA KeepsIs ==
  ASSUME NEW u, Sound(u), NEW v, NEW w
  PROVE  /\ Keeps(u, u)
         /\ Keeps(u, v) /\ Keeps(v, w) => Keeps(u, w)
         /\ \A b \in Bot : Keeps(u, v) /\ Present(u, b) => Present(v, b)
  <1>1. Quiet(u, u) /\ (Quiet(u, v) /\ Quiet(v, w) => Quiet(u, w))
    BY QuietIs
  <1>2. \A b \in Bot : Quiet(u, v) /\ Present(u, b) => Present(v, b)
    BY DEF Quiet, Present
  <1> QED
    BY <1>1, <1>2 DEF Keeps

LEMMA BodyChange ==
  ASSUME NEW w, Sound(w), NEW b \in Bot, Present(w, b), NEW y \in Sane, Stands(w.bots[b], y),
         Contents(y) = Contents(w.bots[b]),
         NEW v \in Worlds, v.bots = [w.bots EXCEPT ![b] = y], v.dots = w.dots, v.mines = w.mines, v.gone = w.gone
  PROVE  Keeps(w, v) /\ v.bots[b] = y /\ Present(v, b)
  <1>1. y.squad = w.bots[b].squad /\ w \in Worlds
    BY DEF Stands, Sound
  <1>2. Sound(v) /\ v.bots = [w.bots EXCEPT ![b] = y]
    BY <1>1, BodyKept
  <1>3. v.dots = w.dots
    OBVIOUS
  <1>4. Quiet(w, v)
    BY <1>1, <1>2, <1>3, BodyQuiet
  <1>5. v.bots[b] = y /\ Present(v, b)
    <2>1. w.bots \in [Bot -> Sane \union {Absent}]
      BY <1>1, WorldIs
    <2>2. v.bots[b] = y
      BY <1>2, <2>1
    <2>3. y.state # "absent"
      BY AbsentIs DEF Sane
    <2> QED
      BY <2>2, <2>3 DEF Present
  <1> QED
    BY <1>2, <1>4, <1>5 DEF Keeps

LEMMA LyingIs ==
  ASSUME NEW place \in Place
  PROVE  Lying(place) \in Lain /\ Lying(place).by = None
  <1>1. 0 \in 0..(CaptureTicks - 1)
    BY Sizes
  <1> QED
    BY <1>1 DEF Lying, Lain

(* The operators of the intents, one by one: a drop, a mine, a shot, a     *)
(* request to swap.                                                        *)
LEMMA DroppedKeeps ==
  ASSUME NEW w, Sound(w), NEW b \in Bot, Present(w, b), Drops(w.bots[b])
  PROVE  Keeps(w, Dropped(w, b))
  <1> DEFINE x == w.bots[b]
             d == x.input.drop
             item == IF d.from = "bay" THEN x.bays[d.index] ELSE x.hold[d.index]
             left == IF d.from = "bay" THEN [x EXCEPT !.bays[d.index] = None]
                     ELSE [x EXCEPT !.hold = RemoveAt(x.hold, d.index)]
             y == [Revised(left) EXCEPT !.swap = None]
  <1>1. w \in Worlds /\ x \in Loose /\ x \in Body
    BY PresentIs DEF Sound
  <1>2. d \in Requests.drop
    <2>1. d \in Requests.drop \union {None} /\ d # None
      BY <1>1 DEF Body, Inputs, Drops
    <2> QED
      BY <2>1
  <1>3. left \in Loose /\ Stands(x, left) /\ Contents(left) = Contents(x) \ {item} /\ item \in Contents(x)
    <2>1. CASE d.from = "bay"
      <3>1. d.index \in 1..BaySlots /\ x.bays[d.index] # None
        BY <1>2, <2>1 DEF Requests, Drops
      <3>2. None \notin Contents(x) /\ None \notin Item
        BY <1>1, ContentsAre, NoneIs
      <3>3. item \in Contents(x)
        BY <1>1, <2>1, <3>1, ContentsAre
      <3>4. /\ left \in Loose /\ Stands(x, left)
            /\ Contents(left) = (Contents(x) \ {x.bays[d.index]}) \union ({None} \intersect Item)
        BY <1>1, <2>1, <3>1, <3>2, BayIs
      <3>5. {None} \intersect Item = {}
        BY <3>2
      <3> QED
        BY <2>1, <3>3, <3>4, <3>5
    <2>2. CASE d.from # "bay"
      <3>1. d.index \in 1..HoldSlots /\ d.index <= Len(x.hold)
        BY <1>2, <2>2 DEF Requests, Drops
      <3>2. d.index \in DOMAIN x.hold
        BY <1>1, <3>1, ContentsAre
      <3>3. item \in Contents(x)
        BY <1>1, <2>2, <3>2, ContentsAre
      <3>4. left \in Loose /\ Stands(x, left) /\ Contents(left) = Contents(x) \ {x.hold[d.index]}
        BY <1>1, <2>2, <3>2, HoldShrunk
      <3> QED
        BY <2>2, <3>3, <3>4
    <2> QED
      BY <2>1, <2>2
  <1>4. Dropped(w, b) = [w EXCEPT !.bots[b] = y, !.dots[item] = Lying(x.place)]
    BY DEF Dropped
  <1> HIDE DEF left, item
  <1>5. Revised(left) \in Sane /\ Stands(left, Revised(left)) /\ Contents(Revised(left)) = Contents(left)
    BY <1>3, RevisedStands
  <1>6. Revised(left) \in Body
    BY <1>5 DEF Sane
  <1>7. /\ y \in Body /\ y.bays = Revised(left).bays /\ y.hold = Revised(left).hold /\ y.swap = None
        /\ Stands(Revised(left), y)
    BY <1>6 DEF Body, Stands
  <1>8. y \in Sane /\ Contents(y) = Contents(Revised(left))
    BY <1>5, <1>7, StillSane
  <1> HIDE DEF y
  <1>9. Stands(x, y) /\ y.squad = x.squad /\ Contents(y) = Contents(x) \ {item}
    BY <1>3, <1>5, <1>7, <1>8 DEF Stands
  <1> DEFINE d2 == Lying(x.place)
             u == [w EXCEPT !.bots[b] = y, !.dots[item] = d2]
  <1>10. d2 \in Lain /\ d2.by = None
    BY <1>1, BodyIs, LyingIs
  <1>11. item \in Item
    BY <1>1, <1>3, ContentsAre
  <1>12. Dropped(w, b) = u
    BY <1>4
  <1> HIDE DEF d2
  <1>13. /\ u \in Worlds /\ u.bots = [w.bots EXCEPT ![b] = y] /\ u.dots = [w.dots EXCEPT ![item] = d2]
         /\ u.mines = w.mines /\ u.gone = w.gone
    BY <1>1, <1>8, <1>10, <1>11 DEF Worlds
  <1> HIDE DEF u
  <1>14. Sound(u)
    BY <1>3, <1>8, <1>9, <1>10, <1>13, GivenToFloor
  <1>15. \A i \in Item : u.dots[i] = w.dots[i] \/ u.dots[i] = None \/ u.dots[i].by = None
    BY <1>1, <1>10, <1>13, WorldIs
  <1>16. Quiet(w, u)
    <2>1. w \in Worlds /\ y \in Sane /\ Stands(w.bots[b], y) /\ u.bots = [w.bots EXCEPT ![b] = y]
      BY <1>1, <1>8, <1>9, <1>13
    <2> QED
      BY ONLY b \in Bot, Present(w, b), <2>1, <1>15, BodyQuiet
  <1> QED
    BY <1>12, <1>14, <1>16 DEF Keeps

LEMMA PlacedKeeps ==
  ASSUME NEW w, Sound(w), NEW b \in Bot, Present(w, b), NEW y \in Sane, NEW i \in Contents(w.bots[b]),
         Stands(w.bots[b], y), Contents(y) = Contents(w.bots[b]) \ {i}
  PROVE  Keeps(w, Placed([w EXCEPT !.bots[b] = y], b, i))
  <1> DEFINE u == [w EXCEPT !.bots[b] = y]
             m == [item |-> i, owner |-> b, squad |-> y.squad, place |-> y.place, armed |-> FALSE]
             k == Lowest(Owned(w, b))
  <1>1. w \in Worlds /\ w.bots[b] \in Body /\ y \in Body
    BY PresentIs DEF Sound, Sane
  <1>2. w.bots \in [Bot -> Sane \union {Absent}]
    BY <1>1, WorldIs
  <1>3. /\ u.bots = [w.bots EXCEPT ![b] = y] /\ u.mines = w.mines /\ u.bots[b] = y
        /\ u.gone = w.gone /\ u.dots = w.dots
    BY <1>1, <1>2 DEF Worlds
  <1>4. Owned(u, b) = Owned(w, b)
    BY <1>3 DEF Owned
  <1>5. i \in Item /\ y.squad = w.bots[b].squad
    BY <1>1, ContentsAre DEF Stands
  <1>6. m \in Armed /\ m.item = i /\ m.owner = b /\ m.squad = y.squad
    BY <1>1, <1>5, BodyIs DEF Armed
  <1> DEFINE v == Placed(u, b, i)
  <1>7. CASE Cardinality(Owned(w, b)) < MaxMines
    <2>1. v = [u EXCEPT !.mines = Append(u.mines, m)]
      BY <1>3, <1>4, <1>7 DEF Placed
    <2>2. [u EXCEPT !.mines = Append(u.mines, m)] = [w EXCEPT !.bots[b] = y, !.mines = Append(w.mines, m)]
      BY <1>1, <1>3 DEF Worlds
    <2>5. Append(w.mines, m) \in Seq(Armed)
      BY <1>1, <1>6, WorldIs, AppendIs
    <2> HIDE DEF m
    <2> DEFINE t == Append(w.mines, m)
               x == [w EXCEPT !.bots[b] = y, !.mines = t]
    <2>7. v = x
      BY <2>1, <2>2
    <2> HIDE DEF v, u, t
    <2>6. x \in Worlds /\ x.bots = [w.bots EXCEPT ![b] = y] /\ x.dots = w.dots /\ x.mines = t /\ x.gone = w.gone
      BY <1>1, <2>5 DEF Worlds, t
    <2>8. /\ v \in Worlds /\ v.bots = [w.bots EXCEPT ![b] = y] /\ v.dots = w.dots
          /\ v.mines = Append(w.mines, m) /\ v.gone = w.gone
      BY <2>6, <2>7 DEF t
    <2> HIDE DEF x
    <2>3. Sound(v)
      BY <1>5, <1>6, <1>7, <2>8, GivenAsMine
    <2>4. Quiet(w, v)
      BY <1>1, <2>8, BodyQuiet
    <2> QED
      BY <2>3, <2>4 DEF Keeps, v, u
  <1>8. CASE ~(Cardinality(Owned(w, b)) < MaxMines)
    <2> DEFINE t == RemoveAt(w.mines, k)
               j == w.mines[k].item
               r == [w EXCEPT !.mines = t, !.gone[j] = "spent"]
    <2>1. Owned(w, b) \subseteq DOMAIN w.mines /\ IsFiniteSet(DOMAIN w.mines) /\ DOMAIN w.mines \subseteq Nat
      BY <1>1, MinesAre
    <2>2. IsFiniteSet(Owned(w, b)) /\ Owned(w, b) \subseteq Nat
      BY <2>1, FS_Subset
    <2>3. Cardinality(Owned(w, b)) \in Nat /\ Cardinality(Owned(w, b)) <= MaxMines
      BY <2>2, FS_CardinalityType DEF Sound, Allied
    <2>4. Owned(w, b) # {}
      BY <1>8, <2>3, Sizes, FS_EmptySet
    <2>5. k \in Owned(w, b)
      BY <2>2, <2>4, LowestIs
    <2>6. k \in DOMAIN w.mines /\ "spent" \in Ends \ {None}
      BY <2>1, <2>5, NoneIs DEF Ends
    <2>7. v = [u EXCEPT !.mines = Append(RemoveAt(u.mines, k), m), !.gone[u.mines[k].item] = "spent"]
      BY <1>3, <1>4, <1>8 DEF Placed
    <2>8. r.bots = w.bots /\ r.mines = t /\ r.dots = w.dots /\ r.gone = [w.gone EXCEPT ![j] = "spent"]
      BY <1>1 DEF Worlds
    <2>9. v = [r EXCEPT !.bots[b] = y, !.mines = Append(r.mines, m)]
      BY <1>1, <1>3, <2>7, <2>8 DEF Worlds
    <2>15. t \in Seq(Armed) /\ j \in Item
      BY <1>1, <2>6, WorldIs, MinesAre, RemovalIs
    <2> HIDE DEF k, t
    <2>16. r \in Worlds
      BY <1>1, <2>6, <2>15 DEF Worlds
    <2> USE DEF t
    <2> HIDE DEF r
    <2>10. Sound(r) /\ \A a \in Bot : Cardinality(Owned(r, a)) = Cardinality(Owned(w, a) \ {k})
      BY <2>6, <2>8, <2>16, MineGone
    <2>11. Cardinality(Owned(r, b)) < MaxMines
      <3>1. Cardinality(Owned(w, b) \ {k}) = Cardinality(Owned(w, b)) - 1
        BY <2>2, <2>5, FS_RemoveElement
      <3> QED
        BY <2>3, <2>10, <3>1, Sizes
    <2>12. Present(r, b) /\ Contents(r.bots[b]) = Contents(w.bots[b]) /\ Stands(r.bots[b], y) /\ y.squad = r.bots[b].squad
      BY <1>5, <2>8 DEF Present
    <2>17. Append(r.mines, m) \in Seq(Armed)
      BY <1>6, <2>16, WorldIs, AppendIs
    <2> HIDE DEF m
    <2> DEFINE q == Append(r.mines, m)
               x == [r EXCEPT !.bots[b] = y, !.mines = q]
    <2>19. v = x
      BY <2>9
    <2> HIDE DEF v, u, q
    <2>20. x \in Worlds /\ x.bots = [r.bots EXCEPT ![b] = y] /\ x.dots = r.dots /\ x.mines = q /\ x.gone = r.gone
      BY <2>16, <2>17 DEF Worlds, q
    <2>18. /\ v \in Worlds /\ v.bots = [r.bots EXCEPT ![b] = y] /\ v.dots = r.dots
           /\ v.mines = Append(r.mines, m) /\ v.gone = r.gone
      BY <2>19, <2>20 DEF q
    <2> HIDE DEF x
    <2>13. Sound(v)
      BY <1>5, <1>6, <2>10, <2>11, <2>12, <2>18, GivenAsMine
    <2>14. Quiet(w, v)
      BY <1>1, <2>8, <2>18, BodyQuiet
    <2> QED
      BY <2>13, <2>14 DEF Keeps, v, u
  <1> QED
    BY <1>7, <1>8


LEMMA FiredKeeps ==
  ASSUME NEW w, Sound(w), NEW b \in Bot, Present(w, b), NEW k \in 1..BaySlots
  PROVE  Keeps(w, Fired(w, b, k))
  <1> DEFINE x == w.bots[b]
             item == x.bays[k]
             left == Revised([x EXCEPT !.bays[k] = None])
  <1>1. w \in Worlds /\ x \in Loose /\ x \in Body
    BY PresentIs DEF Sound
  <1>2. CASE item = None \/ Kind[item] = "blueprint"
    <2>1. Fired(w, b, k) = w
      BY <1>2 DEF Fired
    <2> QED
      BY <2>1, KeepsIs
  <1>3. CASE ~(item = None \/ Kind[item] = "blueprint")
    <2>1. item \in Item /\ item \in Contents(x) /\ None \notin Contents(x) /\ None \notin Item
      BY <1>1, <1>3, ContentsAre, NoneIs
    <2> DEFINE z == [x EXCEPT !.bays[k] = None]
    <2>2. /\ z \in Loose /\ Stands(x, z)
          /\ Contents(z) = (Contents(x) \ {x.bays[k]}) \union ({None} \intersect Item)
      BY <1>1, <2>1, BayIs
    <2>3. {None} \intersect Item = {}
      BY <2>1
    <2> HIDE DEF z
    <2>4. Revised(z) \in Sane /\ Stands(z, Revised(z)) /\ Contents(Revised(z)) = Contents(z)
      BY <2>2, RevisedStands
    <2>5. left \in Sane /\ Stands(x, left) /\ Contents(left) = Contents(x) \ {item}
      BY <2>2, <2>3, <2>4 DEF z, Stands
    <2> HIDE DEF left
    <2>6. CASE Kind[item] = "mine"
      <3>1. Fired(w, b, k) = Placed([w EXCEPT !.bots[b] = left], b, item)
        BY <1>3, <2>6 DEF Fired, left
      <3> HIDE DEF item, x
      <3>2. Keeps(w, Placed([w EXCEPT !.bots[b] = left], b, item))
        BY <2>1, <2>5, PlacedKeeps DEF x
      <3> QED
        BY <3>1, <3>2
    <2>7. CASE Kind[item] # "mine"
      <3> DEFINE y == IF Kind[item] = "health" THEN Restored(left) ELSE left
                 v == [w EXCEPT !.bots[b] = y, !.gone[item] = "spent"]
      <3>1. Fired(w, b, k) = v
        BY <1>3, <2>7 DEF Fired, left
      <3>2. Restored(left) \in Sane /\ Stands(left, Restored(left)) /\ Contents(Restored(left)) = Contents(left)
        BY <2>5, RestoredStands
      <3>3. y \in Sane /\ Stands(x, y) /\ Contents(y) = Contents(x) \ {item} /\ y.squad = x.squad
        BY <2>5, <3>2 DEF Stands
      <3>4. "spent" \in Ends /\ "spent" # None
        BY NoneIs DEF Ends
      <3> HIDE DEF y, item
      <3>5. /\ v \in Worlds /\ v.bots = [w.bots EXCEPT ![b] = y] /\ v.dots = w.dots /\ v.mines = w.mines
            /\ v.gone = [w.gone EXCEPT ![item] = "spent"]
        BY <1>1, <2>1, <3>3, <3>4 DEF Worlds
      <3> HIDE DEF v
      <3>6. Sound(v)
        BY <2>1, <3>3, <3>4, <3>5, GivenUp
      <3>7. Quiet(w, v)
        BY <1>1, <3>3, <3>5, BodyQuiet
      <3> QED
        BY <3>1, <3>6, <3>7 DEF Keeps
    <2> QED
      BY <2>6, <2>7
  <1> QED
    BY <1>2, <1>3

(* A body that only changes in what it asks for, or in how it pleads. *)
LEMMA WishKeeps ==
  ASSUME NEW w, Sound(w), NEW b \in Bot, Present(w, b), NEW y \in Body, Stands(w.bots[b], y),
         y.bays = w.bots[b].bays, y.hold = w.bots[b].hold, y.swap = w.bots[b].swap \/ y.swap = None,
         NEW v, v = [w EXCEPT !.bots[b] = y]
  PROVE  Keeps(w, v)
  <1>1. w \in Worlds /\ w.bots[b] \in Sane
    BY PresentIs DEF Sound
  <1>2. y \in Sane /\ Contents(y) = Contents(w.bots[b])
    BY <1>1, StillSane
  <1> DEFINE u == [w EXCEPT !.bots[b] = y]
  <1>3. u \in Worlds /\ u.bots = [w.bots EXCEPT ![b] = y] /\ u.dots = w.dots /\ u.mines = w.mines /\ u.gone = w.gone
    BY <1>1, <1>2 DEF Worlds
  <1>4. v = u
    OBVIOUS
  <1> HIDE DEF u
  <1>5. Keeps(w, u)
    BY <1>2, <1>3, BodyChange
  <1> QED
    BY <1>4, <1>5

LEMMA PleadsKeeps ==
  ASSUME NEW w, Sound(w), NEW b \in Bot, Present(w, b)
  PROVE  Keeps(w, Pleads(w, b))
  <1> DEFINE x == w.bots[b]
             y == [x EXCEPT !.pleaded = TRUE, !.quiet = TRUE]
  <1>1. w \in Worlds /\ x \in Body
    BY PresentIs DEF Sound
  <1>2. y \in Body /\ Stands(x, y) /\ y.bays = x.bays /\ y.hold = x.hold /\ y.swap = x.swap
    BY <1>1 DEF Body, Stands
  <1>3. w.bots \in [Bot -> Sane \union {Absent}]
    BY <1>1, WorldIs
  <1>4. Pleads(w, b) = [w EXCEPT !.bots[b] = y]
    BY <1>1, <1>3 DEF Pleads, Worlds
  <1> HIDE DEF y
  <1> QED
    BY <1>2, <1>4, WishKeeps

LEMMA InputKeeps ==
  ASSUME NEW w, Sound(w), NEW b \in Bot, Present(w, b), NEW i \in Inputs
  PROVE  Keeps(w, [w EXCEPT !.bots[b].input = i])
  <1> DEFINE x == w.bots[b]
             y == [x EXCEPT !.input = i]
  <1>1. w \in Worlds /\ x \in Body
    BY PresentIs DEF Sound
  <1>2. y \in Body /\ Stands(x, y) /\ y.bays = x.bays /\ y.hold = x.hold /\ y.swap = x.swap
    BY <1>1 DEF Body, Stands
  <1>3. [w EXCEPT !.bots[b].input = i] = [w EXCEPT !.bots[b] = y]
    OBVIOUS
  <1> HIDE DEF y
  <1> QED
    BY <1>2, <1>3, WishKeeps

LEMMA NoInputIs ==
  /\ NoInput \in Inputs
  /\ \A i \in Inputs : [NoInput EXCEPT !.verb = i.verb] \in Inputs
  BY DEF NoInput, Inputs

LEMMA ConsumedKeeps ==
  ASSUME NEW w, Sound(w), NEW b \in Bot, Present(w, b)
  PROVE  Keeps(w, Consumed(w, b))
  <1>1. w.bots[b].input \in Inputs
    BY PresentIs, BodyIs DEF Sound
  <1> DEFINE i == [NoInput EXCEPT !.verb = w.bots[b].input.verb]
  <1>2. i \in Inputs
    BY <1>1, NoInputIs
  <1>3. Consumed(w, b) = [w EXCEPT !.bots[b].input = i]
    BY DEF Consumed
  <1> HIDE DEF i
  <1> QED
    BY <1>2, <1>3, InputKeeps

LEMMA SwapBegunKeeps ==
  ASSUME NEW w, Sound(w), NEW b \in Bot, Present(w, b)
  PROVE  Keeps(w, SwapBegun(w, b))
  <1> DEFINE x == w.bots[b]
             s == x.input.swap
  <1>1. w \in Worlds /\ x \in Body /\ x \in Sane
    BY PresentIs DEF Sound
  <1>2. CASE s = None \/ x.swap # None \/ s.slot > Len(x.hold)
    <2>1. SwapBegun(w, b) = w
      BY <1>2 DEF SwapBegun
    <2> QED
      BY <2>1, KeepsIs
  <1>3. CASE ~(s = None \/ x.swap # None \/ s.slot > Len(x.hold))
    <2> DEFINE c == <<x.bays[s.bay], x.hold[s.slot]>>
               a == [bay |-> s.bay, slot |-> s.slot, fresh |-> TRUE, progress |-> 0, chosen |-> c]
               y == [x EXCEPT !.swap = a]
               u == [w EXCEPT !.bots[b] = y]
    <2>1. s \in Requests.swap
      BY <1>1, <1>3 DEF Body, Inputs
    <2>2. s.bay \in 1..BaySlots /\ s.slot \in 1..HoldSlots
      BY <2>1 DEF Requests
    <2>3. Len(x.hold) \in Nat /\ DOMAIN x.hold = 1..Len(x.hold)
      BY <1>1, ContentsAre
    <2>4. s.slot \in DOMAIN x.hold /\ s.slot <= Len(x.hold)
      BY <1>3, <2>2, <2>3
    <2>5. x.bays[s.bay] \in Item \union {None} /\ x.hold[s.slot] \in Item
      BY <1>1, <2>2, <2>4, ContentsAre
    <2>6. 0 \in 0..(SwapTicks - 1)
      BY Sizes
    <2>7. a \in SwapsOf
      BY <2>2, <2>5, <2>6 DEF SwapsOf
    <2>8. a.slot = s.slot /\ a.bay = s.bay /\ a.chosen = c
      OBVIOUS
    <2>9. SwapBegun(w, b) = u
      BY <1>3 DEF SwapBegun
    <2> HIDE DEF a
    <2>10. y \in Body /\ Stands(x, y) /\ y.bays = x.bays /\ y.hold = x.hold /\ y.swap = a
      BY <1>1, <2>7 DEF Body, Stands
    <2> HIDE DEF y
    <2>11. Contents(y) = Contents(x) /\ (Tidy(y) <=> Tidy(x))
      BY <2>10, SlotsDecide
    <2>12. AsChosen(y)
      BY <2>4, <2>8, <2>10 DEF AsChosen
    <2>13. y \in Sane
      BY <1>1, <2>10, <2>11, <2>12 DEF Sane
    <2>14. u \in Worlds /\ u.bots = [w.bots EXCEPT ![b] = y] /\ u.dots = w.dots /\ u.mines = w.mines /\ u.gone = w.gone
      BY <1>1, <2>13 DEF Worlds
    <2> HIDE DEF u
    <2>15. Keeps(w, u)
      BY <2>10, <2>11, <2>13, <2>14, BodyChange
    <2> QED
      BY <2>9, <2>15
  <1> QED
    BY <1>2, <1>3


(* Looting: one item, then everything that fits.                           *)
LEMMA TakenOneKeeps ==
  ASSUME NEW w, Sound(w), NEW a \in Bot, NEW b \in Bot, a # b, Present(w, a), Present(w, b), NEW n \in Nat \ {0}
  PROVE  Keeps(w, TakenOne(w, a, b, n))
  <1>1. w \in Worlds /\ w.bots[a] \in Loose /\ w.bots[b] \in Loose /\ w.bots[a] \in Body /\ w.bots[b] \in Body
    BY PresentIs DEF Sound
  <1>2. CASE ~HasRoom(w.bots[a]) \/ n > Load(w.bots[b])
    <2>1. TakenOne(w, a, b, n) = w
      BY <1>2 DEF TakenOne
    <2> QED
      BY <2>1, KeepsIs
  <1>3. CASE ~(~HasRoom(w.bots[a]) \/ n > Load(w.bots[b]))
    <2> DEFINE c == Carried(w.bots[b], n)
               x == Revised(Inserted(w.bots[a], c))
               y == Revised(Without(w.bots[b], n))
               v == [w EXCEPT !.bots[a] = x, !.bots[b] = y]
    <2>1. /\ c \in Item /\ c \in Contents(w.bots[b])
          /\ Without(w.bots[b], n) \in Loose /\ Stands(w.bots[b], Without(w.bots[b], n))
          /\ Contents(Without(w.bots[b], n)) = Contents(w.bots[b]) \ {c}
      BY <1>1, <1>3, CarriedIs
    <2>2. TakenOne(w, a, b, n) = v
      BY <1>3 DEF TakenOne
    <2> HIDE DEF c
    <2>3. One(w, c) /\ Has(w, b, c)
      BY <2>1 DEF Sound, Apart, Has
    <2>4. c \notin Contents(w.bots[a]) /\ w.dots[c] = None /\ c \notin Laid(w) /\ w.gone[c] = None
      BY <2>3 DEF One, Has
    <2>5. /\ Inserted(w.bots[a], c) \in Loose /\ Stands(w.bots[a], Inserted(w.bots[a], c))
          /\ Contents(Inserted(w.bots[a], c)) = Contents(w.bots[a]) \union {c}
      BY <1>1, <1>3, <2>1, <2>4, InsertedStands
    <2>6. x \in Sane /\ Stands(w.bots[a], x) /\ Contents(x) = Contents(w.bots[a]) \union {c}
      BY <2>5, RevisedStands DEF Stands
    <2>7. y \in Sane /\ Stands(w.bots[b], y) /\ Contents(y) = Contents(w.bots[b]) \ {c}
      BY <2>1, RevisedStands DEF Stands
    <2> HIDE DEF x, y
    <2>8. /\ v \in Worlds /\ v.bots = [w.bots EXCEPT ![a] = x, ![b] = y] /\ v.dots = w.dots
          /\ v.mines = w.mines /\ v.gone = w.gone
      BY <1>1, <2>6, <2>7 DEF Worlds
    <2> HIDE DEF v
    <2>9. w.bots \in [Bot -> Sane \union {Absent}]
      BY <1>1, WorldIs
    <2>10. v.bots[a] = x /\ v.bots[b] = y /\ \A d \in Bot \ {a, b} : v.bots[d] = w.bots[d]
      BY <2>8, <2>9
    <2>11. x.state # "absent" /\ y.state # "absent"
      BY <2>6, <2>7, AbsentIs DEF Sane
    <2>12. Quiet(w, v)
      <3>1. ASSUME NEW d \in Bot
            PROVE  /\ Present(v, d) <=> Present(w, d)
                   /\ Present(w, d) => Stands(w.bots[d], v.bots[d])
        <4>1. CASE d = a
          BY <2>6, <2>10, <2>11, <4>1 DEF Present
        <4>2. CASE d = b
          BY <2>7, <2>10, <2>11, <4>2 DEF Present
        <4>3. CASE d \notin {a, b}
          BY <2>10, <4>3 DEF Present, Stands
        <4> QED
          BY <4>1, <4>2, <4>3
      <3> QED
        BY <2>8, <3>1 DEF Quiet
    <2>13. \A d \in Bot, j \in Item \ {c} : Has(v, d, j) <=> Has(w, d, j)
      <3> TAKE d \in Bot, j \in Item \ {c}
      <3>1. CASE d = a
        BY <2>6, <2>10, <2>11, <3>1 DEF Has, Present
      <3>2. CASE d = b
        BY <2>7, <2>10, <2>11, <3>2 DEF Has, Present
      <3>3. CASE d \notin {a, b}
        BY <2>10, <3>3 DEF Has, Present
      <3> QED
        BY <3>1, <3>2, <3>3
    <2>14. \A d \in Bot : Has(v, d, c) <=> d = a
      <3> TAKE d \in Bot
      <3>1. CASE d = a
        BY <2>6, <2>10, <2>11, <3>1 DEF Has, Present
      <3>2. CASE d = b
        BY <2>7, <2>10, <3>2 DEF Has
      <3>3. CASE d \notin {a, b}
        BY <2>3, <2>10, <3>3 DEF Has, Present, One
      <3> QED
        BY <3>1, <3>2, <3>3
    <2>15. Laid(v) = Laid(w)
      BY <2>8 DEF Laid
    <2>16. One(v, c)
      BY <2>4, <2>8, <2>14, <2>15 DEF One
    <2>17. Steady(w, v)
      BY <2>12, QuietIs
    <2>18. \A j \in Item \ {c} : /\ \A d \in Bot : Has(v, d, j) <=> Has(w, d, j)
                                 /\ v.dots[j] = None <=> w.dots[j] = None
                                 /\ v.gone[j] = w.gone[j]
      BY <2>8, <2>13
    <2>19. Sound(v)
      BY ONLY Sound(w), <2>1, <2>8, <2>16, <2>17, <2>18, SoundMoved
    <2> QED
      BY <2>2, <2>12, <2>19 DEF Keeps
  <1> QED
    BY <1>2, <1>3

LEMMA TakenKeeps ==
  ASSUME NEW w, Sound(w), NEW a \in Bot, Present(w, a)
  PROVE  Keeps(w, Taken(w, a))
  <1> DEFINE t == w.bots[a].input.take
             b == t.body
  <1>1. w \in Worlds /\ w.bots[a] \in Body
    BY PresentIs DEF Sound
  <1>2. CASE t = None
    BY <1>2, KeepsIs DEF Taken
  <1>3. CASE t # None /\ ~CanTake(w, a, b)
    BY <1>3, KeepsIs DEF Taken
  <1>4. CASE t # None /\ CanTake(w, a, b)
    <2>1. t \in Requests.take
      BY <1>1, <1>4 DEF Body, Inputs
    <2>2. b \in Bot /\ t.index \in {All} \union 1..(BaySlots + HoldSlots)
      BY <2>1 DEF Requests
    <2>3. a # b /\ Present(w, b)
      BY <1>1, <1>4, <2>2, PresentIs DEF CanTake
    <2>4. CASE t.index # All
      <3>1. Taken(w, a) = TakenOne(w, a, b, t.index)
        BY <1>4, <2>4 DEF Taken
      <3>2. t.index \in Nat \ {0}
        BY <2>2, <2>4, Sizes
      <3> QED
        BY <2>2, <2>3, <3>1, <3>2, TakenOneKeeps
    <2>5. CASE t.index = All
      <3> DEFINE N == BaySlots + HoldSlots
                 P == {v \in Worlds : Keeps(w, v)}
                 F == [k \in 1..N |-> [x \in P |-> TakenOne(x, a, b, 1)]]
                 s == [k \in 1..N |-> k]
      <3>1. ASSUME NEW x \in P PROVE TakenOne(x, a, b, 1) \in P
        <4>1. Keeps(w, x)
          OBVIOUS
        <4>2. Sound(x) /\ Present(x, a) /\ Present(x, b)
          BY <2>2, <2>3, <4>1, KeepsIs DEF Keeps
        <4>3. Keeps(x, TakenOne(x, a, b, 1))
          BY <2>2, <2>3, <4>2, TakenOneKeeps
        <4>4. Keeps(w, TakenOne(x, a, b, 1))
          BY <4>1, <4>3, KeepsIs
        <4> QED
          BY <4>3, <4>4 DEF Keeps, Sound
      <3>2. w \in P /\ N \in Nat
        BY <1>1, KeepsIs, Sizes
      <3> HIDE DEF P, N
      <3>3. F \in [1..N -> [P -> P]]
        BY <3>1
      <3> HIDE DEF F
      <3>4. PICK g : Folded(g, P, w, N, F)
        BY ONLY <3>2, <3>3, FoldExists
      <3> USE DEF F
      <3> DEFINE R(f) == f = [T \in SUBSET (1..N) |-> IF T = {} THEN w ELSE TakenOne(f[T \ {Max(T)}], a, b, 1)]
                 h == CHOOSE f : R(f)
      <3>5. R(g)
        <4>1. ASSUME NEW T \in SUBSET (1..N), T # {}
              PROVE  F[Max(T)][g[T \ {Max(T)}]] = TakenOne(g[T \ {Max(T)}], a, b, 1)
          <5>1. Max(T) \in 1..N /\ T \ {Max(T)} \in SUBSET (1..N)
            BY <3>2, <4>1, WithoutGreatest
          <5> QED
            BY <3>4, <5>1 DEF Folded
        <4> QED
          BY <3>4, <4>1 DEF Folded
      <3>6. R(h)
        BY <3>5
      <3>7. Taken(w, a) = FoldLeft(LAMBDA x, k : TakenOne(x, a, b, 1), w, s)
        BY <1>4, <2>5 DEF Taken, N
      <3>8. FoldLeft(LAMBDA x, k : TakenOne(x, a, b, 1), w, s) = h[DOMAIN s]
        BY DEF FoldLeft, MapThenFoldSet
      <3>9. DOMAIN s = 1..N
        OBVIOUS
      <3> HIDE DEF h, s
      <3>10. DOMAIN h = SUBSET (1..N) /\ h[{}] = w
        BY <3>6
      <3>11. \A T \in SUBSET (1..N) : T # {} /\ h[T \ {Max(T)}] \in P => h[T] \in P
        BY <3>1, <3>6
      <3>12. h[1..N] \in P
        BY <3>2, <3>10, <3>11, FoldKeeps
      <3> QED
        BY <3>7, <3>8, <3>9, <3>12 DEF P
    <2> QED
      BY <2>4, <2>5
  <1> QED
    BY <1>2, <1>3, <1>4


(* An intent of one bot, then those of all of them in their order.         *)
LEMMA DownedIntentKeeps ==
  ASSUME NEW w, Sound(w), NEW b \in Bot, Present(w, b)
  PROVE  Keeps(w, DownedIntent(w, b))
  <1> DEFINE in == w.bots[b].input
             pled == IF Downed(w, b) /\ in.plea /\ ~w.bots[b].quiet THEN Pleads(w, b) ELSE w
  <1>1. Keeps(w, pled)
    BY PleadsKeeps, KeepsIs
  <1>2. DownedIntent(w, b) = pled \/ DownedIntent(w, b) = [pled EXCEPT !.bots[b].input = NoInput]
    BY DEF DownedIntent
  <1> HIDE DEF pled
  <1>3. Sound(pled) /\ Present(pled, b)
    BY <1>1, KeepsIs DEF Keeps
  <1>4. Keeps(pled, [pled EXCEPT !.bots[b].input = NoInput])
    BY <1>3, NoInputIs, InputKeeps
  <1>5. Keeps(w, [pled EXCEPT !.bots[b].input = NoInput])
    BY <1>1, <1>4, KeepsIs
  <1> QED
    BY <1>1, <1>2, <1>5

LEMMA AliveIntentKeeps ==
  ASSUME NEW w, Sound(w), NEW b \in Bot, Present(w, b)
  PROVE  Keeps(w, AliveIntent(w, b))
  <1> DEFINE k == w.bots[b].input.use
             used == IF k = None THEN w ELSE Fired(w, b, k)
             begun == SwapBegun(used, b)
             took == Taken(begun, b)
             done == Consumed(took, b)
  <1>1. w.bots[b].input \in Inputs
    BY PresentIs, BodyIs DEF Sound
  <1>2. k = None \/ k \in 1..BaySlots
    BY <1>1 DEF Inputs
  <1>3. Keeps(w, used)
    BY <1>2, KeepsIs, FiredKeeps
  <1>4. AliveIntent(w, b) = done
    BY DEF AliveIntent
  <1> HIDE DEF used
  <1>5. Sound(used) /\ Present(used, b)
    BY <1>3, KeepsIs DEF Keeps
  <1>6. Keeps(used, begun)
    BY <1>5, SwapBegunKeeps
  <1>7. Keeps(w, begun)
    BY <1>3, <1>6, KeepsIs
  <1> HIDE DEF begun
  <1>8. Sound(begun) /\ Present(begun, b)
    BY <1>7, KeepsIs DEF Keeps
  <1>9. Keeps(begun, took)
    BY <1>8, TakenKeeps
  <1>10. Keeps(w, took)
    BY <1>7, <1>9, KeepsIs
  <1> HIDE DEF took
  <1>11. Sound(took) /\ Present(took, b)
    BY <1>10, KeepsIs DEF Keeps
  <1>12. Keeps(took, done)
    BY <1>11, ConsumedKeeps
  <1> HIDE DEF done
  <1> QED
    BY <1>4, <1>10, <1>12, KeepsIs

LEMMA IntentKeeps ==
  ASSUME NEW w, Sound(w), NEW b \in Bot
  PROVE  Keeps(w, Intent(w, b))
  <1>1. CASE ~Present(w, b)
    BY <1>1, KeepsIs DEF Intent
  <1>2. CASE Present(w, b) /\ ~Controlled(w, b, "human")
    <2>1. Intent(w, b) = Pleads(w, b) \/ Intent(w, b) = w
      BY <1>2 DEF Intent
    <2> QED
      BY <1>2, <2>1, PleadsKeeps, KeepsIs
  <1>3. CASE Present(w, b) /\ Controlled(w, b, "human")
    <2> DEFINE drops == Drops(w.bots[b])
               after == IF drops THEN Dropped(w, b) ELSE w
    <2>1. Keeps(w, after)
      BY <1>3, DroppedKeeps, KeepsIs
    <2>2. Intent(w, b) \in {DownedIntent(after, b), Consumed(after, b), AliveIntent(after, b)}
      BY <1>3 DEF Intent
    <2> HIDE DEF after
    <2>3. Sound(after) /\ Present(after, b)
      BY <1>3, <2>1, KeepsIs DEF Keeps
    <2>4. Keeps(after, DownedIntent(after, b)) /\ Keeps(after, Consumed(after, b)) /\ Keeps(after, AliveIntent(after, b))
      BY <2>3, DownedIntentKeeps, ConsumedKeeps, AliveIntentKeeps
    <2> QED
      BY <2>1, <2>2, <2>4, KeepsIs
  <1> QED
    BY <1>1, <1>2, <1>3

(* The bots in the order of their ids: each of them, once. *)
LEMMA OrderIs ==
  /\ Cardinality(Bot) \in Nat /\ DOMAIN Order = 1..Cardinality(Bot)
  /\ \A n \in 1..Cardinality(Bot) : Order[n] \in Bot
  /\ \A n, m \in 1..Cardinality(Bot) : Order[n] = Order[m] => n = m
  /\ \A b \in Bot : \E n \in 1..Cardinality(Bot) : Order[n] = b
  <1>1. Bot \subseteq Nat /\ IsFiniteSet(Bot)
    BY SimulationAssumption
  <1>2. /\ Cardinality(Bot) \in Nat
        /\ \A n \in 1..Cardinality(Bot) : Nth(Bot, n) \in Bot
        /\ \A n, m \in 1..Cardinality(Bot) : Nth(Bot, n) = Nth(Bot, m) => n = m
        /\ \A k \in Bot : \E n \in 1..Cardinality(Bot) : Nth(Bot, n) = k
    BY <1>1, NthIs
  <1> QED
    BY <1>2 DEF Order

LEMMA IntentsKeep ==
  ASSUME NEW w, Sound(w)
  PROVE  Keeps(w, FoldLeft(Intent, w, Order))
  <1> DEFINE N == Cardinality(Bot)
             P == {v \in Worlds : Keeps(w, v)}
             F == [k \in 1..N |-> [x \in P |-> Intent(x, Order[k])]]
  <1>1. ASSUME NEW x \in P, NEW k \in 1..N PROVE Intent(x, Order[k]) \in P
    <2>1. Keeps(w, x) /\ Sound(x) /\ Order[k] \in Bot
      BY OrderIs DEF Keeps
    <2>2. Keeps(x, Intent(x, Order[k]))
      BY <2>1, IntentKeeps
    <2>3. Keeps(w, Intent(x, Order[k]))
      BY <2>1, <2>2, KeepsIs
    <2> QED
      BY <2>2, <2>3 DEF Keeps, Sound
  <1>2. w \in P /\ N \in Nat
    BY KeepsIs, OrderIs DEF Sound
  <1> HIDE DEF P, N
  <1>3. F \in [1..N -> [P -> P]]
    BY <1>1
  <1> HIDE DEF F
  <1>4. PICK g : Folded(g, P, w, N, F)
    BY ONLY <1>2, <1>3, FoldExists
  <1> USE DEF F
  <1> DEFINE R(f) == f = [T \in SUBSET (1..N) |-> IF T = {} THEN w ELSE Intent(f[T \ {Max(T)}], Order[Max(T)])]
             h == CHOOSE f : R(f)
  <1>5. R(g)
    <2>1. ASSUME NEW T \in SUBSET (1..N), T # {}
          PROVE  F[Max(T)][g[T \ {Max(T)}]] = Intent(g[T \ {Max(T)}], Order[Max(T)])
      <3>1. Max(T) \in 1..N /\ T \ {Max(T)} \in SUBSET (1..N)
        BY <1>2, <2>1, WithoutGreatest
      <3> QED
        BY <1>4, <3>1 DEF Folded
    <2> QED
      BY <1>4, <2>1 DEF Folded
  <1>6. R(h)
    BY <1>5
  <1>7. DOMAIN Order = 1..N
    BY OrderIs DEF N
  <1>8. FoldLeft(Intent, w, Order) = h[DOMAIN Order]
    BY <1>7 DEF FoldLeft, MapThenFoldSet
  <1> HIDE DEF h
  <1>9. DOMAIN h = SUBSET (1..N) /\ h[{}] = w
    BY <1>6
  <1>10. \A T \in SUBSET (1..N) : T # {} /\ h[T \ {Max(T)}] \in P => h[T] \in P
    <2> TAKE T \in SUBSET (1..N)
    <2> HAVE T # {} /\ h[T \ {Max(T)}] \in P
    <2>1. Max(T) \in 1..N
      BY <1>2, WithoutGreatest
    <2>2. h[T] = Intent(h[T \ {Max(T)}], Order[Max(T)])
      BY <1>6
    <2> QED
      BY <1>1, <2>1, <2>2
  <1>11. h[1..N] \in P
    BY <1>2, <1>9, <1>10, FoldKeeps
  <1> QED
    BY <1>7, <1>8, <1>11 DEF P


(***************************************************************************)
(* What happens to all bodies at once.                                     *)
(***************************************************************************)
LEMMA BodiesChange ==
  ASSUME NEW w, Sound(w), NEW v \in Worlds,
         \A b \in Bot : IF Present(w, b)
                        THEN v.bots[b] \in Sane /\ Stands(w.bots[b], v.bots[b]) /\ Contents(v.bots[b]) = Contents(w.bots[b])
                        ELSE v.bots[b] = w.bots[b],
         v.dots = w.dots, v.gone = w.gone, DOMAIN v.mines = DOMAIN w.mines,
         \A k \in DOMAIN w.mines : /\ v.mines[k].item = w.mines[k].item /\ v.mines[k].owner = w.mines[k].owner
                                   /\ v.mines[k].squad = w.mines[k].squad
  PROVE  Keeps(w, v)
  <1>1. \A x \in Sane : x.state # "absent"
    BY AbsentIs DEF Sane
  <1>2. \A b \in Bot : /\ Present(v, b) <=> Present(w, b)
                       /\ Present(w, b) => Stands(w.bots[b], v.bots[b])
                       /\ Present(w, b) => Contents(v.bots[b]) = Contents(w.bots[b])
    BY <1>1 DEF Present
  <1>3. Quiet(w, v)
    BY <1>2 DEF Quiet
  <1>4. Steady(w, v)
    BY <1>3, QuietIs
  <1>5. Sound(v)
    BY <1>2, <1>4, SoundKept
  <1> QED
    BY <1>3, <1>5 DEF Keeps

(* The count-downs of a tick, and the swaps that they end.                 *)
LEMMA TimedKeeps ==
  ASSUME NEW w, Sound(w), NEW calm, NEW bare
  PROVE  Keeps(w, Timed(w, calm, bare))
  <1> DEFINE y(b) == [w.bots[b] EXCEPT !.quiet = @ /\ b \notin calm, !.safe = @ /\ b \notin bare]
             f == [b \in Bot |-> IF ~Present(w, b) THEN w.bots[b] ELSE y(b)]
             t == [k \in DOMAIN w.mines |-> [w.mines[k] EXCEPT !.armed = TRUE]]
             v == [w EXCEPT !.bots = f, !.mines = t]
  <1>1. w \in Worlds
    BY DEF Sound
  <1>2. ASSUME NEW b \in Bot, Present(w, b)
        PROVE  y(b) \in Sane /\ Stands(w.bots[b], y(b)) /\ Contents(y(b)) = Contents(w.bots[b])
    <2>1. w.bots[b] \in Sane /\ w.bots[b] \in Body
      BY <1>1, <1>2, PresentIs
    <2> DEFINE z == y(b)
    <2>2. /\ z \in Body /\ Stands(w.bots[b], z) /\ z.bays = w.bots[b].bays /\ z.hold = w.bots[b].hold
          /\ z.swap = w.bots[b].swap
      BY <2>1 DEF Body, Stands
    <2> HIDE DEF z
    <2>3. z \in Sane /\ Contents(z) = Contents(w.bots[b])
      BY <2>1, <2>2, StillSane
    <2> QED
      BY <2>2, <2>3 DEF z
  <1>3. w.bots \in [Bot -> Sane \union {Absent}]
    BY <1>1, WorldIs
  <1> HIDE DEF y
  <1>4. f \in [Bot -> Sane \union {Absent}]
    BY <1>2, <1>3
  <1>5. /\ t \in Seq(Armed) /\ DOMAIN t = DOMAIN w.mines
        /\ \A k \in DOMAIN w.mines : /\ t[k].item = w.mines[k].item /\ t[k].owner = w.mines[k].owner
                                     /\ t[k].squad = w.mines[k].squad
    <2>1. /\ Len(w.mines) \in Nat /\ DOMAIN w.mines = 1..Len(w.mines)
          /\ \A k \in DOMAIN w.mines : w.mines[k] \in Armed
      BY <1>1, MinesAre
    <2>2. \A k \in DOMAIN w.mines : /\ t[k] \in Armed /\ t[k].item = w.mines[k].item
                                    /\ t[k].owner = w.mines[k].owner /\ t[k].squad = w.mines[k].squad
      BY <2>1 DEF Armed
    <2>3. t \in [1..Len(w.mines) -> Armed]
      BY <2>1, <2>2
    <2>4. t \in Seq(Armed)
      BY <2>1, <2>3, IsASeq
    <2> QED
      BY <2>2, <2>4
  <1>6. Timed(w, calm, bare) = v
    BY DEF Timed, y
  <1> HIDE DEF f, t
  <1>7. v \in Worlds /\ v.bots = f /\ v.dots = w.dots /\ v.mines = t /\ v.gone = w.gone
    BY <1>1, <1>4, <1>5 DEF Worlds
  <1> HIDE DEF v
  <1>8. \A b \in Bot : IF Present(w, b)
                       THEN v.bots[b] \in Sane /\ Stands(w.bots[b], v.bots[b]) /\ Contents(v.bots[b]) = Contents(w.bots[b])
                       ELSE v.bots[b] = w.bots[b]
    BY <1>2, <1>7 DEF f
  <1>9. Keeps(w, v)
    BY <1>5, <1>7, <1>8, BodiesChange
  <1> QED
    BY <1>6, <1>9

LEMMA SwapsResolvedKeeps ==
  ASSUME NEW w, Sound(w)
  PROVE  Keeps(w, SwapsResolved(w))
  <1> DEFINE f == [b \in Bot |-> SwapAfter(w.bots[b])]
             v == [w EXCEPT !.bots = f]
  <1>1. w \in Worlds
    BY DEF Sound
  <1>2. w.bots \in [Bot -> Sane \union {Absent}]
    BY <1>1, WorldIs
  <1>3. \A b \in Bot : IF Present(w, b)
                       THEN f[b] \in Sane /\ Stands(w.bots[b], f[b]) /\ Contents(f[b]) = Contents(w.bots[b])
                       ELSE f[b] = w.bots[b]
    <2> TAKE b \in Bot
    <2>1. CASE Present(w, b)
      BY <1>1, <2>1, PresentIs, SwapAfterStands
    <2>2. CASE ~Present(w, b)
      BY <2>2 DEF Present, SwapAfter
    <2> QED
      BY <2>1, <2>2
  <1>4. \A b \in Bot : f[b] \in Sane \union {Absent}
    BY <1>2, <1>3
  <1>5. f \in [Bot -> Sane \union {Absent}]
    BY <1>4
  <1>6. SwapsResolved(w) = v
    BY DEF SwapsResolved
  <1> HIDE DEF f
  <1>7. v \in Worlds /\ v.bots = f /\ v.dots = w.dots /\ v.mines = w.mines /\ v.gone = w.gone
    BY <1>1, <1>5 DEF Worlds
  <1> HIDE DEF v
  <1>8. Keeps(w, v)
    BY <1>3, <1>7, BodiesChange
  <1> QED
    BY <1>6, <1>8

(* Bodies that move, or only grow older, have and owe the same. *)
LEMMA BodiesMove ==
  ASSUME NEW w, Sound(w), NEW f \in [Bot -> Body \union {Absent}],
         \A b \in Bot : IF Present(w, b)
                        THEN /\ f[b] \in Body /\ f[b].squad = w.bots[b].squad /\ f[b].bays = w.bots[b].bays
                             /\ f[b].hold = w.bots[b].hold /\ f[b].swap = w.bots[b].swap
                        ELSE f[b] = w.bots[b]
  PROVE  Sound([w EXCEPT !.bots = f])
  <1> DEFINE v == [w EXCEPT !.bots = f]
  <1>1. w \in Worlds
    BY DEF Sound
  <1>2. \A b \in Bot : Present(w, b) => f[b] \in Sane /\ Contents(f[b]) = Contents(w.bots[b])
    BY <1>1, PresentIs, StillSane
  <1>3. w.bots \in [Bot -> Sane \union {Absent}]
    BY <1>1, WorldIs
  <1>4. \A b \in Bot : f[b] \in Sane \union {Absent}
    BY <1>2, <1>3
  <1>5. f \in [Bot -> Sane \union {Absent}]
    BY <1>4
  <1>6. v \in Worlds /\ v.bots = f /\ v.dots = w.dots /\ v.mines = w.mines /\ v.gone = w.gone
    BY <1>1, <1>5 DEF Worlds
  <1> HIDE DEF v
  <1>7. \A x \in Sane : x.state # "absent"
    BY AbsentIs DEF Sane
  <1>8. Steady(w, v)
    BY <1>2, <1>6, <1>7 DEF Steady, Present
  <1>9. \A b \in Bot : Present(w, b) => Contents(v.bots[b]) = Contents(w.bots[b])
    BY <1>2, <1>6
  <1>10. Sound(v)
    BY <1>6, <1>8, <1>9, SoundKept
  <1> QED
    BY <1>10 DEF v

LEMMA StayedIs ==
  ASSUME NEW w, Sound(w)
  PROVE  /\ Sound(Stayed(w))
         /\ Stayed(w).dots = w.dots
         /\ \A b \in Bot : Present(w, b) =>
              Stayed(w).bots[b] = [w.bots[b] EXCEPT !.stay = IF w.bots[b].stay < Longest THEN w.bots[b].stay + 1 ELSE w.bots[b].stay]
         /\ \A b \in Bot : ~Present(w, b) => Stayed(w).bots[b] = w.bots[b]
  <1> DEFINE n(b) == IF w.bots[b].stay < Longest THEN w.bots[b].stay + 1 ELSE w.bots[b].stay
             f == [b \in Bot |-> IF Present(w, b) THEN [w.bots[b] EXCEPT !.stay = n(b)] ELSE w.bots[b]]
             v == [w EXCEPT !.bots = f]
  <1>1. w \in Worlds
    BY DEF Sound
  <1>2. w.bots \in [Bot -> Sane \union {Absent}]
    BY <1>1, WorldIs
  <1>3. \A b \in Bot : IF Present(w, b)
                       THEN /\ f[b] \in Body /\ f[b].squad = w.bots[b].squad /\ f[b].bays = w.bots[b].bays
                            /\ f[b].hold = w.bots[b].hold /\ f[b].swap = w.bots[b].swap
                       ELSE f[b] = w.bots[b]
    <2> TAKE b \in Bot
    <2>1. CASE Present(w, b)
      <3>1. w.bots[b] \in Body /\ w.bots[b].stay \in 0..Longest
        BY <1>1, <2>1, PresentIs, BodyIs
      <3>2. n(b) \in 0..Longest
        BY <3>1, LongestIs
      <3>3. f[b] = [w.bots[b] EXCEPT !.stay = n(b)]
        BY <2>1
      <3> HIDE DEF n, f
      <3> QED
        BY <2>1, <3>1, <3>2, <3>3 DEF Body
    <2>2. CASE ~Present(w, b)
      BY <2>2
    <2> QED
      BY <2>1, <2>2
  <1>4. \A b \in Bot : w.bots[b] \in Sane \union {Absent}
    BY <1>2
  <1>5. \A b \in Bot : ~Present(w, b) => w.bots[b] = Absent
    BY <1>1, PresentIs
  <1>6. f \in [Bot -> Body \union {Absent}]
    BY <1>3, <1>5
  <1>7. Stayed(w) = v
    BY DEF Stayed
  <1>8. \A b \in Bot : /\ Present(w, b) => f[b] = [w.bots[b] EXCEPT !.stay = n(b)]
                       /\ ~Present(w, b) => f[b] = w.bots[b]
    OBVIOUS
  <1> HIDE DEF f
  <1>9. Sound(v)
    BY <1>3, <1>6, BodiesMove
  <1>10. v.bots = f /\ v.dots = w.dots
    BY <1>1 DEF Worlds
  <1> HIDE DEF v
  <1> QED
    BY <1>7, <1>8, <1>9, <1>10

(***************************************************************************)
(* Harm.                                                                   *)
(***************************************************************************)
LEMMA HitSound ==
  ASSUME NEW w, Sound(w), NEW b \in Bot, Present(w, b), NEW y \in Struck(w.bots[b])
  PROVE  Sound([w EXCEPT !.bots[b] = y])
  <1> DEFINE v == [w EXCEPT !.bots[b] = y]
  <1>1. w \in Worlds /\ w.bots[b] \in Sane
    BY PresentIs DEF Sound
  <1>2. y \in Sane /\ Contents(y) = Contents(w.bots[b]) /\ y.squad = w.bots[b].squad
    BY <1>1, HitStands
  <1>3. v \in Worlds /\ v.bots = [w.bots EXCEPT ![b] = y] /\ v.dots = w.dots /\ v.mines = w.mines /\ v.gone = w.gone
    BY <1>1, <1>2 DEF Worlds
  <1> HIDE DEF v
  <1>4. Sound(v)
    BY <1>2, <1>3, BodyKept
  <1> QED
    BY <1>4 DEF v


(***************************************************************************)
(* Dots.                                                                   *)
(***************************************************************************)
(* The bodies are the same but for what they have and wish. *)
Standing(w, v) ==
  \A b \in Bot : /\ Present(v, b) <=> Present(w, b)
                 /\ Present(w, b) => Stands(w.bots[b], v.bots[b])

LEMMA StandingIs ==
  ASSUME NEW u, NEW v, NEW w
  PROVE  /\ Standing(w, w)
         /\ Standing(u, v) /\ Standing(v, w) => Standing(u, w)
         /\ Quiet(u, v) => Standing(u, v)
         /\ Standing(u, v) => Steady(u, v)
  <1>1. Standing(w, w)
    BY DEF Standing, Stands, Present
  <1>2. ASSUME Standing(u, v), Standing(v, w) PROVE Standing(u, w)
    BY <1>2 DEF Standing, Stands, Present
  <1>3. Quiet(u, v) => Standing(u, v)
    BY DEF Quiet, Standing
  <1>4. ASSUME Standing(u, v) PROVE Steady(u, v)
    BY <1>4 DEF Standing, Stands, Steady, Present
  <1> QED
    BY <1>1, <1>2, <1>3, <1>4

LEMMA ItemOrderIs ==
  /\ Cardinality(Item) \in Nat /\ DOMAIN ItemOrder = 1..Cardinality(Item)
  /\ \A n \in 1..Cardinality(Item) : ItemOrder[n] \in Item
  /\ \A n, m \in 1..Cardinality(Item) : ItemOrder[n] = ItemOrder[m] => n = m
  /\ \A i \in Item : \E n \in 1..Cardinality(Item) : ItemOrder[n] = i
  <1> DEFINE N == Cardinality(Item)
             f == ItemOrder
  <1>1. IsFiniteSet(Item)
    BY SimulationAssumption
  <1>2. N \in Nat /\ ExistsBijection(1..N, Item)
    BY <1>1, FS_CardinalityType
  <1>3. \E g \in [1..N -> Item] : IsInjective(g)
    BY <1>2 DEF ExistsBijection, Bijection, Injection
  <1>4. f \in [1..N -> Item] /\ IsInjective(f)
    BY <1>3 DEF ItemOrder, SetToSeq
  <1> HIDE DEF f, N
  <1> DEFINE I == {f[n] : n \in 1..N}
  <1>5. I \subseteq Item
    BY <1>4
  <1>6. f \in [1..N -> I]
    BY <1>4
  <1>7. f \in Bijection(1..N, I)
    BY <1>4, <1>6 DEF Bijection, Injection, Surjection, IsInjective
  <1>8. IsFiniteSet(1..N) /\ Cardinality(1..N) = N
    BY <1>2, FS_Interval
  <1>9. Cardinality(I) = N
    <2>1. ExistsBijection(1..N, I)
      BY <1>7 DEF ExistsBijection
    <2> HIDE DEF I
    <2> QED
      BY <1>8, <2>1, FS_Bijection
  <1>10. I = Item
    BY <1>1, <1>5, <1>9, FS_Subset DEF N
  <1> QED
    BY <1>2, <1>4, <1>10 DEF f, N, IsInjective

(* Whoever has a Dot in hand is alive and stands at it. *)
LEMMA CapturerIs ==
  ASSUME NEW w \in Worlds, NEW i \in Item, NEW marks, Capturer(w, i, marks) # None
  PROVE  LET b == Capturer(w, i, marks)
         IN  b \in Bot /\ Alive(w, b) /\ w.bots[b].place = w.dots[i].place
  <1> DEFINE b == Capturer(w, i, marks)
             At(c) == AtDot(w, i, c)
  <1>1. Bot \subseteq Nat
    BY SimulationAssumption
  <1>2. \A c, S : S \subseteq At(c) /\ S # {} => Lowest(S) \in At(c)
    <2> TAKE c, S
    <2> HAVE S \subseteq At(c) /\ S # {}
    <2>1. S \subseteq Nat
      BY <1>1 DEF AtDot
    <2>2. Lowest(S) \in S
      BY <2>1, LowestIs
    <2> QED
      BY <2>2
  <1> DEFINE W == Wounded(w, At("ai"))
  <1>3. W # {} => MostWounded(w, W) \in At("ai")
    <2> HAVE W # {}
    <2> DEFINE T == {w.bots[a].plates : a \in W}
               S == {a \in W : \A c \in W : w.bots[a].plates <= w.bots[c].plates}
    <2>1. \A a \in W : a \in At("ai") /\ a \in Bot /\ Alive(w, a)
      BY DEF Wounded, AtDot
    <2>2. \A a \in W : w.bots[a].plates \in Nat
      BY <2>1, PresentIs, BodyIs, Sizes
    <2>3. T \subseteq Nat /\ T # {}
      BY <2>2
    <2>4. PICK x \in T : \A t \in T : x <= t
      BY <2>3, LeastOf
    <2>5. S # {}
      BY <2>4
    <2>6. MostWounded(w, W) = Lowest(S)
      BY DEF MostWounded
    <2>7. S \subseteq At("ai")
      BY <2>1
    <2> QED
      BY <1>2, <2>5, <2>6, <2>7
  <1> DEFINE H == At("human")
             E == At("ai")
             O == {a \in E : marks[w.bots[a].squad] = i}
  <1>4. b \in At("human") \/ b \in At("ai")
    <2>1. CASE H # {}
      <3>1. b = Lowest(H)
        BY <2>1 DEF Capturer
      <3> QED
        BY <1>2, <2>1, <3>1
    <2>2. CASE H = {} /\ O # {}
      <3>1. b = Lowest(O)
        BY <2>2 DEF Capturer
      <3>2. O \subseteq E
        OBVIOUS
      <3> QED
        BY <1>2, <2>2, <3>1, <3>2
    <2>3. CASE H = {} /\ O = {}
      <3>1. b = MostWounded(w, W) /\ W # {}
        BY <2>3 DEF Capturer
      <3> QED
        BY <1>3, <3>1
    <2> QED
      BY <2>1, <2>2, <2>3
  <1> QED
    BY <1>4 DEF AtDot
=============================================================================
