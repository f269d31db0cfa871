-------------------------- MODULE SimulationSafety --------------------------
(***************************************************************************)
(* Theorems about a run, for every number of bots, squads, items, slots    *)
(* and ticks, and for every scene it may begin with: items are conserved,  *)
(* swaps exchange what was chosen, mines and squads stay as they should,   *)
(* and progress is earned by staying.                                      *)
(*                                                                         *)
(* One invariant carries them all.  Run says that the world is sound in    *)
(* every phase of a tick.  Due says what is owed about progress.  Between  *)
(* ticks, and until the bots have moved, nobody has more of it than the    *)
(* ticks that were stayed (Settled).  From then until the channels are     *)
(* resolved that is owed only by those who are still there (Earned): who   *)
(* has moved off or fallen has progress that this tick's channels are      *)
(* still to take away.                                                     *)
(***************************************************************************)
EXTENDS SimulationWorlds


(* A Dot that is lost from the floor to a body, or to nobody. *)
LEMMA Picked ==
  ASSUME NEW w, Sound(w), NEW b \in Bot, Present(w, b), NEW i \in Item, w.dots[i] # None, NEW y \in Sane,
         Stands(w.bots[b], y), NEW v \in Worlds, v.bots = [w.bots EXCEPT ![b] = y],
         v.dots = [w.dots EXCEPT ![i] = None], v.mines = w.mines,
         \A j \in Item \ {i} : v.gone[j] = w.gone[j], Contents(y) \ {i} = Contents(w.bots[b]),
         i \in Contents(y) <=> v.gone[i] = None
  PROVE  Sound(v) /\ Standing(w, v)
  <1>1. w \in Worlds /\ Apart(w) /\ One(w, i)
    BY DEF Sound, Apart
  <1>2. /\ w.bots \in [Bot -> Sane \union {Absent}] /\ w.dots \in [Item -> Lain \union {None}]
        /\ w.gone \in [Item -> Ends]
    BY <1>1, WorldIs
  <1>3. v.bots[b] = y /\ \A a \in Bot \ {b} : v.bots[a] = w.bots[a]
    BY <1>2
  <1>4. Present(v, b)
    BY <1>3, PresentIs
  <1>5. Standing(w, v)
    <2>1. ASSUME NEW a \in Bot
          PROVE  /\ Present(v, a) <=> Present(w, a)
                 /\ Present(w, a) => Stands(w.bots[a], v.bots[a])
      <3>1. CASE a = b
        BY <1>3, <1>4, <3>1 DEF Present
      <3>2. CASE a # b
        BY <1>3, <3>2 DEF Present, Stands
      <3> QED
        BY <3>1, <3>2
    <2> QED
      BY <2>1 DEF Standing
  <1>6. (\A a \in Bot : ~Has(w, a, i)) /\ i \notin Laid(w) /\ w.gone[i] = None
    BY <1>1 DEF One
  <1>7. v.dots[i] = None /\ \A j \in Item \ {i} : v.dots[j] = w.dots[j] /\ v.gone[j] = w.gone[j]
    BY <1>2
  <1>8. \A a \in Bot, j \in Item \ {i} : Has(v, a, j) <=> Has(w, a, j)
    <2> TAKE a \in Bot, j \in Item \ {i}
    <2>1. CASE a = b
      <3>1. j \in Contents(y) <=> j \in Contents(w.bots[b])
        OBVIOUS
      <3> QED
        BY <1>3, <1>4, <2>1, <3>1 DEF Has
    <2>2. CASE a # b
      BY <1>3, <2>2 DEF Has, Present
    <2> QED
      BY <2>1, <2>2
  <1>9. Laid(v) = Laid(w)
    BY DEF Laid
  <1>10. One(v, i)
    <2>1. \A a \in Bot \ {b} : ~Has(v, a, i)
      BY <1>3, <1>6 DEF Has, Present
    <2>2. Has(v, b, i) <=> v.gone[i] = None
      BY <1>3, <1>4 DEF Has
    <2> QED
      BY <1>6, <1>7, <1>9, <2>1, <2>2 DEF One
  <1>11. Steady(w, v)
    BY <1>5, StandingIs
  <1>12. \A j \in Item \ {i} : /\ \A a \in Bot : Has(v, a, j) <=> Has(w, a, j)
                               /\ v.dots[j] = None <=> w.dots[j] = None
                               /\ v.gone[j] = w.gone[j]
    BY <1>7, <1>8
  <1>13. v.mines = w.mines
    OBVIOUS
  <1>14. Sound(v)
    BY ONLY Sound(w), v \in Worlds, i \in Item, <1>10, <1>11, <1>12, <1>13, SoundMoved
  <1> QED
    BY <1>5, <1>14

(* A Dot that is only taken in hand, or let go. *)
LEMMA DotChange ==
  ASSUME NEW w, Sound(w), NEW i \in Item, w.dots[i] # None, NEW d \in Lain
  PROVE  LET v == [w EXCEPT !.dots[i] = d]
         IN  Sound(v) /\ Standing(w, v) /\ v.bots = w.bots /\ v.dots = [w.dots EXCEPT ![i] = d]
  <1> DEFINE u == [w EXCEPT !.dots[i] = d]
  <1>1. w \in Worlds
    BY DEF Sound
  <1>2. u \in Worlds /\ u.bots = w.bots /\ u.dots = [w.dots EXCEPT ![i] = d] /\ u.mines = w.mines /\ u.gone = w.gone
    BY <1>1 DEF Worlds
  <1> HIDE DEF u
  <1>4. \A j \in Item : u.dots[j] = None <=> w.dots[j] = None
    BY <1>1, <1>2, NoneIs, WorldIs
  <1>5. Standing(w, u)
    BY <1>2 DEF Standing, Stands, Present
  <1>6. Steady(w, u)
    BY <1>5, StandingIs
  <1>7. Sound(u)
    BY <1>2, <1>4, <1>6, SoundKept
  <1> QED
    BY <1>2, <1>5, <1>7 DEF u

(* A capture gives the Dot to its actor, or uses it up, or leaves it where *)
(* it is.                                                                  *)
LEMMA CapturedIs ==
  ASSUME NEW w, Sound(w), NEW b \in Bot, Alive(w, b), NEW i \in Item, w.dots[i] # None
  PROVE  LET v == Captured(w, i, b)
         IN  /\ Sound(v) /\ Standing(w, v)
             /\ (v.dots[i] = None \/ v.dots[i].by = None)
             /\ \A j \in Item \ {i} : v.dots[j] = w.dots[j]
  <1> DEFINE x == w.bots[b]
  <1>1. w \in Worlds /\ Present(w, b) /\ x \in Sane /\ x \in Loose /\ x \in Body
    BY PresentIs DEF Sound
  <1>2. w.dots \in [Item -> Lain \union {None}] /\ w.dots[i] \in Lain
    BY <1>1, WorldIs
  <1>3. CASE Captured(w, i, b) = [w EXCEPT !.bots[b] = Restored(x), !.dots[i] = None, !.gone[i] = "spent"]
    <2> DEFINE y == Restored(x)
               v == [w EXCEPT !.bots[b] = y, !.dots[i] = None, !.gone[i] = "spent"]
    <2>1. y \in Sane /\ Stands(x, y) /\ Contents(y) = Contents(x)
      BY <1>1, RestoredStands
    <2>2. "spent" \in Ends
      BY DEF Ends
    <2>3. Captured(w, i, b) = v
      BY <1>3
    <2> HIDE DEF y
    <2>4. /\ v \in Worlds /\ v.bots = [w.bots EXCEPT ![b] = y] /\ v.dots = [w.dots EXCEPT ![i] = None]
          /\ v.mines = w.mines /\ v.gone = [w.gone EXCEPT ![i] = "spent"]
      BY <1>1, <2>1, <2>2 DEF Worlds
    <2> HIDE DEF v
    <2>7. i \notin Contents(x)
      BY <1>1 DEF Sound, Apart, One, Has
    <2>8. /\ \A j \in Item \ {i} : v.gone[j] = w.gone[j]
          /\ Contents(y) \ {i} = Contents(x)
          /\ i \in Contents(y) <=> v.gone[i] = None
      BY <1>1, <2>1, <2>4, <2>7, NoneIs, WorldIs
    <2>9. Present(w, b) /\ y \in Sane /\ Stands(w.bots[b], y) /\ v \in Worlds /\ v.bots = [w.bots EXCEPT ![b] = y]
      BY <1>1, <2>1, <2>4
    <2>10. v.dots = [w.dots EXCEPT ![i] = None] /\ v.mines = w.mines /\ Contents(y) \ {i} = Contents(w.bots[b])
      BY <2>4, <2>8
    <2>11. (i \in Contents(y) <=> v.gone[i] = None) /\ \A j \in Item \ {i} : v.gone[j] = w.gone[j]
      BY <2>8
    <2>5. Sound(v) /\ Standing(w, v)
      BY ONLY Sound(w), b \in Bot, i \in Item, w.dots[i] # None, <2>9, <2>10, <2>11, Picked
    <2>6. v.dots[i] = None /\ \A j \in Item \ {i} : v.dots[j] = w.dots[j]
      BY <1>2, <2>4
    <2> QED
      BY <2>3, <2>5, <2>6
  <1>4. CASE HasRoom(x) /\ Captured(w, i, b) = [w EXCEPT !.bots[b] = Revised(Inserted(x, i)), !.dots[i] = None]
    <2> DEFINE y == Revised(Inserted(x, i))
               v == [w EXCEPT !.bots[b] = y, !.dots[i] = None]
    <2>0. i \notin Contents(x)
      <3>1. One(w, i)
        BY DEF Sound, Apart
      <3> QED
        BY <1>1, <3>1 DEF One, Has
    <2>1. Inserted(x, i) \in Loose /\ Stands(x, Inserted(x, i)) /\ Contents(Inserted(x, i)) = Contents(x) \union {i}
      BY <1>1, <1>4, <2>0, InsertedStands
    <2>2. y \in Sane /\ Stands(x, y) /\ Contents(y) = Contents(x) \union {i}
      BY <2>1, RevisedStands DEF Stands
    <2>3. Captured(w, i, b) = v
      BY <1>4
    <2> HIDE DEF y
    <2>4. /\ v \in Worlds /\ v.bots = [w.bots EXCEPT ![b] = y] /\ v.dots = [w.dots EXCEPT ![i] = None]
          /\ v.mines = w.mines /\ v.gone = w.gone
      BY <1>1, <2>2 DEF Worlds
    <2> HIDE DEF v
    <2>7. /\ \A j \in Item \ {i} : v.gone[j] = w.gone[j]
          /\ Contents(y) \ {i} = Contents(x)
          /\ i \in Contents(y) <=> v.gone[i] = None
      <3>1. w.gone[i] = None
        BY DEF Sound, Apart, One
      <3> QED
        BY <2>0, <2>2, <2>4, <3>1
    <2>5. Sound(v) /\ Standing(w, v)
      BY <1>1, <2>2, <2>4, <2>7, Picked
    <2>6. v.dots[i] = None /\ \A j \in Item \ {i} : v.dots[j] = w.dots[j]
      BY <1>2, <2>4
    <2> QED
      BY <2>3, <2>5, <2>6
  <1>5. CASE Captured(w, i, b) = [w EXCEPT !.dots[i] = Lying(w.dots[i].place)]
    <2> DEFINE d == Lying(w.dots[i].place)
               v == Captured(w, i, b)
    <2>1. w.dots[i].place \in Place
      BY <1>2 DEF Lain
    <2>2. d \in Lain /\ d.by = None
      BY <2>1, LyingIs
    <2>3. v = [w EXCEPT !.dots[i] = d]
      BY <1>5
    <2> HIDE DEF d, v
    <2>4. Sound(v) /\ Standing(w, v) /\ v.dots = [w.dots EXCEPT ![i] = d]
      BY <2>2, <2>3, DotChange
    <2>5. v.dots[i].by = None /\ \A j \in Item \ {i} : v.dots[j] = w.dots[j]
      BY <1>2, <2>2, <2>4
    <2> QED
      BY <2>4, <2>5 DEF v
  <1> QED
    BY <1>3, <1>4, <1>5 DEF Captured

(* What comes of a Dot in a tick: nobody has it in hand but who is there,  *)
(* for as long as that bot already had it, and one tick more.              *)
Worked(w, i, d) ==
  \/ d = None
  \/ d.by = None
  \/ /\ d.by \in Bot /\ Alive(w, d.by) /\ w.bots[d.by].place = d.place
     /\ w.dots[i] # None /\ w.dots[i].place = d.place /\ d.progress < CaptureTicks
     /\ d.progress = 1 \/ (w.dots[i].by = d.by /\ d.progress = w.dots[i].progress + 1)

(* The resolution of one Dot: a capture, progress of one tick, or none.    *)
LEMMA DotAfterIs ==
  ASSUME NEW w, Sound(w), NEW i \in Item, w.dots[i] # None, NEW marks
  PROVE  LET v == DotAfter(w, i, marks)
         IN  /\ Sound(v) /\ Standing(w, v) /\ Worked(w, i, v.dots[i])
             /\ \A j \in Item \ {i} : v.dots[j] = w.dots[j]
  <1> DEFINE b == Capturer(w, i, marks)
             p == IF w.dots[i].by = b THEN w.dots[i].progress + 1 ELSE 1
  <1>1. w \in Worlds
    BY DEF Sound
  <1>2. w.dots \in [Item -> Lain \union {None}] /\ w.dots[i] \in Lain
    BY <1>1, WorldIs
  <1>3. w.dots[i].place \in Place /\ w.dots[i].progress \in 0..(CaptureTicks - 1)
    BY <1>2 DEF Lain
  <1>4. CASE b = None
    <2> DEFINE d == Lying(w.dots[i].place)
               v == DotAfter(w, i, marks)
    <2>1. d \in Lain /\ d.by = None
      BY <1>3, LyingIs
    <2>2. v = [w EXCEPT !.dots[i] = d]
      BY <1>4 DEF DotAfter
    <2> HIDE DEF d, v
    <2>3. Sound(v) /\ Standing(w, v) /\ v.dots = [w.dots EXCEPT ![i] = d]
      BY <2>1, <2>2, DotChange
    <2>4. v.dots[i].by = None /\ \A j \in Item \ {i} : v.dots[j] = w.dots[j]
      BY <1>2, <2>1, <2>3
    <2> QED
      BY <2>3, <2>4 DEF v, Worked
  <1>5. CASE b # None
    <2>1. b \in Bot /\ Alive(w, b) /\ w.bots[b].place = w.dots[i].place
      BY <1>1, <1>5, CapturerIs
    <2>2. CASE p >= CaptureTicks
      <3> DEFINE v == Captured(w, i, b)
      <3>1. DotAfter(w, i, marks) = v
        BY <1>5, <2>2 DEF DotAfter
      <3> HIDE DEF b
      <3>2. /\ Sound(v) /\ Standing(w, v) /\ (v.dots[i] = None \/ v.dots[i].by = None)
            /\ \A j \in Item \ {i} : v.dots[j] = w.dots[j]
        BY <2>1, CapturedIs
      <3>3. Worked(w, i, v.dots[i])
        BY <3>2 DEF Worked
      <3> QED
        BY <3>1, <3>2, <3>3
    <2>3. CASE ~(p >= CaptureTicks)
      <3> DEFINE d == [w.dots[i] EXCEPT !.by = b, !.progress = p]
                 v == DotAfter(w, i, marks)
      <3>1. p \in 0..(CaptureTicks - 1)
        BY <1>3, <2>3, Sizes
      <3>2. v = [w EXCEPT !.dots[i] = d]
        <4>1. v = [w EXCEPT !.dots[i].by = b, !.dots[i].progress = p]
          BY <1>5, <2>3 DEF DotAfter
        <4> HIDE DEF b, p, v
        <4> QED
          BY <1>1, <1>2, <4>1 DEF Worlds
      <3>3. p = 1 \/ (w.dots[i].by = b /\ p = w.dots[i].progress + 1)
        OBVIOUS
      <3> HIDE DEF b, p, v
      <3>4. d \in Lain /\ d.by = b /\ d.progress = p /\ d.place = w.dots[i].place
        BY <1>2, <2>1, <3>1 DEF Lain
      <3> HIDE DEF d
      <3>5. Sound(v) /\ Standing(w, v) /\ v.dots = [w.dots EXCEPT ![i] = d]
        BY <3>2, <3>4, DotChange
      <3>6. v.dots[i] = d /\ \A j \in Item \ {i} : v.dots[j] = w.dots[j]
        BY <1>2, <3>5
      <3>7. p < CaptureTicks
        BY <3>1, Sizes
      <3>8. Worked(w, i, d)
        BY <2>1, <3>3, <3>4, <3>7 DEF Worked
      <3> QED
        BY <3>5, <3>6, <3>8 DEF v
    <2> QED
      BY <2>2, <2>3
  <1> QED
    BY <1>4, <1>5


LEMMA WorkedStanding ==
  ASSUME NEW w, Sound(w), NEW x, Sound(x), Standing(w, x), NEW i \in Item, x.dots[i] = w.dots[i], NEW d, Worked(x, i, d)
  PROVE  Worked(w, i, d)
  <1>1. CASE d = None \/ d.by = None
    BY <1>1 DEF Worked
  <1>2. CASE ~(d = None \/ d.by = None)
    <2> DEFINE b == d.by
    <2>1. /\ b \in Bot /\ Alive(x, b) /\ x.bots[b].place = d.place
          /\ x.dots[i] # None /\ x.dots[i].place = d.place /\ d.progress < CaptureTicks
          /\ d.progress = 1 \/ (x.dots[i].by = b /\ d.progress = x.dots[i].progress + 1)
      BY <1>2 DEF Worked
    <2>2. Present(x, b)
      BY <2>1 DEF Alive, Present
    <2>3. Stands(w.bots[b], x.bots[b])
      BY <2>1, <2>2 DEF Standing
    <2>4. Alive(w, b) /\ w.bots[b].place = d.place
      BY <2>1, <2>3 DEF Stands, Alive
    <2> QED
      BY <2>1, <2>4 DEF Worked
  <1> QED
    BY <1>1, <1>2

(* All the Dots, in their order.                                           *)
LEMMA DotsResolvedIs ==
  ASSUME NEW w, Sound(w), NEW marks
  PROVE  LET v == DotsResolved(w, marks)
         IN  Sound(v) /\ Standing(w, v) /\ \A i \in Item : Worked(w, i, v.dots[i])
  <1> DEFINE N == Cardinality(Item)
             I == ItemOrder
             Step(x, i) == IF x.dots[i] = None THEN x ELSE DotAfter(x, i, marks)
             P == {v \in Worlds : Sound(v) /\ Standing(w, v)}
             F == [k \in 1..N |-> [x \in P |-> Step(x, I[k])]]
  <1>0. /\ N \in Nat /\ DOMAIN I = 1..N /\ \A n \in 1..N : I[n] \in Item
        /\ \A n, m \in 1..N : I[n] = I[m] => n = m
        /\ \A i \in Item : \E n \in 1..N : I[n] = i
    BY ItemOrderIs
  <1>1. ASSUME NEW x \in P, NEW k \in 1..N
        PROVE  /\ Step(x, I[k]) \in P
               /\ Worked(x, I[k], Step(x, I[k]).dots[I[k]])
               /\ \A j \in Item \ {I[k]} : Step(x, I[k]).dots[j] = x.dots[j]
    <2> DEFINE i == I[k]
               y == Step(x, i)
    <2>1. Sound(x) /\ Standing(w, x) /\ i \in Item
      BY <1>0
    <2>2. /\ Sound(y) /\ Standing(x, y) /\ Worked(x, i, y.dots[i])
          /\ \A j \in Item \ {i} : y.dots[j] = x.dots[j]
      <3>1. CASE x.dots[i] = None
        BY <2>1, <3>1, StandingIs DEF Worked
      <3>2. CASE x.dots[i] # None
        BY <2>1, <3>2, DotAfterIs
      <3> QED
        BY <3>1, <3>2
    <2> HIDE DEF y
    <2>3. Standing(w, y)
      BY <2>1, <2>2, StandingIs
    <2>4. y \in P
      BY <2>2, <2>3 DEF Sound
    <2> QED
      BY <2>2, <2>4 DEF y
  <1>2. w \in P
    BY StandingIs DEF Sound
  <1> HIDE DEF P, N, I, Step
  <1>3. F \in [1..N -> [P -> P]]
    BY <1>1
  <1> HIDE DEF F
  <1>4. PICK g : Folded(g, P, w, N, F)
    BY ONLY <1>0, <1>2, <1>3, FoldExists
  <1> USE DEF F
  <1> DEFINE R(f) == f = [T \in SUBSET (1..N) |-> IF T = {} THEN w ELSE Step(f[T \ {Max(T)}], I[Max(T)])]
             h == CHOOSE f : R(f)
  <1>5. R(g)
    <2>1. ASSUME NEW T \in SUBSET (1..N), T # {}
          PROVE  F[Max(T)][g[T \ {Max(T)}]] = Step(g[T \ {Max(T)}], I[Max(T)])
      <3>1. Max(T) \in 1..N /\ T \ {Max(T)} \in SUBSET (1..N)
        BY <1>0, <2>1, WithoutGreatest
      <3> QED
        BY <1>4, <3>1 DEF Folded
    <2> QED
      BY <1>4, <2>1 DEF Folded
  <1>6. R(h)
    BY <1>5
  <1>8. DotsResolved(w, marks) = h[DOMAIN ItemOrder]
    BY <1>0 DEF DotsResolved, FoldLeft, MapThenFoldSet, Step, I
  <1> HIDE DEF h
  <1>9. DOMAIN h = SUBSET (1..N) /\ h[{}] = w
    BY <1>6
  <1> DEFINE Q == [T \in SUBSET (1..N) |->
                     {v \in P : \A n \in 1..N : IF n \in T THEN Worked(w, I[n], v.dots[I[n]])
                                                ELSE v.dots[I[n]] = w.dots[I[n]]}]
  <1>10. \A T \in SUBSET (1..N) : T # {} /\ h[T \ {Max(T)}] \in Q[T \ {Max(T)}] => h[T] \in Q[T]
    <2> TAKE T \in SUBSET (1..N)
    <2> HAVE T # {} /\ h[T \ {Max(T)}] \in Q[T \ {Max(T)}]
    <2> DEFINE m == Max(T)
               L == T \ {m}
               x == h[L]
               y == h[T]
    <2>1. m \in 1..N /\ L \in SUBSET (1..N) /\ m \in T
      BY <1>0, WithoutGreatest, GreatestIs
    <2>2. y = Step(x, I[m])
      BY <1>6
    <2>3. x \in P /\ \A n \in 1..N : IF n \in L THEN Worked(w, I[n], x.dots[I[n]]) ELSE x.dots[I[n]] = w.dots[I[n]]
      BY <2>1
    <2> HIDE DEF x, y
    <2>4. /\ y \in P /\ Worked(x, I[m], y.dots[I[m]])
          /\ \A j \in Item \ {I[m]} : y.dots[j] = x.dots[j]
      BY <1>1, <2>1, <2>2, <2>3
    <2>5. ASSUME NEW n \in 1..N
          PROVE  IF n \in T THEN Worked(w, I[n], y.dots[I[n]]) ELSE y.dots[I[n]] = w.dots[I[n]]
      <3>1. CASE n = m
        <4>1. x.dots[I[m]] = w.dots[I[m]] /\ Sound(x) /\ Standing(w, x) /\ I[m] \in Item
          BY <1>0, <2>1, <2>3 DEF P
        <4>2. Worked(w, I[m], y.dots[I[m]])
          BY <2>4, <4>1, WorkedStanding
        <4> QED
          BY <2>1, <3>1, <4>2
      <3>2. CASE n # m
        <4>1. I[n] \in Item \ {I[m]}
          BY <1>0, <2>1, <3>2
        <4>2. y.dots[I[n]] = x.dots[I[n]]
          BY <2>4, <4>1
        <4>3. n \in T <=> n \in L
          BY <3>2
        <4> QED
          BY <2>3, <4>2, <4>3
      <3> QED
        BY <3>1, <3>2
    <2>6. y \in Q[T]
      BY <2>4, <2>5
    <2> QED
      BY <2>6 DEF y
  <1>11. h[{}] \in Q[{}] /\ DOMAIN Q = SUBSET (1..N)
    <2>1. {} \in SUBSET (1..N)
      OBVIOUS
    <2> QED
      BY <1>2, <1>9, <2>1
  <1> DEFINE v == h[1..N]
  <1>12. v \in Q[1..N]
    <2> HIDE DEF Q
    <2> QED
      BY ONLY <1>0, <1>9, <1>10, <1>11, FoldReaches
  <1> HIDE DEF v
  <1>13. v \in P /\ \A n \in 1..N : Worked(w, I[n], v.dots[I[n]])
    BY <1>12
  <1>14. DotsResolved(w, marks) = v
    BY <1>0, <1>8 DEF v, I
  <1>15. \A i \in Item : Worked(w, i, v.dots[i])
    BY <1>0, <1>13
  <1> QED
    BY <1>13, <1>14, <1>15 DEF P


(***************************************************************************)
(* Bodies on the floor.                                                    *)
(***************************************************************************)
(* All mines of a bot are taken out, and no other. *)
LEMMA ClearedIs ==
  ASSUME NEW w, Sound(w), NEW b \in Bot, NEW v, v.mines = Cleared(w, b)
  PROVE  /\ v.mines \in Seq(Armed)
         /\ \A k, l \in DOMAIN v.mines : v.mines[k].item = v.mines[l].item => k = l
         /\ Laid(v) = Laid(w) \ Buried(w, b)
         /\ \A j \in DOMAIN v.mines : \E k \in DOMAIN w.mines : v.mines[j] = w.mines[k] /\ w.mines[k].owner # b
         /\ \A a \in Bot : Cardinality(Owned(v, a)) <= MaxMines
         /\ \A i \in Buried(w, b) : i \in Item /\ w.dots[i] = None /\ i \in Laid(w) /\ \A a \in Bot : ~Has(w, a, i)
  <1> DEFINE K == DOMAIN w.mines \ Owned(w, b)
  <1>1. w \in Worlds /\ Apart(w) /\ Allied(w) /\ w.mines \in Seq(Armed)
    BY WorldIs DEF Sound
  <1>2. K \in SUBSET DOMAIN w.mines
    OBVIOUS
  <1>3. v.mines = [n \in 1..Cardinality(K) |-> w.mines[Nth(K, n)]]
    BY DEF Cleared
  <1>4. \A k \in DOMAIN w.mines : k \in K <=> w.mines[k].owner # b
    BY DEF Owned
  <1>5. Buried(w, b) = {w.mines[k].item : k \in Owned(w, b)} /\ Owned(w, b) = DOMAIN w.mines \ K
    BY DEF Buried, Owned
  <1> HIDE DEF K
  <1>6. v.mines \in Seq(Armed) /\ Picks(v.mines, w.mines, K)
    BY <1>1, <1>2, <1>3, LeftIs
  <1>7. /\ \A k, l \in DOMAIN v.mines : v.mines[k].item = v.mines[l].item => k = l
        /\ Laid(v) = {w.mines[k].item : k \in K}
        /\ \A j \in DOMAIN v.mines : \E k \in K : v.mines[j] = w.mines[k]
        /\ \A a \in Bot : Cardinality(Owned(v, a)) <= MaxMines
    BY <1>1, <1>2, <1>6, MinesFewer
  <1>8. Laid(v) = Laid(w) \ Buried(w, b)
    <2>1. \A k, l \in DOMAIN w.mines : w.mines[k].item = w.mines[l].item => k = l
      BY <1>1 DEF Apart
    <2>2. ASSUME NEW i PROVE (\E k \in K : i = w.mines[k].item) <=> (i \in Laid(w) /\ i \notin Buried(w, b))
      <3>1. i \in Laid(w) <=> \E k \in DOMAIN w.mines : i = w.mines[k].item
        BY DEF Laid
      <3>2. i \in Buried(w, b) <=> \E k \in DOMAIN w.mines : k \notin K /\ i = w.mines[k].item
        BY <1>5
      <3> QED
        BY <1>2, <2>1, <3>1, <3>2
    <2> QED
      BY <1>7, <2>2
  <1>9. ASSUME NEW i \in Buried(w, b)
        PROVE  i \in Item /\ w.dots[i] = None /\ i \in Laid(w) /\ \A a \in Bot : ~Has(w, a, i)
    <2>1. i \in Laid(w)
      BY <1>5 DEF Laid
    <2>2. i \in Item
      BY <1>1, <2>1, MinesAre
    <2>3. One(w, i)
      BY <1>1, <2>2 DEF Apart
    <2> QED
      BY <2>1, <2>2, <2>3 DEF One
  <1>10. \A j \in DOMAIN v.mines : \E k \in DOMAIN w.mines : v.mines[j] = w.mines[k] /\ w.mines[k].owner # b
    BY <1>2, <1>4, <1>7
  <1> QED
    BY <1>6, <1>7, <1>8, <1>9, <1>10

(* Whoever covers a body is alive, stands at it, and is nearest to it. *)
LEMMA CovererIs ==
  ASSUME NEW w, NEW nearest \in Nearest(w), NEW x, NEW d, Coverer(x, nearest, d) # None
  PROVE  LET a == Coverer(x, nearest, d)
         IN  a \in Bot /\ Alive(w, a) /\ Downed(w, d) /\ Together(w, a, d)
  <1> DEFINE all == {b \in DOMAIN nearest : nearest[b] = d}
             humans == {b \in all : Controlled(x, b, "human")}
             a == Coverer(x, nearest, d)
  <1>1. DOMAIN nearest \subseteq Bot
    BY DEF Nearest
  <1>2. all \subseteq Nat /\ humans \subseteq all
    BY <1>1, SimulationAssumption
  <1>3. a \in all
    <2>1. CASE humans # {}
      <3>1. a = Lowest(humans)
        BY <2>1 DEF Coverer
      <3>2. Lowest(humans) \in humans
        BY <1>2, <2>1, LowestIs
      <3> QED
        BY <1>2, <3>1, <3>2
    <2>2. CASE humans = {} /\ all # {}
      <3>1. a = Lowest(all)
        BY <2>2 DEF Coverer
      <3>2. Lowest(all) \in all
        BY <1>2, <2>2, LowestIs
      <3> QED
        BY <3>1, <3>2
    <2>3. CASE humans = {} /\ all = {}
      BY <2>3 DEF Coverer
    <2> QED
      BY <2>1, <2>2, <2>3
  <1> HIDE DEF a
  <1>4. a \in Bot /\ nearest[a] = d
    BY <1>1, <1>3
  <1>5. Alive(w, a) /\ nearest[a] \in {c \in Bot : Downed(w, c) /\ Together(w, a, c)}
    BY <1>3 DEF Nearest
  <1> QED
    BY <1>4, <1>5 DEF a

(* A verb has an actor, and a rival is picked up only into a squad with a place. *)
LEMMA VerbIs ==
  ASSUME NEW w, NEW a, NEW d
  PROVE  /\ Verb(w, a, d) \in {"loot", "revive", None}
         /\ Verb(w, a, d) # None => a # None
         /\ Verb(w, a, d) = "revive" /\ ~Friendly(w, a, d) => CanRecruit(w, a, d)
  BY NoneIs DEF Verb

(* What comes of a body on the floor, as far as channels go. *)
Treated(w, d, y) ==
  /\ y.place = w.bots[d].place /\ y.exit = w.bots[d].exit
  /\ \/ y.state = "downed" /\ y.stay = w.bots[d].stay /\ y.channel = NoChannel
     \/ /\ y.state = "downed" /\ y.stay = w.bots[d].stay
        /\ y.channel.actor \in Bot /\ Alive(w, y.channel.actor) /\ Together(w, y.channel.actor, d)
        /\ \/ y.channel.progress = 1
           \/ y.channel.actor = w.bots[d].channel.actor /\ y.channel.progress = w.bots[d].channel.progress + 1
     \/ /\ y.state = "alive" /\ y.stay = 1 /\ y.channel = NoChannel
        /\ CoverTicks > 1 => w.bots[d].channel.actor \in Bot

(* A squad that takes in a body is one larger; every other is no larger. *)
LEMMA RecruitIs ==
  ASSUME NEW w, Capped(w), NEW d \in Bot, Present(w, d), NEW y, y.state # "absent", y.squad \in Squad,
         y.squad = w.bots[d].squad \/ SquadSize(w, y.squad) < MaxSquad,
         NEW v, v.bots[d] = y, \A b \in Bot \ {d} : v.bots[b] = w.bots[b]
  PROVE  Capped(v)
  <1> DEFINE S(u, s) == {b \in Bot : Present(u, b) /\ u.bots[b].squad = s}
  <1>1. ASSUME NEW s \in Squad PROVE SquadSize(v, s) <= MaxSquad
    <2>1. IsFiniteSet(Bot) /\ S(w, s) \subseteq Bot
      BY SimulationAssumption
    <2>2. IsFiniteSet(S(w, s)) /\ Cardinality(S(w, s)) \in Nat
      BY <2>1, FS_Subset, FS_CardinalityType
    <2>3. SquadSize(w, s) = Cardinality(S(w, s)) /\ SquadSize(v, s) = Cardinality(S(v, s))
      BY DEF SquadSize
    <2>4. Cardinality(S(w, s)) <= MaxSquad
      BY <2>3 DEF Capped
    <2>5. \A b \in Bot \ {d} : b \in S(v, s) <=> b \in S(w, s)
      BY DEF Present
    <2>6. d \in S(v, s) <=> y.squad = s
      BY DEF Present
    <2>7. CASE y.squad = s /\ y.squad # w.bots[d].squad
      <3>1. S(v, s) = S(w, s) \union {d} /\ d \notin S(w, s)
        BY <2>5, <2>6, <2>7
      <3> HIDE DEF S
      <3>2. Cardinality(S(v, s)) = Cardinality(S(w, s)) + 1
        BY <2>2, <3>1, FS_AddElement
      <3>3. Cardinality(S(w, s)) < MaxSquad
        BY <2>3, <2>7
      <3> QED
        BY <2>2, <2>3, <3>2, <3>3, Sizes
    <2>8. CASE ~(y.squad = s /\ y.squad # w.bots[d].squad)
      <3>1. S(v, s) \subseteq S(w, s)
        BY <2>5, <2>6, <2>8
      <3> HIDE DEF S
      <3>2. Cardinality(S(v, s)) <= Cardinality(S(w, s)) /\ Cardinality(S(v, s)) \in Nat
        BY <2>2, <3>1, FS_Subset, FS_CardinalityType
      <3> QED
        BY <2>2, <2>3, <2>4, <3>2, Sizes
    <2> QED
      BY <2>7, <2>8
  <1> QED
    BY <1>1 DEF Capped


(* A completed revival: recruiting into a squad that has room, or          *)
(* rescuing.                                                               *)
LEMMA RevivedIs ==
  ASSUME NEW w, Sound(w), NEW d \in Bot, Present(w, d), NEW a \in Bot, Present(w, a),
         Friendly(w, a, d) \/ CanRecruit(w, a, d)
  PROVE  LET v == Revived(w, d, a)
         IN  /\ Sound(v) /\ v.dots = w.dots /\ \A b \in Bot \ {d} : v.bots[b] = w.bots[b]
             /\ v.bots[d].state = "alive" /\ v.bots[d].stay = 1 /\ v.bots[d].channel = NoChannel
             /\ v.bots[d].place = w.bots[d].place /\ v.bots[d].exit = w.bots[d].exit
  <1> DEFINE x == w.bots[d]
             y == [x EXCEPT !.squad = w.bots[a].squad, !.state = "alive", !.pleaded = FALSE, !.searched = FALSE,
                            !.plates = 1, !.safe = TRUE, !.channel = NoChannel, !.stay = 1]
             v == Revived(w, d, a)
  <1>1. w \in Worlds /\ Apart(w) /\ Allied(w) /\ Capped(w)
    BY DEF Sound
  <1>2. x \in Sane /\ x \in Body /\ Present(w, d) /\ w.bots[a] \in Body /\ w.bots[a].squad \in Squad
    BY <1>1, PresentIs, BodyIs
  <1>3. NoChannel \in Channelings
    BY LongestIs DEF NoChannel, Channelings
  <1>4. y \in Body
    <2>1. 1 \in 0..MaxPlates /\ 1 \in 0..Longest
      BY Sizes, LongestIs
    <2> DEFINE s == w.bots[a].squad
    <2>2. s \in Squad
      BY <1>2
    <2>3. y = [x EXCEPT !.squad = s, !.state = "alive", !.pleaded = FALSE, !.searched = FALSE,
                        !.plates = 1, !.safe = TRUE, !.channel = NoChannel, !.stay = 1]
      OBVIOUS
    <2> HIDE DEF s, x, y
    <2> QED
      BY ONLY <1>2, <1>3, <2>1, <2>2, <2>3 DEF Body
  <1>5. /\ y.bays = x.bays /\ y.hold = x.hold /\ y.swap = x.swap /\ y.squad = w.bots[a].squad
        /\ y.state = "alive" /\ y.stay = 1 /\ y.channel = NoChannel /\ y.place = x.place /\ y.exit = x.exit
    BY <1>2 DEF Body
  <1> HIDE DEF y, x
  <1>6. y \in Sane /\ Contents(y) = Contents(x)
    BY <1>2, <1>4, <1>5, StillSane
  <1>7. /\ v.bots = [w.bots EXCEPT ![d] = y] /\ v.dots = w.dots
        /\ v.mines = IF Friendly(w, a, d) THEN w.mines ELSE Cleared(w, d)
        /\ v.gone = IF Friendly(w, a, d) THEN w.gone
                    ELSE [i \in Item |-> IF i \in Buried(w, d) THEN "spent" ELSE w.gone[i]]
        /\ v \in Worlds
    <2> DEFINE up == [w EXCEPT !.bots[d] = y]
               M == Cleared(w, d)
               G == [i \in Item |-> IF i \in Buried(w, d) THEN "spent" ELSE w.gone[i]]
    <2>1. v = IF Friendly(w, a, d) THEN up ELSE [up EXCEPT !.mines = M, !.gone = G]
      BY DEF Revived, y, x
    <2>2. M \in Seq(Armed)
      <3> DEFINE u == [mines |-> M]
      <3>1. u.mines = Cleared(w, d)
        OBVIOUS
      <3> HIDE DEF u
      <3> QED
        BY <3>1, ClearedIs
    <2>3. G \in [Item -> Ends]
      BY <1>1, WorldIs DEF Ends
    <2> HIDE DEF v, M, G
    <2>4. /\ up \in Worlds /\ up.bots = [w.bots EXCEPT ![d] = y] /\ up.dots = w.dots /\ up.mines = w.mines
          /\ up.gone = w.gone
      BY <1>1, <1>6 DEF Worlds
    <2> HIDE DEF up
    <2>5. CASE Friendly(w, a, d)
      BY <2>1, <2>4, <2>5
    <2>6. CASE ~Friendly(w, a, d)
      <3>1. v = [up EXCEPT !.mines = M, !.gone = G]
        BY <2>1, <2>6
      <3>2. v \in Worlds /\ v.bots = up.bots /\ v.dots = up.dots /\ v.mines = M /\ v.gone = G
        BY <2>2, <2>3, <2>4, <3>1 DEF Worlds
      <3> QED
        BY <2>4, <2>6, <3>2 DEF M, G
    <2> QED
      BY <2>5, <2>6
  <1> HIDE DEF v
  <1>8. v.bots[d] = y /\ \A b \in Bot \ {d} : v.bots[b] = w.bots[b]
    BY <1>1, <1>7, WorldIs
  <1>9. Sound(v)
    <2>1. CASE Friendly(w, a, d)
      <3>1. y.squad = w.bots[d].squad
        BY <1>5, <2>1 DEF Friendly
      <3> QED
        BY <1>2, <1>6, <1>7, <2>1, <3>1, BodyKept DEF x
    <2>2. CASE ~Friendly(w, a, d)
      <3>1. v.mines = Cleared(w, d)
        BY <1>7, <2>2
      <3>2. /\ \A k, l \in DOMAIN v.mines : v.mines[k].item = v.mines[l].item => k = l
            /\ Laid(v) = Laid(w) \ Buried(w, d)
            /\ \A j \in DOMAIN v.mines : \E k \in DOMAIN w.mines : v.mines[j] = w.mines[k] /\ w.mines[k].owner # d
            /\ \A b \in Bot : Cardinality(Owned(v, b)) <= MaxMines
            /\ \A i \in Buried(w, d) : i \in Item /\ w.dots[i] = None /\ i \in Laid(w) /\ \A b \in Bot : ~Has(w, b, i)
        BY <3>1, ClearedIs
      <3>3. \A b \in Bot, i \in Item : Has(v, b, i) <=> Has(w, b, i)
        <4> TAKE b \in Bot, i \in Item
        <4>1. y.state # "absent"
          BY <1>4, AbsentIs
        <4>2. CASE b = d
          BY <1>2, <1>6, <1>8, <4>1, <4>2 DEF Has, Present, x
        <4>3. CASE b # d
          BY <1>8, <4>3 DEF Has, Present
        <4> QED
          BY <4>2, <4>3
      <3>4. Apart(v)
        <4>1. ASSUME NEW i \in Item PROVE One(v, i)
          <5>1. One(w, i)
            BY <1>1 DEF Apart
          <5>2. v.gone[i] = IF i \in Buried(w, d) THEN "spent" ELSE w.gone[i]
            BY <1>7, <2>2
          <5>3. CASE i \in Buried(w, d)
            <6>1. i \notin Laid(v) /\ v.dots[i] = None /\ v.gone[i] # None
              BY <1>7, <3>2, <5>2, <5>3, NoneIs
            <6>2. \A b \in Bot : ~Has(v, b, i)
              BY <3>2, <3>3, <5>3
            <6> QED
              BY <6>1, <6>2 DEF One
          <5>4. CASE i \notin Buried(w, d)
            BY <1>7, <3>2, <3>3, <5>1, <5>2, <5>4, OneKept
          <5> QED
            BY <5>3, <5>4
        <4> QED
          BY <3>2, <4>1 DEF Apart
      <3>5. Allied(v)
        <4>1. ASSUME NEW j \in DOMAIN v.mines
              PROVE  Present(v, v.mines[j].owner) /\ v.mines[j].squad = v.bots[v.mines[j].owner].squad
          <5>1. PICK k \in DOMAIN w.mines : v.mines[j] = w.mines[k] /\ w.mines[k].owner # d
            BY <3>2
          <5>2. /\ w.mines[k].owner \in Bot /\ Present(w, w.mines[k].owner)
                /\ w.mines[k].squad = w.bots[w.mines[k].owner].squad
            BY <1>1, MinesAre DEF Allied
          <5> QED
            BY <1>8, <5>1, <5>2 DEF Present
        <4> QED
          BY <3>2, <4>1 DEF Allied
      <3>6. Capped(v)
        <4>1. CanRecruit(w, a, d)
          BY <2>2
        <4>2. SquadSize(w, y.squad) < MaxSquad
          BY <1>5, <4>1 DEF CanRecruit
        <4>3. y.state # "absent" /\ y.squad \in Squad
          BY <1>2, <1>5
        <4> QED
          BY <1>1, <1>2, <1>8, <4>2, <4>3, RecruitIs
      <3> QED
        BY <1>7, <3>4, <3>5, <3>6 DEF Sound
    <2> QED
      BY <2>1, <2>2
  <1> QED
    BY <1>5, <1>7, <1>8, <1>9 DEF v, x


(* A body that is only searched or held. *)
Held(w, d, s, c) == [w EXCEPT !.bots[d] = [w.bots[d] EXCEPT !.searched = s, !.channel = c]]

LEMMA HeldIs ==
  ASSUME NEW w, Sound(w), NEW d \in Bot, Present(w, d), NEW c \in Channelings, NEW s \in BOOLEAN
  PROVE  LET v == Held(w, d, s, c)
         IN  /\ Sound(v) /\ v.dots = w.dots /\ \A b \in Bot \ {d} : v.bots[b] = w.bots[b]
             /\ v.bots[d].state = w.bots[d].state /\ v.bots[d].stay = w.bots[d].stay /\ v.bots[d].channel = c
             /\ v.bots[d].place = w.bots[d].place /\ v.bots[d].exit = w.bots[d].exit
  <1> DEFINE x == w.bots[d]
             y == [x EXCEPT !.searched = s, !.channel = c]
             v == Held(w, d, s, c)
  <1>1. w \in Worlds /\ Present(w, d) /\ x \in Sane /\ x \in Body
    BY PresentIs DEF Sound
  <1> HIDE DEF x
  <1>2. y \in Body
    BY <1>1 DEF Body
  <1>3. /\ y.bays = x.bays /\ y.hold = x.hold /\ y.swap = x.swap /\ y.squad = x.squad /\ y.state = x.state
        /\ y.stay = x.stay /\ y.channel = c /\ y.place = x.place /\ y.exit = x.exit
    BY <1>1 DEF Body
  <1>4. v = [w EXCEPT !.bots[d] = y]
    BY DEF x, Held
  <1> HIDE DEF y, v
  <1>5. y \in Sane /\ Contents(y) = Contents(x)
    BY <1>1, <1>2, <1>3, StillSane
  <1>6. v \in Worlds /\ v.bots = [w.bots EXCEPT ![d] = y] /\ v.dots = w.dots /\ v.mines = w.mines /\ v.gone = w.gone
    BY ONLY d \in Bot, <1>1, <1>4, <1>5 DEF Worlds
  <1>7. Sound(v)
    <2>1. y.squad = w.bots[d].squad /\ Contents(y) = Contents(w.bots[d])
      BY <1>3, <1>5 DEF x
    <2> QED
      BY ONLY Sound(w), d \in Bot, <1>1, <1>5, <1>6, <2>1, BodyKept
  <1>8. v.bots[d] = y /\ \A b \in Bot \ {d} : v.bots[b] = w.bots[b]
    BY <1>1, <1>6, WorldIs
  <1> QED
    BY <1>3, <1>6, <1>7, <1>8 DEF x, v

(* The resolution of one body: its verb completes, goes on, or starts      *)
(* again.                                                                  *)
LEMMA CoveredIs ==
  ASSUME NEW w \in Worlds, NEW nearest \in Nearest(w), NEW x, Sound(x), NEW d \in Bot, Downed(w, d),
         Present(x, d), \A b \in Bot : Alive(w, b) => x.bots[b] = w.bots[b]
  PROVE  LET v == Covered(x, nearest, d)
         IN  /\ Sound(v) /\ v.dots = x.dots /\ \A b \in Bot \ {d} : v.bots[b] = x.bots[b]
             /\ Present(v, d) /\ (x.bots[d] = w.bots[d] => Treated(w, d, v.bots[d]))
  <1> DEFINE a == Coverer(x, nearest, d)
             verb == Verb(x, a, d)
             old == x.bots[d].channel
             p == IF old.actor = a /\ old.kind = verb THEN old.progress + 1 ELSE 1
             v == Covered(x, nearest, d)
  <1>1. x \in Worlds /\ Present(x, d) /\ x.bots[d] \in Body /\ old \in Channelings
    <2>1. x \in Worlds /\ Present(x, d)
      BY DEF Sound
    <2>2. x.bots[d] \in Body
      BY <2>1, PresentIs
    <2> QED
      BY <2>1, <2>2, BodyIs
  <1>2. verb \in {"loot", "revive", None} /\ (verb # None => a # None)
        /\ (verb = "revive" /\ ~Friendly(x, a, d) => CanRecruit(x, a, d))
    BY VerbIs
  <1>3. a # None => a \in Bot /\ Alive(w, a) /\ Together(w, a, d) /\ Alive(x, a)
    <2>1. a # None => a \in Bot /\ Alive(w, a) /\ Together(w, a, d)
      BY CovererIs
    <2> QED
      BY <2>1 DEF Alive
  <1>4. old.progress \in Nat /\ p \in Nat /\ 1 <= p
    BY <1>1, LongestIs DEF Channelings
  <1>5. v = (IF verb = None THEN [x EXCEPT !.bots[d].channel = NoChannel]
             ELSE IF p < (IF verb = "loot" THEN LootTicks ELSE CoverTicks)
                  THEN [x EXCEPT !.bots[d].channel = [actor |-> a, kind |-> verb, progress |-> p]]
             ELSE IF verb = "loot" THEN [x EXCEPT !.bots[d].searched = TRUE, !.bots[d].channel = NoChannel]
             ELSE Revived(x, d, a))
    BY DEF Covered
  <1>6. NoChannel \in Channelings
    BY LongestIs DEF NoChannel, Channelings
  <1> DEFINE s == x.bots[d].searched
  <1>7. s \in BOOLEAN
    BY <1>1 DEF Body
  <1>8. /\ \A c : [x EXCEPT !.bots[d].channel = c] = Held(x, d, s, c)
        /\ [x EXCEPT !.bots[d].searched = TRUE, !.bots[d].channel = NoChannel] = Held(x, d, TRUE, NoChannel)
    <2>1. x.bots \in [Bot -> Sane \union {Absent}]
      BY <1>1, WorldIs
    <2> QED
      BY <1>1, <2>1 DEF Worlds, Body, Held
  <1>9. ASSUME NEW t \in BOOLEAN, NEW c \in Channelings, v = Held(x, d, t, c),
               \/ c = NoChannel
               \/ /\ c.actor \in Bot /\ Alive(w, c.actor) /\ Together(w, c.actor, d)
                  /\ c.progress = 1 \/ (c.actor = old.actor /\ c.progress = old.progress + 1)
        PROVE  /\ Sound(v) /\ v.dots = x.dots /\ \A b \in Bot \ {d} : v.bots[b] = x.bots[b]
               /\ Present(v, d) /\ (x.bots[d] = w.bots[d] => Treated(w, d, v.bots[d]))
    <2> HIDE DEF v, a, verb, p
    <2> DEFINE u == Held(x, d, t, c)
    <2>4. /\ Sound(u) /\ u.dots = x.dots /\ \A b \in Bot \ {d} : u.bots[b] = x.bots[b]
          /\ u.bots[d].state = x.bots[d].state /\ u.bots[d].stay = x.bots[d].stay /\ u.bots[d].channel = c
          /\ u.bots[d].place = x.bots[d].place /\ u.bots[d].exit = x.bots[d].exit
      BY ONLY Sound(x), d \in Bot, <1>1, t \in BOOLEAN, c \in Channelings, HeldIs
    <2> HIDE DEF u
    <2>5. u = v
      BY <1>9 DEF u
    <2>2. /\ Sound(v) /\ v.dots = x.dots /\ \A b \in Bot \ {d} : v.bots[b] = x.bots[b]
          /\ v.bots[d].state = x.bots[d].state /\ v.bots[d].stay = x.bots[d].stay /\ v.bots[d].channel = c
          /\ v.bots[d].place = x.bots[d].place /\ v.bots[d].exit = x.bots[d].exit
      BY <2>4, <2>5
    <2>3. ASSUME x.bots[d] = w.bots[d] PROVE Treated(w, d, v.bots[d])
      <3>1. v.bots[d].state = "downed" /\ old = w.bots[d].channel
        BY <2>2, <2>3 DEF Downed
      <3> QED
        BY <1>9, <2>2, <2>3, <3>1 DEF Treated
    <2>6. Present(v, d)
      BY <1>1, <2>2 DEF Present
    <2> QED
      BY <2>2, <2>3, <2>6
  <1>10. CASE verb = None
    <2>1. v = Held(x, d, s, NoChannel)
      BY <1>5, <1>8, <1>10
    <2> QED
      BY <1>6, <1>7, <1>9, <2>1
  <1>11. CASE verb # None /\ p < (IF verb = "loot" THEN LootTicks ELSE CoverTicks)
    <2> DEFINE c == [actor |-> a, kind |-> verb, progress |-> p]
    <2>1. v = Held(x, d, s, c)
      BY <1>5, <1>8, <1>11
    <2>2. a \in Bot /\ Alive(w, a) /\ Together(w, a, d)
      BY <1>2, <1>3, <1>11
    <2>3. p \in 0..Longest
      BY <1>2, <1>4, <1>11, LongestIs, Sizes
    <2>4. p = 1 \/ (a = old.actor /\ p = old.progress + 1)
      OBVIOUS
    <2> HIDE DEF v, a, verb, p
    <2>5. c \in Channelings /\ c.actor = a /\ c.progress = p
      BY <1>2, <2>2, <2>3 DEF Channelings
    <2> HIDE DEF c, old
    <2>6. c.actor \in Bot /\ Alive(w, c.actor) /\ Together(w, c.actor, d)
          /\ (c.progress = 1 \/ (c.actor = old.actor /\ c.progress = old.progress + 1))
      BY <2>2, <2>4, <2>5
    <2> HIDE DEF s
    <2> QED
      BY <1>7, <1>9, <2>1, <2>5, <2>6 DEF v
  <1>12. CASE verb = "loot" /\ ~(p < LootTicks)
    <2>1. v = Held(x, d, TRUE, NoChannel)
      BY <1>5, <1>8, <1>12, NoneIs
    <2> QED
      BY <1>6, <1>9, <2>1
  <1>13. CASE verb = "revive" /\ ~(p < CoverTicks)
    <2>1. v = Revived(x, d, a)
      BY <1>5, <1>13, NoneIs
    <2>2. a \in Bot /\ Alive(w, a) /\ Alive(x, a)
      BY <1>2, <1>3, <1>13, NoneIs
    <2>3. Friendly(x, a, d) \/ CanRecruit(x, a, d)
      BY <1>2, <1>13
    <2>4. CoverTicks > 1 => old.actor \in Bot
      <3>1. CoverTicks > 1 => p # 1
        BY <1>4, <1>13, Sizes
      <3> QED
        BY <1>4, <2>2, <3>1
    <2> HIDE DEF v, a, verb, p
    <2>5. Present(x, a)
      BY <2>2 DEF Alive, Present
    <2> DEFINE r == Revived(x, d, a)
    <2>6. /\ Sound(r) /\ r.dots = x.dots /\ \A b \in Bot \ {d} : r.bots[b] = x.bots[b]
          /\ r.bots[d].state = "alive" /\ r.bots[d].stay = 1 /\ r.bots[d].channel = NoChannel
          /\ r.bots[d].place = x.bots[d].place /\ r.bots[d].exit = x.bots[d].exit
      BY <1>1, <2>2, <2>3, <2>5, RevivedIs
    <2> HIDE DEF r
    <2>7. v = r
      BY <2>1 DEF r
    <2>8. x.bots[d] = w.bots[d] => Treated(w, d, r.bots[d])
      BY <2>4, <2>6 DEF Treated
    <2>9. Present(r, d)
      BY <2>6 DEF Present
    <2> QED
      BY <2>6, <2>7, <2>8, <2>9 DEF v
  <1> QED
    BY <1>2, <1>10, <1>11, <1>12, <1>13


(* All the bodies, in their order.                                         *)
LEMMA BodiesResolvedIs ==
  ASSUME NEW w, Sound(w), NEW nearest \in Nearest(w)
  PROVE  LET v == BodiesResolved(w, nearest)
         IN  /\ Sound(v) /\ v.dots = w.dots
             /\ \A d \in Bot : IF Downed(w, d) THEN Treated(w, d, v.bots[d]) ELSE v.bots[d] = w.bots[d]
  <1> DEFINE N == Cardinality(Bot)
             I == Order
             Step(x, d) == IF Downed(w, d) THEN Covered(x, nearest, d) ELSE x
             Rest(v) == \A b \in Bot : IF Downed(w, b) THEN Present(v, b) ELSE v.bots[b] = w.bots[b]
             P == {v \in Worlds : Sound(v) /\ v.dots = w.dots /\ Rest(v)}
             F == [k \in 1..N |-> [x \in P |-> Step(x, I[k])]]
  <1>0. /\ N \in Nat /\ DOMAIN I = 1..N /\ \A n \in 1..N : I[n] \in Bot
        /\ \A n, m \in 1..N : I[n] = I[m] => n = m
        /\ \A b \in Bot : \E n \in 1..N : I[n] = b
    BY OrderIs
  <1>1. ASSUME NEW x \in P, NEW k \in 1..N
        PROVE  /\ Step(x, I[k]) \in P
               /\ Downed(w, I[k]) /\ x.bots[I[k]] = w.bots[I[k]] => Treated(w, I[k], Step(x, I[k]).bots[I[k]])
               /\ \A b \in Bot \ {I[k]} : Step(x, I[k]).bots[b] = x.bots[b]
    <2> DEFINE d == I[k]
               y == Step(x, d)
    <2>1. Sound(x) /\ d \in Bot /\ x.dots = w.dots /\ w \in Worlds
      BY <1>0 DEF Sound
    <2>2. \A b \in Bot : Alive(w, b) => x.bots[b] = w.bots[b]
      BY DEF Alive, Downed
    <2>3. CASE ~Downed(w, d)
      BY <2>3
    <2>4. CASE Downed(w, d)
      <3> DEFINE u == Covered(x, nearest, d)
      <3>1. Present(x, d)
        BY <2>1, <2>4
      <3>2. /\ Sound(u) /\ u.dots = x.dots /\ \A b \in Bot \ {d} : u.bots[b] = x.bots[b]
            /\ Present(u, d) /\ (x.bots[d] = w.bots[d] => Treated(w, d, u.bots[d]))
        BY <2>1, <2>2, <2>4, <3>1, CoveredIs
      <3>3. y = u
        BY <2>4
      <3> HIDE DEF u, y, d
      <3>4. Rest(u)
        <4>1. ASSUME NEW b \in Bot PROVE IF Downed(w, b) THEN Present(u, b) ELSE u.bots[b] = w.bots[b]
          <5>1. CASE b = d
            BY <2>4, <3>2, <5>1
          <5>2. CASE b # d
            BY <3>2, <5>2 DEF Present
          <5> QED
            BY <5>1, <5>2
        <4> QED
          BY <4>1
      <3>5. u \in P
        BY <2>1, <3>2, <3>4 DEF Sound
      <3> QED
        BY <3>2, <3>3, <3>5 DEF y, d
    <2> QED
      BY <2>3, <2>4
  <1>2. w \in P
    <2>1. Rest(w)
      BY DEF Downed, Present
    <2> QED
      BY <2>1 DEF Sound
  <1> HIDE DEF P, N, I, Step
  <1>3. F \in [1..N -> [P -> P]]
    BY <1>1
  <1> HIDE DEF F
  <1>4. PICK g : Folded(g, P, w, N, F)
    BY ONLY <1>0, <1>2, <1>3, FoldExists
  <1> USE DEF F
  <1> DEFINE R(f) == f = [T \in SUBSET (1..N) |-> IF T = {} THEN w ELSE Step(f[T \ {Max(T)}], I[Max(T)])]
             h == CHOOSE f : R(f)
  <1>5. R(g)
    <2>1. ASSUME NEW T \in SUBSET (1..N), T # {}
          PROVE  F[Max(T)][g[T \ {Max(T)}]] = Step(g[T \ {Max(T)}], I[Max(T)])
      <3>1. Max(T) \in 1..N /\ T \ {Max(T)} \in SUBSET (1..N)
        BY <1>0, <2>1, WithoutGreatest
      <3> QED
        BY <1>4, <3>1 DEF Folded
    <2> QED
      BY <1>4, <2>1 DEF Folded
  <1>6. R(h)
    BY <1>5
  <1>8. BodiesResolved(w, nearest) = h[DOMAIN Order]
    BY <1>0 DEF BodiesResolved, FoldLeft, MapThenFoldSet, Step, I
  <1> HIDE DEF h
  <1>9. DOMAIN h = SUBSET (1..N) /\ h[{}] = w
    BY <1>6
  <1> DEFINE Come(v, d) == IF Downed(w, d) THEN Treated(w, d, v.bots[d]) ELSE v.bots[d] = w.bots[d]
             Q == [T \in SUBSET (1..N) |->
                     {v \in P : \A n \in 1..N : IF n \in T THEN Come(v, I[n]) ELSE v.bots[I[n]] = w.bots[I[n]]}]
  <1>10. \A T \in SUBSET (1..N) : T # {} /\ h[T \ {Max(T)}] \in Q[T \ {Max(T)}] => h[T] \in Q[T]
    <2> TAKE T \in SUBSET (1..N)
    <2> HAVE T # {} /\ h[T \ {Max(T)}] \in Q[T \ {Max(T)}]
    <2> DEFINE m == Max(T)
               L == T \ {m}
               x == h[L]
               y == h[T]
    <2>1. m \in 1..N /\ L \in SUBSET (1..N) /\ m \in T
      BY <1>0, WithoutGreatest, GreatestIs
    <2>2. y = Step(x, I[m])
      BY <1>6
    <2>3. x \in P /\ \A n \in 1..N : IF n \in L THEN Come(x, I[n]) ELSE x.bots[I[n]] = w.bots[I[n]]
      BY <2>1
    <2> HIDE DEF x, y
    <2>4. /\ y \in P /\ (Downed(w, I[m]) /\ x.bots[I[m]] = w.bots[I[m]] => Treated(w, I[m], y.bots[I[m]]))
          /\ \A b \in Bot \ {I[m]} : y.bots[b] = x.bots[b]
      BY <1>1, <2>1, <2>2, <2>3
    <2>5. ASSUME NEW n \in 1..N
          PROVE  IF n \in T THEN Come(y, I[n]) ELSE y.bots[I[n]] = w.bots[I[n]]
      <3>1. CASE n = m
        <4>1. x.bots[I[m]] = w.bots[I[m]] /\ I[m] \in Bot
          BY <1>0, <2>1, <2>3
        <4>2. ~Downed(w, I[m]) => y.bots[I[m]] = w.bots[I[m]]
          BY <2>4, <4>1 DEF P
        <4> QED
          BY <2>1, <2>4, <3>1, <4>1, <4>2
      <3>2. CASE n # m
        <4>1. I[n] \in Bot \ {I[m]}
          BY <1>0, <2>1, <3>2
        <4>2. y.bots[I[n]] = x.bots[I[n]]
          BY <2>4, <4>1
        <4>3. n \in T <=> n \in L
          BY <3>2
        <4> QED
          BY <2>3, <4>2, <4>3
      <3> QED
        BY <3>1, <3>2
    <2>6. y \in Q[T]
      BY <2>4, <2>5
    <2> QED
      BY <2>6 DEF y
  <1>11. h[{}] \in Q[{}] /\ DOMAIN Q = SUBSET (1..N)
    <2>1. {} \in SUBSET (1..N)
      OBVIOUS
    <2> QED
      BY <1>2, <1>9, <2>1
  <1> DEFINE v == h[1..N]
  <1>12. v \in Q[1..N]
    <2> HIDE DEF Q
    <2> QED
      BY ONLY <1>0, <1>9, <1>10, <1>11, FoldReaches
  <1> HIDE DEF v
  <1>13. v \in P /\ \A n \in 1..N : Come(v, I[n])
    BY <1>12
  <1>14. BodiesResolved(w, nearest) = v
    BY <1>0, <1>8 DEF v, I
  <1>15. \A d \in Bot : Come(v, d)
    BY <1>0, <1>13
  <1> QED
    BY <1>13, <1>14, <1>15 DEF P


(***************************************************************************)
(* Leaving.                                                                *)
(***************************************************************************)
LEMMA CappedFewer ==
  ASSUME NEW w, Capped(w), NEW v,
         \A a \in Bot : Present(v, a) => Present(w, a) /\ v.bots[a].squad = w.bots[a].squad
  PROVE  Capped(v)
  <1> DEFINE S(u, s) == {b \in Bot : Present(u, b) /\ u.bots[b].squad = s}
  <1>1. ASSUME NEW s \in Squad PROVE SquadSize(v, s) <= MaxSquad
    <2>1. IsFiniteSet(Bot) /\ S(w, s) \subseteq Bot
      BY SimulationAssumption
    <2>2. IsFiniteSet(S(w, s))
      BY <2>1, FS_Subset
    <2>3. S(v, s) \subseteq S(w, s)
      OBVIOUS
    <2>4. SquadSize(w, s) = Cardinality(S(w, s)) /\ SquadSize(v, s) = Cardinality(S(v, s))
      BY DEF SquadSize
    <2> HIDE DEF S
    <2>5. /\ Cardinality(S(v, s)) <= Cardinality(S(w, s))
          /\ Cardinality(S(v, s)) \in Nat /\ Cardinality(S(w, s)) \in Nat
      BY <2>2, <2>3, FS_Subset, FS_CardinalityType
    <2> QED
      BY <2>4, <2>5, Sizes DEF Capped
  <1> QED
    BY <1>1 DEF Capped

LEMMA RemovedIs ==
  ASSUME NEW w, Sound(w), NEW b \in Bot, Present(w, b), NEW where \in {"extracted", "lost"}
  PROVE  LET v == Removed(w, b, where)
         IN  /\ Sound(v) /\ ~Present(v, b)
             /\ \A a \in Bot \ {b} :
                  v.bots[a] = IF Downed(w, a) /\ w.bots[a].channel.actor = b
                              THEN [w.bots[a] EXCEPT !.channel = NoChannel] ELSE w.bots[a]
             /\ \A i \in Item : v.dots[i] = IF w.dots[i] # None /\ w.dots[i].by = b
                                            THEN [w.dots[i] EXCEPT !.by = None] ELSE w.dots[i]
  <1> DEFINE v == Removed(w, b, where)
             let(a) == IF Downed(w, a) /\ w.bots[a].channel.actor = b
                       THEN [w.bots[a] EXCEPT !.channel = NoChannel] ELSE w.bots[a]
             lain(i) == IF w.dots[i] # None /\ w.dots[i].by = b THEN [w.dots[i] EXCEPT !.by = None] ELSE w.dots[i]
             end(i) == IF i \in Contents(w.bots[b]) THEN where
                       ELSE IF i \in Buried(w, b) THEN "spent" ELSE w.gone[i]
  <1>1. w \in Worlds /\ Apart(w) /\ Allied(w) /\ Capped(w)
    BY DEF Sound
  <1>2. /\ w.bots \in [Bot -> Sane \union {Absent}] /\ w.dots \in [Item -> Lain \union {None}]
        /\ w.gone \in [Item -> Ends]
    BY <1>1, WorldIs
  <1>3. \A a \in Bot \ {b} : v.bots[a] = let(a)
    BY DEF Removed
  <1>4. v.bots[b] = Absent
    BY DEF Removed
  <1>5. DOMAIN v.bots = Bot
    BY DEF Removed
  <1>6. v.dots = [i \in Item |-> lain(i)] /\ v.mines = Cleared(w, b) /\ v.gone = [i \in Item |-> end(i)]
    BY DEF Removed
  <1>7. v = [bots |-> v.bots, dots |-> v.dots, mines |-> v.mines, gone |-> v.gone]
    BY DEF Removed
  <1>8. NoChannel \in Channelings
    BY LongestIs DEF NoChannel, Channelings
  <1>9. ASSUME NEW a \in Bot, Present(w, a)
        PROVE  let(a) \in Sane /\ Contents(let(a)) = Contents(w.bots[a]) /\ let(a).squad = w.bots[a].squad
    <2> DEFINE x == w.bots[a]
               y == [x EXCEPT !.channel = NoChannel]
    <2>1. x \in Sane /\ x \in Body
      BY <1>1, <1>9, PresentIs
    <2>2. let(a) = x \/ let(a) = y
      OBVIOUS
    <2> HIDE DEF x, let
    <2>3. y \in Body /\ y.bays = x.bays /\ y.hold = x.hold /\ y.swap = x.swap /\ y.squad = x.squad
      BY <1>8, <2>1 DEF Body
    <2> HIDE DEF y
    <2>4. y \in Sane /\ Contents(y) = Contents(x)
      BY <2>1, <2>3, StillSane
    <2> QED
      BY <2>1, <2>2, <2>3, <2>4 DEF x
  <1>10. ASSUME NEW i \in Item PROVE lain(i) \in Lain \union {None} /\ (lain(i) = None <=> w.dots[i] = None)
    <2>1. CASE w.dots[i] # None /\ w.dots[i].by = b
      <3> DEFINE d == [w.dots[i] EXCEPT !.by = None]
      <3>1. w.dots[i] \in Lain
        BY <1>2, <2>1
      <3>2. d \in Lain
        BY <3>1 DEF Lain
      <3>3. lain(i) = d
        BY <2>1
      <3> QED
        BY <2>1, <3>2, <3>3, NoneIs
    <2>2. CASE ~(w.dots[i] # None /\ w.dots[i].by = b)
      BY <1>2, <2>2
    <2> QED
      BY <2>1, <2>2
  <1>11. ASSUME NEW i \in Item PROVE end(i) \in Ends
    BY <1>2 DEF Ends
  <1>12. ASSUME NEW a \in Bot \ {b}
         PROVE  /\ Present(v, a) <=> Present(w, a)
                /\ Present(w, a) => /\ v.bots[a] \in Sane /\ Contents(v.bots[a]) = Contents(w.bots[a])
                                    /\ v.bots[a].squad = w.bots[a].squad
                /\ ~Present(w, a) => v.bots[a] = w.bots[a]
    <2>1. CASE Present(w, a)
      <3>1. let(a) \in Sane /\ Contents(let(a)) = Contents(w.bots[a]) /\ let(a).squad = w.bots[a].squad
        BY <1>9, <2>1
      <3>2. v.bots[a].state # "absent"
        BY <1>3, <3>1, AbsentIs DEF Sane
      <3> QED
        BY <1>3, <2>1, <3>1, <3>2 DEF Present
    <2>2. CASE ~Present(w, a)
      <3>1. let(a) = w.bots[a]
        BY <2>2 DEF Downed, Present
      <3> QED
        BY <1>3, <2>2, <3>1 DEF Present
    <2> QED
      BY <2>1, <2>2
  <1>13. ~Present(v, b)
    BY <1>4, AbsentIs DEF Present
  <1> HIDE DEF v, let, lain, end
  <1>14. /\ v.mines \in Seq(Armed)
         /\ \A k, l \in DOMAIN v.mines : v.mines[k].item = v.mines[l].item => k = l
         /\ Laid(v) = Laid(w) \ Buried(w, b)
         /\ \A j \in DOMAIN v.mines : \E k \in DOMAIN w.mines : v.mines[j] = w.mines[k] /\ w.mines[k].owner # b
         /\ \A a \in Bot : Cardinality(Owned(v, a)) <= MaxMines
         /\ \A i \in Buried(w, b) : i \in Item /\ w.dots[i] = None /\ i \in Laid(w) /\ \A a \in Bot : ~Has(w, a, i)
    BY <1>6, ClearedIs
  <1>15. v \in Worlds
    <2>1. v.bots \in [Bot -> Sane \union {Absent}]
      <3>1. \A a \in Bot : v.bots[a] \in Sane \union {Absent}
        BY <1>2, <1>4, <1>12
      <3>2. v.bots = [a \in Bot |-> v.bots[a]]
        <4>1. v.bots = [[a \in Bot |-> let(a)] EXCEPT ![b] = Absent]
          BY DEF v, Removed, let
        <4> QED
          BY <4>1
      <3> QED
        BY <3>1, <3>2
    <2>2. v.dots \in [Item -> Lain \union {None}] /\ v.gone \in [Item -> Ends]
      BY <1>6, <1>10, <1>11
    <2> QED
      BY <1>7, <1>14, <2>1, <2>2 DEF Worlds
  <1>16. \A a \in Bot \ {b}, i \in Item : Has(v, a, i) <=> Has(w, a, i)
    BY <1>12 DEF Has
  <1>17. Apart(v)
    <2>1. ASSUME NEW i \in Item PROVE One(v, i)
      <3>1. One(w, i) /\ v.gone[i] = end(i) /\ (v.dots[i] = None <=> w.dots[i] = None) /\ ~Has(v, b, i)
        BY <1>1, <1>6, <1>10, <1>13 DEF Apart, Has
      <3>2. CASE i \in Contents(w.bots[b])
        <4>1. Has(w, b, i) /\ v.gone[i] # None
          BY <3>1, <3>2, NoneIs DEF Has, end
        <4>2. \A a \in Bot : ~Has(v, a, i)
          BY <1>16, <3>1, <4>1 DEF One
        <4>3. v.dots[i] = None /\ i \notin Laid(v)
          BY <1>14, <3>1, <4>1 DEF One
        <4> QED
          BY <4>1, <4>2, <4>3 DEF One
      <3>3. CASE i \notin Contents(w.bots[b]) /\ i \in Buried(w, b)
        <4>1. v.gone[i] # None
          BY <3>1, <3>3, NoneIs DEF end
        <4>2. v.dots[i] = None /\ i \notin Laid(v) /\ \A a \in Bot : ~Has(v, a, i)
          BY <1>14, <1>16, <3>1, <3>3
        <4> QED
          BY <4>1, <4>2 DEF One
      <3>4. CASE i \notin Contents(w.bots[b]) /\ i \notin Buried(w, b)
        <4>1. v.gone[i] = w.gone[i] /\ (i \in Laid(v) <=> i \in Laid(w))
          BY <1>14, <3>1, <3>4 DEF end
        <4>2. \A a \in Bot : Has(v, a, i) <=> Has(w, a, i)
          BY <1>16, <3>1, <3>4 DEF Has
        <4> QED
          BY <3>1, <4>1, <4>2, OneKept
      <3> QED
        BY <3>2, <3>3, <3>4
    <2> QED
      BY <1>14, <2>1 DEF Apart
  <1>18. Allied(v)
    <2>1. ASSUME NEW j \in DOMAIN v.mines
          PROVE  Present(v, v.mines[j].owner) /\ v.mines[j].squad = v.bots[v.mines[j].owner].squad
      <3>1. PICK k \in DOMAIN w.mines : v.mines[j] = w.mines[k] /\ w.mines[k].owner # b
        BY <1>14
      <3>2. /\ w.mines[k].owner \in Bot /\ Present(w, w.mines[k].owner)
            /\ w.mines[k].squad = w.bots[w.mines[k].owner].squad
        BY <1>1, MinesAre DEF Allied
      <3> QED
        BY <1>12, <3>1, <3>2
    <2> QED
      BY <1>14, <2>1 DEF Allied
  <1>19. Capped(v)
    <2>1. \A a \in Bot : Present(v, a) => Present(w, a) /\ v.bots[a].squad = w.bots[a].squad
      BY <1>12, <1>13
    <2> QED
      BY <1>1, <2>1, CappedFewer
  <1>20. Sound(v)
    BY <1>15, <1>17, <1>18, <1>19 DEF Sound
  <1>21. \A i \in Item : v.dots[i] = lain(i)
    BY <1>6
  <1> QED
    BY <1>3, <1>13, <1>20, <1>21 DEF v, let, lain


(***************************************************************************)
(* What is earned.  Between ticks, and until the bots move, whoever has a  *)
(* Dot or a body in hand is there, and has been for as long.               *)
(***************************************************************************)
InHand(w) ==
  \A i \in Item : w.dots[i] # None /\ w.dots[i].by # None =>
    /\ Alive(w, w.dots[i].by) /\ w.bots[w.dots[i].by].place = w.dots[i].place
    /\ w.dots[i].progress <= w.bots[w.dots[i].by].stay

(* So is who covers a body; and the body has lain there as long.           *)
Covering(w) ==
  \A b \in Bot :
    /\ Alive(w, b) => w.bots[b].channel = NoChannel
    /\ Downed(w, b) /\ w.bots[b].channel.actor # None =>
         /\ Alive(w, w.bots[b].channel.actor) /\ Together(w, w.bots[b].channel.actor, b)
         /\ w.bots[b].channel.progress <= w.bots[b].stay
         /\ w.bots[b].channel.progress <= w.bots[w.bots[b].channel.actor].stay

Hands(w) == InHand(w) /\ Covering(w)

(* Progress at the extraction point is kept only on it, on one's feet.      *)
Waited(w, b) ==
  Present(w, b) /\ w.bots[b].exit # 0 =>
    Alive(w, b) /\ w.bots[b].place = Exit /\ w.bots[b].exit <= w.bots[b].stay

(* All progress is earned: what holds between ticks.                       *)
Settled(w) == Hands(w) /\ \A b \in Bot : Waited(w, b)

(* One more tick at the extraction point is earned. *)
Waiting(w, b) == Alive(w, b) /\ w.bots[b].place = Exit => w.bots[b].exit < w.bots[b].stay \/ w.bots[b].stay = Longest

(* The bodies are where and as they were. *)
Staying(w, v, b) ==
  /\ Present(v, b) <=> Present(w, b)
  /\ Present(w, b) => /\ v.bots[b].state = w.bots[b].state /\ v.bots[b].place = w.bots[b].place
                      /\ v.bots[b].stay = w.bots[b].stay /\ v.bots[b].channel = w.bots[b].channel

LEMMA StayingIs ==
  ASSUME NEW w, NEW v, NEW b \in Bot, Staying(w, v, b)
  PROVE  /\ Alive(v, b) <=> Alive(w, b)
         /\ Downed(v, b) <=> Downed(w, b)
         /\ Alive(w, b) \/ Downed(w, b) => /\ v.bots[b].place = w.bots[b].place /\ v.bots[b].stay = w.bots[b].stay
                                           /\ v.bots[b].channel = w.bots[b].channel
  BY DEF Staying, Alive, Downed, Present

LEMMA HandsKept ==
  ASSUME NEW w \in Worlds, Hands(w), NEW v, \A b \in Bot : Staying(w, v, b),
         \A i \in Item : v.dots[i] = w.dots[i] \/ v.dots[i] = None \/ v.dots[i].by = None
  PROVE  Hands(v)
  <1>1. \A b \in Bot : /\ Alive(v, b) <=> Alive(w, b)
                       /\ Downed(v, b) <=> Downed(w, b)
                       /\ Alive(w, b) \/ Downed(w, b) => /\ v.bots[b].place = w.bots[b].place
                                                         /\ v.bots[b].stay = w.bots[b].stay
                                                         /\ v.bots[b].channel = w.bots[b].channel
    BY StayingIs
  <1>2. InHand(v)
    <2>1. ASSUME NEW i \in Item, v.dots[i] # None, v.dots[i].by # None
          PROVE  /\ Alive(v, v.dots[i].by) /\ v.bots[v.dots[i].by].place = v.dots[i].place
                 /\ v.dots[i].progress <= v.bots[v.dots[i].by].stay
      <3>1. v.dots[i] = w.dots[i] /\ w.dots[i] \in Lain
        BY <2>1, WorldIs
      <3>2. w.dots[i].by \in Bot
        BY <2>1, <3>1 DEF Lain
      <3>3. /\ Alive(w, w.dots[i].by) /\ w.bots[w.dots[i].by].place = w.dots[i].place
            /\ w.dots[i].progress <= w.bots[w.dots[i].by].stay
        BY <2>1, <3>1 DEF Hands, InHand
      <3> QED
        BY <1>1, <3>1, <3>2, <3>3
    <2> QED
      BY <2>1 DEF InHand
  <1>3. Covering(v)
    <2>1. ASSUME NEW b \in Bot, Downed(v, b), v.bots[b].channel.actor # None
          PROVE  /\ Alive(v, v.bots[b].channel.actor) /\ Together(v, v.bots[b].channel.actor, b)
                 /\ v.bots[b].channel.progress <= v.bots[b].stay
                 /\ v.bots[b].channel.progress <= v.bots[v.bots[b].channel.actor].stay
      <3> DEFINE a == w.bots[b].channel.actor
      <3>1. Downed(w, b) /\ v.bots[b].channel = w.bots[b].channel
        BY <1>1, <2>1
      <3>2. w.bots[b].channel \in Channelings
        BY <3>1, PresentIs, BodyIs
      <3>3. a \in Bot
        BY <2>1, <3>1, <3>2 DEF Channelings
      <3>4. /\ Alive(w, a) /\ Together(w, a, b)
            /\ w.bots[b].channel.progress <= w.bots[b].stay
            /\ w.bots[b].channel.progress <= w.bots[a].stay
        BY <2>1, <3>1 DEF Hands, Covering
      <3> HIDE DEF a
      <3>5. Alive(v, a) /\ v.bots[a].place = w.bots[a].place /\ v.bots[a].stay = w.bots[a].stay
        BY <1>1, <3>3, <3>4
      <3>6. v.bots[b].place = w.bots[b].place /\ v.bots[b].stay = w.bots[b].stay
        BY <1>1, <3>1
      <3> QED
        BY <3>1, <3>4, <3>5, <3>6 DEF Together, a
    <2>2. \A b \in Bot : Alive(v, b) => v.bots[b].channel = NoChannel
      BY <1>1 DEF Hands, Covering
    <2> QED
      BY <2>1, <2>2 DEF Covering
  <1> QED
    BY <1>2, <1>3 DEF Hands

(* A body whose progress at the extraction point changes. *)
Waits(w, b, e) == [w EXCEPT !.bots[b].exit = e]

LEMMA WaitsIs ==
  ASSUME NEW w, Sound(w), NEW b \in Bot, Present(w, b), NEW e \in 0..(ExtractTicks - 1)
  PROVE  LET v == Waits(w, b, e)
         IN  /\ Sound(v) /\ v.dots = w.dots /\ \A a \in Bot \ {b} : v.bots[a] = w.bots[a]
             /\ v.bots[b].exit = e /\ \A a \in Bot : Staying(w, v, a)
  <1> DEFINE x == w.bots[b]
             y == [x EXCEPT !.exit = e]
             v == Waits(w, b, e)
  <1>1. w \in Worlds /\ x \in Sane /\ x \in Body
    BY PresentIs DEF Sound
  <1> HIDE DEF x
  <1>2. y \in Body
    BY <1>1 DEF Body
  <1>3. /\ y.bays = x.bays /\ y.hold = x.hold /\ y.swap = x.swap /\ y.squad = x.squad /\ y.state = x.state
        /\ y.stay = x.stay /\ y.channel = x.channel /\ y.place = x.place /\ y.exit = e
    BY <1>1 DEF Body
  <1>4. v = [w EXCEPT !.bots[b] = y]
    <2>1. w.bots \in [Bot -> Sane \union {Absent}]
      BY <1>1, WorldIs
    <2> QED
      BY <1>1, <2>1 DEF Waits, Worlds, x
  <1> HIDE DEF y, v
  <1>5. y \in Sane /\ Contents(y) = Contents(x)
    BY <1>1, <1>2, <1>3, StillSane
  <1>6. v \in Worlds /\ v.bots = [w.bots EXCEPT ![b] = y] /\ v.dots = w.dots /\ v.mines = w.mines /\ v.gone = w.gone
    BY ONLY b \in Bot, <1>1, <1>4, <1>5 DEF Worlds
  <1>7. Sound(v)
    <2>1. y.squad = w.bots[b].squad /\ Contents(y) = Contents(w.bots[b])
      BY <1>3, <1>5 DEF x
    <2> QED
      BY ONLY Sound(w), Present(w, b), b \in Bot, <1>1, <1>5, <1>6, <2>1, BodyKept
  <1>8. v.bots[b] = y /\ \A a \in Bot \ {b} : v.bots[a] = w.bots[a]
    BY <1>1, <1>6, WorldIs
  <1>9. \A a \in Bot : Staying(w, v, a)
    BY <1>3, <1>8 DEF Staying, Present, x
  <1> QED
    BY <1>3, <1>6, <1>7, <1>8, <1>9 DEF v


(* Who leaves lets go of everything; the others keep what they earned. *)
LEMMA RemovedKeeps ==
  ASSUME NEW w, Sound(w), NEW b \in Bot, Present(w, b), NEW where \in {"extracted", "lost"}
  PROVE  LET v == Removed(w, b, where)
         IN  /\ Hands(w) => Hands(v)
             /\ \A a \in Bot \ {b} : (Waited(w, a) => Waited(v, a)) /\ (Waiting(w, a) => Waiting(v, a))
  <1> DEFINE v == Removed(w, b, where)
             freed(a) == Downed(w, a) /\ w.bots[a].channel.actor = b
  <1>1. /\ Sound(v) /\ ~Present(v, b)
        /\ \A a \in Bot \ {b} : v.bots[a] = IF freed(a) THEN [w.bots[a] EXCEPT !.channel = NoChannel] ELSE w.bots[a]
        /\ \A i \in Item : v.dots[i] = IF w.dots[i] # None /\ w.dots[i].by = b
                                       THEN [w.dots[i] EXCEPT !.by = None] ELSE w.dots[i]
    BY RemovedIs
  <1> HIDE DEF v
  <1>2. w \in Worlds
    BY DEF Sound
  <1>3. ASSUME NEW a \in Bot \ {b}
        PROVE  /\ Present(v, a) <=> Present(w, a)
               /\ Alive(v, a) <=> Alive(w, a)
               /\ Downed(v, a) <=> Downed(w, a)
               /\ Present(w, a) => /\ v.bots[a].place = w.bots[a].place /\ v.bots[a].stay = w.bots[a].stay
                                   /\ v.bots[a].exit = w.bots[a].exit
                                   /\ v.bots[a].channel = IF freed(a) THEN NoChannel ELSE w.bots[a].channel
    <2>1. CASE freed(a)
      <3> DEFINE x == w.bots[a]
                 y == [x EXCEPT !.channel = NoChannel]
      <3>1. v.bots[a] = y /\ x \in Body
        BY <1>1, <1>2, <2>1, PresentIs
      <3> HIDE DEF x
      <3>2. y.state = x.state /\ y.place = x.place /\ y.stay = x.stay /\ y.exit = x.exit /\ y.channel = NoChannel
        BY <3>1 DEF Body
      <3> HIDE DEF y
      <3> QED
        BY <2>1, <3>1, <3>2 DEF Present, Alive, Downed, x
    <2>2. CASE ~freed(a)
      BY <1>1, <2>2 DEF Present, Alive, Downed
    <2> QED
      BY <2>1, <2>2
  <1>4. \A a \in Bot \ {b} : Waited(w, a) => Waited(v, a)
    BY <1>3 DEF Waited
  <1>5. \A a \in Bot \ {b} : Waiting(w, a) => Waiting(v, a)
    BY <1>2, <1>3, PresentIs DEF Waiting
  <1>6. ASSUME Hands(w) PROVE InHand(v)
    <2>1. ASSUME NEW i \in Item, v.dots[i] # None, v.dots[i].by # None
          PROVE  /\ Alive(v, v.dots[i].by) /\ v.bots[v.dots[i].by].place = v.dots[i].place
                 /\ v.dots[i].progress <= v.bots[v.dots[i].by].stay
      <3> DEFINE a == w.dots[i].by
      <3>1. w.dots[i] # None /\ w.dots[i] \in Lain
        <4>1. w.dots[i] # None
          BY <1>1, <2>1
        <4> QED
          BY <1>2, <4>1, WorldIs
      <3>2. a # b
        <4>1. [w.dots[i] EXCEPT !.by = None].by = None
          BY <3>1 DEF Lain
        <4> QED
          BY <1>1, <2>1, <3>1, <4>1
      <3>3. v.dots[i] = w.dots[i]
        BY <1>1, <3>2
      <3>4. a \in Bot \ {b}
        BY <2>1, <3>1, <3>2, <3>3 DEF Lain
      <3>5. Alive(w, a) /\ w.bots[a].place = w.dots[i].place /\ w.dots[i].progress <= w.bots[a].stay
        BY <1>6, <2>1, <3>3 DEF Hands, InHand
      <3>6. Present(w, a)
        BY <1>2, <3>4, <3>5, PresentIs
      <3> HIDE DEF a
      <3>7. Alive(v, a) /\ v.bots[a].place = w.bots[a].place /\ v.bots[a].stay = w.bots[a].stay
        BY <1>3, <3>4, <3>5, <3>6
      <3> QED
        BY <3>3, <3>5, <3>7 DEF a
    <2> QED
      BY <2>1 DEF InHand
  <1>7. ASSUME Hands(w) PROVE Covering(v)
    <2>1. ASSUME NEW d \in Bot, Alive(v, d) PROVE v.bots[d].channel = NoChannel
      <3>1. d \in Bot \ {b} /\ Present(w, d) /\ Alive(w, d)
        BY <1>1, <1>3, <2>1 DEF Alive, Present
      <3>2. w.bots[d].channel = NoChannel
        BY <1>7, <3>1 DEF Hands, Covering
      <3> QED
        BY <1>3, <3>1, <3>2
    <2>2. ASSUME NEW d \in Bot, Downed(v, d), v.bots[d].channel.actor # None
          PROVE  /\ Alive(v, v.bots[d].channel.actor) /\ Together(v, v.bots[d].channel.actor, d)
                 /\ v.bots[d].channel.progress <= v.bots[d].stay
                 /\ v.bots[d].channel.progress <= v.bots[v.bots[d].channel.actor].stay
      <3> DEFINE a == w.bots[d].channel.actor
      <3>1. d \in Bot \ {b} /\ Present(w, d) /\ Downed(w, d)
        BY <1>1, <1>3, <2>2 DEF Downed, Present
      <3>2. NoChannel.actor = None
        BY DEF NoChannel
      <3>3. ~freed(d) /\ v.bots[d].channel = w.bots[d].channel
        BY <1>3, <2>2, <3>1, <3>2
      <3>4. w.bots[d].channel \in Channelings
        BY <1>2, <3>1, PresentIs, BodyIs
      <3>5. a \in Bot \ {b}
        BY <2>2, <3>1, <3>3, <3>4 DEF Channelings
      <3>6. /\ Alive(w, a) /\ Together(w, a, d)
            /\ w.bots[d].channel.progress <= w.bots[d].stay
            /\ w.bots[d].channel.progress <= w.bots[a].stay
        BY <1>7, <2>2, <3>1, <3>3 DEF Hands, Covering
      <3>7. Present(w, a)
        BY <1>2, <3>5, <3>6, PresentIs
      <3> HIDE DEF a
      <3>8. Alive(v, a) /\ v.bots[a].place = w.bots[a].place /\ v.bots[a].stay = w.bots[a].stay
        BY <1>3, <3>5, <3>6, <3>7
      <3>9. v.bots[d].place = w.bots[d].place /\ v.bots[d].stay = w.bots[d].stay
        BY <1>3, <3>1
      <3> QED
        BY <3>3, <3>6, <3>8, <3>9 DEF Together, a
    <2> QED
      BY <2>1, <2>2 DEF Covering
  <1> QED
    BY <1>4, <1>5, <1>6, <1>7 DEF Hands, v

(* One bot at the extraction point, then all of them.                      *)
LEMMA ExtractedIs ==
  ASSUME NEW w, Sound(w), NEW b \in Bot
  PROVE  LET v == Extracted(w, b)
         IN  /\ Sound(v) /\ (Hands(w) => Hands(v))
             /\ Waiting(w, b) => Waited(v, b)
             /\ \A a \in Bot \ {b} : (Waited(w, a) => Waited(v, a)) /\ (Waiting(w, a) => Waiting(v, a))
  <1> DEFINE v == Extracted(w, b)
             e == w.bots[b].exit
  <1>1. w \in Worlds
    BY DEF Sound
  <1>2. CASE ~Present(w, b)
    <2>1. v = w
      BY <1>2 DEF Extracted
    <2> QED
      BY <1>2, <2>1 DEF Waited
  <1>3. CASE Present(w, b) /\ Extracting(w, b) /\ e + 1 >= ExtractTicks
    <2> DEFINE r == Removed(w, b, "extracted")
    <2>1. v = r
      BY <1>3 DEF Extracted
    <2>2. Sound(r) /\ ~Present(r, b)
      BY <1>3, RemovedIs
    <2>3. /\ Hands(w) => Hands(r)
          /\ \A a \in Bot \ {b} : (Waited(w, a) => Waited(r, a)) /\ (Waiting(w, a) => Waiting(r, a))
      BY <1>3, RemovedKeeps
    <2> HIDE DEF r, v
    <2>4. Waited(r, b)
      BY <2>2 DEF Waited
    <2> QED
      BY <2>1, <2>2, <2>3, <2>4 DEF v
  <1>4. ASSUME Present(w, b), NEW n \in 0..(ExtractTicks - 1), v = Waits(w, b, n),
               n = 0 \/ (Alive(w, b) /\ w.bots[b].place = Exit /\ n = e + 1)
        PROVE  /\ Sound(v) /\ (Hands(w) => Hands(v))
               /\ Waiting(w, b) => Waited(v, b)
               /\ \A a \in Bot \ {b} : (Waited(w, a) => Waited(v, a)) /\ (Waiting(w, a) => Waiting(v, a))
    <2> DEFINE u == Waits(w, b, n)
    <2>1. /\ Sound(u) /\ u.dots = w.dots /\ \A a \in Bot \ {b} : u.bots[a] = w.bots[a]
          /\ u.bots[b].exit = n /\ \A a \in Bot : Staying(w, u, a)
      BY <1>4, WaitsIs
    <2>2. v = u
      BY <1>4
    <2> HIDE DEF u, v
    <2>3. Hands(w) => Hands(u)
      BY <1>1, <2>1, HandsKept
    <2>4. \A a \in Bot \ {b} : (Waited(w, a) => Waited(u, a)) /\ (Waiting(w, a) => Waiting(u, a))
      BY <2>1 DEF Waited, Waiting, Alive, Present
    <2>5. ASSUME Waiting(w, b) PROVE Waited(u, b)
      <3>1. CASE n = 0
        BY <2>1, <3>1 DEF Waited
      <3>2. CASE n # 0
        <4>1. Alive(w, b) /\ w.bots[b].place = Exit /\ n = e + 1
          BY <1>4, <3>2
        <4>2. e < w.bots[b].stay \/ w.bots[b].stay = Longest
          BY <2>5, <4>1 DEF Waiting
        <4>3. e \in Nat /\ w.bots[b].stay \in Nat
          BY <1>1, <1>4, PresentIs, BodyIs, Sizes, LongestIs
        <4>4. n <= w.bots[b].stay
          BY <4>1, <4>2, <4>3, LongestIs, Sizes
        <4>5. Alive(u, b) /\ u.bots[b].place = Exit /\ u.bots[b].stay = w.bots[b].stay
          BY <2>1, <4>1, StayingIs
        <4> QED
          BY <2>1, <4>4, <4>5 DEF Waited
      <3> QED
        BY <3>1, <3>2
    <2> QED
      BY <2>1, <2>2, <2>3, <2>4, <2>5
  <1>5. CASE Present(w, b) /\ ~Extracting(w, b)
    <2>1. 0 \in 0..(ExtractTicks - 1)
      BY Sizes
    <2>2. v = Waits(w, b, 0)
      BY <1>5 DEF Extracted, Waits
    <2> HIDE DEF v
    <2> QED
      BY <1>4, <1>5, <2>1, <2>2 DEF v
  <1>6. CASE Present(w, b) /\ Extracting(w, b) /\ ~(e + 1 >= ExtractTicks)
    <2>1. e \in 0..(ExtractTicks - 1)
      BY <1>1, <1>6, PresentIs, BodyIs
    <2>2. e + 1 \in 0..(ExtractTicks - 1)
      BY <1>6, <2>1, Sizes
    <2>3. v = Waits(w, b, e + 1)
      BY <1>6 DEF Extracted, Waits
    <2>4. Alive(w, b) /\ w.bots[b].place = Exit
      BY <1>6 DEF Extracting
    <2> HIDE DEF v
    <2> QED
      BY <1>4, <1>6, <2>2, <2>3, <2>4 DEF v
  <1> QED
    BY <1>2, <1>3, <1>5, <1>6


LEMMA ExtractionResolvedIs ==
  ASSUME NEW w, Sound(w)
  PROVE  LET v == ExtractionResolved(w)
         IN  Sound(v) /\ (Hands(w) /\ (\A b \in Bot : Waiting(w, b)) => Settled(v))
  <1> DEFINE N == Cardinality(Bot)
             I == Order
             Step(x, d) == Extracted(x, d)
             P == {v \in Worlds : Sound(v)}
             F == [k \in 1..N |-> [x \in P |-> Step(x, I[k])]]
  <1>0. /\ N \in Nat /\ DOMAIN I = 1..N /\ \A n \in 1..N : I[n] \in Bot
        /\ \A n, m \in 1..N : I[n] = I[m] => n = m
        /\ \A b \in Bot : \E n \in 1..N : I[n] = b
    BY OrderIs
  <1>1. ASSUME NEW x \in P, NEW k \in 1..N
        PROVE  /\ Step(x, I[k]) \in P
               /\ Hands(x) => Hands(Step(x, I[k]))
               /\ Waiting(x, I[k]) => Waited(Step(x, I[k]), I[k])
               /\ \A a \in Bot \ {I[k]} : /\ Waited(x, a) => Waited(Step(x, I[k]), a)
                                          /\ Waiting(x, a) => Waiting(Step(x, I[k]), a)
    <2> DEFINE d == I[k]
               y == Extracted(x, d)
    <2>1. d \in Bot /\ Sound(x)
      BY <1>0
    <2>2. /\ Sound(y) /\ (Hands(x) => Hands(y))
          /\ Waiting(x, d) => Waited(y, d)
          /\ \A a \in Bot \ {d} : (Waited(x, a) => Waited(y, a)) /\ (Waiting(x, a) => Waiting(y, a))
      BY <2>1, ExtractedIs
    <2>3. y \in P
      BY <2>2 DEF Sound
    <2> QED
      BY <2>2, <2>3
  <1>2. w \in P
    BY DEF Sound
  <1> HIDE DEF P, N, I, Step
  <1>3. F \in [1..N -> [P -> P]]
    BY <1>1
  <1> HIDE DEF F
  <1>4. PICK g : Folded(g, P, w, N, F)
    BY ONLY <1>0, <1>2, <1>3, FoldExists
  <1> USE DEF F
  <1> DEFINE R(f) == f = [T \in SUBSET (1..N) |-> IF T = {} THEN w ELSE Step(f[T \ {Max(T)}], I[Max(T)])]
             h == CHOOSE f : R(f)
  <1>5. R(g)
    <2>1. ASSUME NEW T \in SUBSET (1..N), T # {}
          PROVE  F[Max(T)][g[T \ {Max(T)}]] = Step(g[T \ {Max(T)}], I[Max(T)])
      <3>1. Max(T) \in 1..N /\ T \ {Max(T)} \in SUBSET (1..N)
        BY <1>0, <2>1, WithoutGreatest
      <3> QED
        BY <1>4, <3>1 DEF Folded
    <2> QED
      BY <1>4, <2>1 DEF Folded
  <1>6. R(h)
    BY <1>5
  <1>8. ExtractionResolved(w) = h[DOMAIN Order]
    BY <1>0 DEF ExtractionResolved, FoldLeft, MapThenFoldSet, Step, I
  <1> HIDE DEF h
  <1>9. DOMAIN h = SUBSET (1..N) /\ h[{}] = w
    BY <1>6
  <1> DEFINE Ready == Hands(w) /\ \A b \in Bot : Waiting(w, b)
             Q == [T \in SUBSET (1..N) |->
                     {v \in P : Ready => /\ Hands(v)
                                         /\ \A n \in 1..N : IF n \in T THEN Waited(v, I[n]) ELSE Waiting(v, I[n])}]
  <1>10. \A T \in SUBSET (1..N) : T # {} /\ h[T \ {Max(T)}] \in Q[T \ {Max(T)}] => h[T] \in Q[T]
    <2> TAKE T \in SUBSET (1..N)
    <2> HAVE T # {} /\ h[T \ {Max(T)}] \in Q[T \ {Max(T)}]
    <2> DEFINE m == Max(T)
               L == T \ {m}
               x == h[L]
               y == h[T]
    <2>1. m \in 1..N /\ L \in SUBSET (1..N) /\ m \in T
      BY <1>0, WithoutGreatest, GreatestIs
    <2>2. y = Step(x, I[m])
      BY <1>6
    <2> HIDE DEF Ready
    <2>3. x \in P /\ (Ready => Hands(x) /\ \A n \in 1..N : IF n \in L THEN Waited(x, I[n]) ELSE Waiting(x, I[n]))
      BY <2>1
    <2> HIDE DEF x, y
    <2>4. /\ y \in P /\ (Hands(x) => Hands(y)) /\ (Waiting(x, I[m]) => Waited(y, I[m]))
          /\ \A a \in Bot \ {I[m]} : (Waited(x, a) => Waited(y, a)) /\ (Waiting(x, a) => Waiting(y, a))
      BY <1>1, <2>1, <2>2, <2>3
    <2>5. ASSUME Ready, NEW n \in 1..N
          PROVE  IF n \in T THEN Waited(y, I[n]) ELSE Waiting(y, I[n])
      <3>1. CASE n = m
        BY <2>1, <2>3, <2>4, <2>5, <3>1
      <3>2. CASE n # m
        <4>1. I[n] \in Bot \ {I[m]}
          BY <1>0, <2>1, <3>2
        <4>3. n \in T <=> n \in L
          BY <3>2
        <4> QED
          BY <2>3, <2>4, <2>5, <4>1, <4>3
      <3> QED
        BY <3>1, <3>2
    <2>6. y \in Q[T]
      BY <2>3, <2>4, <2>5
    <2> QED
      BY <2>6 DEF y
  <1>11. h[{}] \in Q[{}] /\ DOMAIN Q = SUBSET (1..N)
    <2>1. {} \in SUBSET (1..N)
      OBVIOUS
    <2> QED
      BY <1>0, <1>2, <1>9, <2>1
  <1> DEFINE v == h[1..N]
  <1>12. v \in Q[1..N]
    <2> HIDE DEF Q
    <2> QED
      BY ONLY <1>0, <1>9, <1>10, <1>11, FoldReaches
  <1> HIDE DEF v
  <1>13. v \in P /\ (Ready => Hands(v) /\ \A n \in 1..N : Waited(v, I[n]))
    BY <1>12
  <1>14. ExtractionResolved(w) = v
    BY <1>0, <1>8 DEF v, I
  <1>15. Ready => Settled(v)
    BY <1>0, <1>13 DEF Settled
  <1> QED
    BY <1>13, <1>14, <1>15 DEF P


(* What is owed while the bots move and fight: whoever is still there has  *)
(* earned it, and nothing is done to a body that has just been put down.   *)
Earned(w) ==
  /\ \A i \in Item : w.dots[i] # None /\ w.dots[i].by # None =>
       (Alive(w, w.dots[i].by) /\ w.bots[w.dots[i].by].place = w.dots[i].place =>
          w.dots[i].progress <= w.bots[w.dots[i].by].stay)
  /\ \A b \in Bot : Alive(w, b) =>
       /\ w.bots[b].channel = NoChannel
       /\ w.bots[b].place = Exit => w.bots[b].exit <= w.bots[b].stay
  /\ \A b \in Bot : Downed(w, b) /\ w.bots[b].channel.actor # None =>
       /\ w.bots[b].exit = 0
       /\ Alive(w, w.bots[b].channel.actor) /\ Together(w, w.bots[b].channel.actor, b) =>
            /\ w.bots[b].channel.progress <= w.bots[b].stay
            /\ w.bots[b].channel.progress <= w.bots[w.bots[b].channel.actor].stay

(* Between ticks more is owed than within one.                             *)
LEMMA SettledIsEarned ==
  ASSUME NEW w \in Worlds, Settled(w)
  PROVE  Earned(w)
  <1>1. ASSUME NEW b \in Bot, Alive(w, b)
        PROVE  /\ w.bots[b].channel = NoChannel
               /\ w.bots[b].place = Exit => w.bots[b].exit <= w.bots[b].stay
    <2>1. Present(w, b) /\ w.bots[b].stay \in Nat
      BY <1>1, PresentIs, BodyIs, LongestIs
    <2>2. w.bots[b].exit <= w.bots[b].stay
      <3>1. CASE w.bots[b].exit = 0
        BY <2>1, <3>1
      <3>2. CASE w.bots[b].exit # 0
        BY <2>1, <3>2 DEF Settled, Waited
      <3> QED
        BY <3>1, <3>2
    <2> QED
      BY <1>1, <2>2 DEF Settled, Hands, Covering
  <1>2. ASSUME NEW b \in Bot, Downed(w, b), w.bots[b].channel.actor # None
        PROVE  w.bots[b].exit = 0
    BY <1>2 DEF Settled, Waited, Alive, Downed, Present
  <1>3. \A b \in Bot : Downed(w, b) /\ w.bots[b].channel.actor # None =>
          /\ w.bots[b].channel.progress <= w.bots[b].stay
          /\ w.bots[b].channel.progress <= w.bots[w.bots[b].channel.actor].stay
    BY DEF Settled, Hands, Covering
  <1>4. \A i \in Item : w.dots[i] # None /\ w.dots[i].by # None =>
          w.dots[i].progress <= w.bots[w.dots[i].by].stay
    BY DEF Settled, Hands, InHand
  <1> QED
    BY <1>1, <1>2, <1>3, <1>4 DEF Earned

LEMMA QuietSettled ==
  ASSUME NEW w \in Worlds, Settled(w), NEW v, Quiet(w, v)
  PROVE  Settled(v)
  <1>1. \A b \in Bot : Staying(w, v, b)
    BY DEF Quiet, Stands, Staying
  <1>2. \A i \in Item : v.dots[i] = w.dots[i] \/ v.dots[i] = None \/ v.dots[i].by = None
    BY DEF Quiet
  <1>3. Hands(v)
    BY <1>1, <1>2, HandsKept DEF Settled
  <1>4. ASSUME NEW b \in Bot PROVE Waited(v, b)
    <2>1. Waited(w, b)
      BY DEF Settled
    <2> QED
      BY <2>1 DEF Waited, Quiet, Stands, Alive
  <1> QED
    BY <1>3, <1>4 DEF Settled

(* The bodies have grown a tick older: one more tick of each is earned. *)
Older(w) ==
  /\ \A b \in Bot : Present(w, b) => 1 <= w.bots[b].stay
  /\ \A b \in Bot : Alive(w, b) => w.bots[b].channel = NoChannel /\ Waiting(w, b)
  /\ \A b \in Bot : Downed(w, b) /\ w.bots[b].channel.actor # None =>
       /\ w.bots[b].exit = 0
       /\ Alive(w, w.bots[b].channel.actor) /\ Together(w, w.bots[b].channel.actor, b) =>
            \A a \in {b, w.bots[b].channel.actor} :
              w.bots[b].channel.progress < w.bots[a].stay \/ w.bots[a].stay = Longest

Fresh(w) ==
  \A i \in Item : w.dots[i] # None /\ w.dots[i].by # None =>
    (Alive(w, w.dots[i].by) /\ w.bots[w.dots[i].by].place = w.dots[i].place =>
       w.dots[i].progress < w.bots[w.dots[i].by].stay \/ w.bots[w.dots[i].by].stay = Longest)

(* A tick more for those who stayed: then every progress is below what was *)
(* stayed, and one tick of progress may be added.                          *)
LEMMA StayedOlder ==
  ASSUME NEW w, Sound(w), Earned(w)
  PROVE  Older(Stayed(w)) /\ Fresh(Stayed(w))
  <1> DEFINE x == Stayed(w)
  <1>1. w \in Worlds
    BY DEF Sound
  <1>2. /\ x.dots = w.dots
        /\ \A b \in Bot : Present(w, b) =>
             x.bots[b] = [w.bots[b] EXCEPT !.stay = IF w.bots[b].stay < Longest THEN w.bots[b].stay + 1 ELSE w.bots[b].stay]
        /\ \A b \in Bot : ~Present(w, b) => x.bots[b] = w.bots[b]
    BY StayedIs
  <1> HIDE DEF x
  <1>3. ASSUME NEW b \in Bot
        PROVE  /\ Present(x, b) <=> Present(w, b)
               /\ Alive(x, b) <=> Alive(w, b)
               /\ Downed(x, b) <=> Downed(w, b)
               /\ Present(w, b) => /\ x.bots[b].place = w.bots[b].place /\ x.bots[b].exit = w.bots[b].exit
                                   /\ x.bots[b].channel = w.bots[b].channel
                                   /\ w.bots[b].stay \in Nat /\ 1 <= x.bots[b].stay
                                   /\ x.bots[b].stay = Longest \/ x.bots[b].stay = w.bots[b].stay + 1
    <2>1. CASE Present(w, b)
      <3> DEFINE o == w.bots[b]
                 s == IF o.stay < Longest THEN o.stay + 1 ELSE o.stay
                 y == [o EXCEPT !.stay = s]
      <3>1. o \in Body /\ x.bots[b] = y
        BY <1>1, <1>2, <2>1, PresentIs
      <3>2. o.stay \in 0..Longest
        BY <3>1, BodyIs
      <3>3. o.stay \in Nat /\ 1 <= s /\ (s = Longest \/ s = o.stay + 1)
        BY <3>2, LongestIs
      <3> HIDE DEF s, o
      <3>4. y.state = o.state /\ y.place = o.place /\ y.exit = o.exit /\ y.channel = o.channel /\ y.stay = s
        BY <3>1 DEF Body
      <3> HIDE DEF y
      <3> QED
        BY <2>1, <3>1, <3>3, <3>4 DEF Present, Alive, Downed, o
    <2>2. CASE ~Present(w, b)
      BY <1>2, <2>2 DEF Present, Alive, Downed
    <2> QED
      BY <2>1, <2>2
  <1>4. \A b \in Bot : Alive(w, b) \/ Downed(w, b) => Present(w, b)
    BY <1>1, PresentIs
  <1>5. Fresh(x)
    <2>1. ASSUME NEW i \in Item, x.dots[i] # None, x.dots[i].by # None, Alive(x, x.dots[i].by),
                 x.bots[x.dots[i].by].place = x.dots[i].place
          PROVE  x.dots[i].progress < x.bots[x.dots[i].by].stay \/ x.bots[x.dots[i].by].stay = Longest
      <3> DEFINE a == w.dots[i].by
      <3>1. w.dots[i] \in Lain /\ w.dots[i].progress \in Nat
        <4>1. w.dots[i] \in Lain
          BY <1>1, <1>2, <2>1, WorldIs
        <4> QED
          BY <4>1, Sizes DEF Lain
      <3>2. a \in Bot
        BY <1>2, <2>1, <3>1 DEF Lain
      <3>3. Alive(w, a) /\ Present(w, a) /\ w.bots[a].place = w.dots[i].place
        BY <1>2, <1>3, <1>4, <2>1, <3>2
      <3>4. w.dots[i].progress <= w.bots[a].stay
        BY <1>2, <2>1, <3>3 DEF Earned
      <3>5. w.bots[a].stay \in Nat /\ (x.bots[a].stay = Longest \/ x.bots[a].stay = w.bots[a].stay + 1)
        BY <1>3, <3>2, <3>3
      <3> HIDE DEF a
      <3>6. w.dots[i].progress < x.bots[a].stay \/ x.bots[a].stay = Longest
        BY <3>1, <3>4, <3>5
      <3> QED
        BY <1>2, <3>6 DEF a
    <2> QED
      BY <2>1 DEF Fresh
  <1>6. ASSUME NEW b \in Bot, Alive(x, b) PROVE x.bots[b].channel = NoChannel /\ Waiting(x, b)
    <2>1. Alive(w, b) /\ Present(w, b)
      BY <1>3, <1>4, <1>6
    <2>2. w.bots[b].channel = NoChannel /\ (w.bots[b].place = Exit => w.bots[b].exit <= w.bots[b].stay)
      BY <2>1 DEF Earned
    <2>3. w.bots[b].exit \in Nat
      BY <1>1, <2>1, PresentIs, BodyIs, Sizes
    <2>4. /\ x.bots[b].place = w.bots[b].place /\ x.bots[b].exit = w.bots[b].exit
          /\ x.bots[b].channel = w.bots[b].channel /\ w.bots[b].stay \in Nat
          /\ x.bots[b].stay = Longest \/ x.bots[b].stay = w.bots[b].stay + 1
      BY <1>3, <2>1
    <2> QED
      BY <2>2, <2>3, <2>4 DEF Waiting
  <1>7. ASSUME NEW b \in Bot, Downed(x, b), x.bots[b].channel.actor # None
        PROVE  /\ x.bots[b].exit = 0
               /\ Alive(x, x.bots[b].channel.actor) /\ Together(x, x.bots[b].channel.actor, b) =>
                    \A a \in {b, x.bots[b].channel.actor} :
                      x.bots[b].channel.progress < x.bots[a].stay \/ x.bots[a].stay = Longest
    <2> DEFINE a == w.bots[b].channel.actor
               p == w.bots[b].channel.progress
    <2>1. Downed(w, b) /\ Present(w, b) /\ x.bots[b].channel = w.bots[b].channel
      BY <1>3, <1>4, <1>7
    <2>2. w.bots[b].channel \in Channelings
      BY <1>1, <2>1, PresentIs, BodyIs
    <2>3. a \in Bot /\ p \in Nat
      BY <1>7, <2>1, <2>2, LongestIs DEF Channelings
    <2>4. w.bots[b].exit = 0 /\ (Alive(w, a) /\ Together(w, a, b) => p <= w.bots[b].stay /\ p <= w.bots[a].stay)
      BY <1>7, <2>1 DEF Earned
    <2> HIDE DEF a, p
    <2>5. ASSUME Alive(x, a), Together(x, a, b)
          PROVE  /\ p < x.bots[a].stay \/ x.bots[a].stay = Longest
                 /\ p < x.bots[b].stay \/ x.bots[b].stay = Longest
      <3>1. Alive(w, a) /\ Present(w, a)
        BY <1>3, <1>4, <2>3, <2>5
      <3>2. Together(w, a, b)
        BY <1>3, <2>1, <2>3, <2>5, <3>1 DEF Together
      <3>3. p <= w.bots[b].stay /\ p <= w.bots[a].stay
        BY <2>4, <3>1, <3>2
      <3>4. w.bots[a].stay \in Nat /\ (x.bots[a].stay = Longest \/ x.bots[a].stay = w.bots[a].stay + 1)
        BY <1>3, <2>3, <3>1
      <3>5. w.bots[b].stay \in Nat /\ (x.bots[b].stay = Longest \/ x.bots[b].stay = w.bots[b].stay + 1)
        BY <1>3, <2>1
      <3> QED
        BY <2>3, <3>3, <3>4, <3>5
    <2>6. x.bots[b].exit = 0
      BY <1>3, <2>1, <2>4
    <2> QED
      BY <2>1, <2>5, <2>6 DEF a, p
  <1>8. \A b \in Bot : Present(x, b) => 1 <= x.bots[b].stay
    BY <1>3
  <1> QED
    BY <1>5, <1>6, <1>7, <1>8 DEF Older, x


LEMMA DotsOlder ==
  ASSUME NEW w, Sound(w), Older(w), Fresh(w), NEW v, Sound(v), Standing(w, v), \A i \in Item : Worked(w, i, v.dots[i])
  PROVE  Older(v) /\ InHand(v)
  <1>1. w \in Worlds /\ v \in Worlds
    BY DEF Sound
  <1>2. ASSUME NEW b \in Bot
        PROVE  /\ Present(v, b) <=> Present(w, b)
               /\ Alive(v, b) <=> Alive(w, b)
               /\ Downed(v, b) <=> Downed(w, b)
               /\ Present(w, b) => Stands(w.bots[b], v.bots[b])
    BY DEF Standing, Stands, Present, Alive, Downed
  <1>3. \A b \in Bot : Alive(w, b) \/ Downed(w, b) => Present(w, b)
    BY <1>1, PresentIs
  <1>4. InHand(v)
    <2>1. ASSUME NEW i \in Item, v.dots[i] # None, v.dots[i].by # None
          PROVE  /\ Alive(v, v.dots[i].by) /\ v.bots[v.dots[i].by].place = v.dots[i].place
                 /\ v.dots[i].progress <= v.bots[v.dots[i].by].stay
      <3> DEFINE d == v.dots[i]
                 b == d.by
                 o == w.dots[i]
      <3>1. /\ b \in Bot /\ Alive(w, b) /\ w.bots[b].place = d.place /\ o # None /\ o.place = d.place
            /\ d.progress < CaptureTicks
            /\ d.progress = 1 \/ (o.by = b /\ d.progress = o.progress + 1)
        BY <2>1 DEF Worked
      <3>2. Present(w, b) /\ w.bots[b] \in Body
        BY <1>1, <3>1, PresentIs
      <3>3. w.bots[b].stay \in Nat /\ 1 <= w.bots[b].stay
        BY <3>1, <3>2, BodyIs, LongestIs DEF Older
      <3>4. d \in Lain /\ d.progress \in Nat
        <4>1. d \in Lain
          BY <1>1, <2>1, WorldIs
        <4> QED
          BY <4>1, Sizes DEF Lain
      <3>5. CASE d.progress = 1
        BY <1>2, <3>1, <3>2, <3>3, <3>5 DEF Stands
      <3>6. CASE d.progress # 1
        <4>1. o.by = b /\ d.progress = o.progress + 1
          BY <3>1, <3>6
        <4>2. o \in Lain \union {None}
          BY <1>1, WorldIs
        <4>3. o # None
          BY <3>1
        <4>4. o \in Lain /\ o.progress \in Nat
          BY <4>2, <4>3, Sizes DEF Lain
        <4>5. o.progress < w.bots[b].stay \/ w.bots[b].stay = Longest
          BY <3>1, <4>1, <4>3, NoneIs DEF Fresh
        <4>6. d.progress <= w.bots[b].stay
          BY <3>1, <3>3, <3>4, <4>1, <4>4, <4>5, LongestIs, Sizes
        <4> QED
          BY <1>2, <3>1, <3>2, <4>6 DEF Stands
      <3> QED
        BY <3>5, <3>6
    <2> QED
      BY <2>1 DEF InHand
  <1>5. ASSUME NEW b \in Bot, Downed(v, b), v.bots[b].channel.actor # None
        PROVE  /\ v.bots[b].exit = 0
               /\ Alive(v, v.bots[b].channel.actor) /\ Together(v, v.bots[b].channel.actor, b) =>
                    \A a \in {b, v.bots[b].channel.actor} :
                      v.bots[b].channel.progress < v.bots[a].stay \/ v.bots[a].stay = Longest
    <2> DEFINE a == w.bots[b].channel.actor
               p == w.bots[b].channel.progress
    <2>1. Downed(w, b) /\ Present(w, b) /\ Stands(w.bots[b], v.bots[b])
      BY <1>2, <1>3, <1>5
    <2>2. v.bots[b].channel = w.bots[b].channel /\ v.bots[b].exit = w.bots[b].exit
      BY <2>1 DEF Stands
    <2>3. w.bots[b].channel \in Channelings
      BY <1>1, <2>1, PresentIs, BodyIs
    <2>4. a \in Bot
      BY <1>5, <2>2, <2>3 DEF Channelings
    <2>5. /\ w.bots[b].exit = 0
          /\ Alive(w, a) /\ Together(w, a, b) =>
               /\ p < w.bots[b].stay \/ w.bots[b].stay = Longest
               /\ p < w.bots[a].stay \/ w.bots[a].stay = Longest
      BY <1>5, <2>1, <2>2 DEF Older
    <2> HIDE DEF a, p
    <2>6. ASSUME Alive(v, a), Together(v, a, b)
          PROVE  /\ p < v.bots[b].stay \/ v.bots[b].stay = Longest
                 /\ p < v.bots[a].stay \/ v.bots[a].stay = Longest
      <3>1. Alive(w, a) /\ Present(w, a) /\ Stands(w.bots[a], v.bots[a])
        BY <1>2, <1>3, <2>4, <2>6
      <3>2. Together(w, a, b)
        BY <2>1, <2>6, <3>1 DEF Together, Stands
      <3> QED
        BY <2>1, <2>5, <3>1, <3>2 DEF Stands
    <2> QED
      BY <2>2, <2>5, <2>6 DEF a, p
  <1>6. ASSUME NEW b \in Bot, Alive(v, b) PROVE v.bots[b].channel = NoChannel /\ Waiting(v, b)
    <2>1. Alive(w, b) /\ Stands(w.bots[b], v.bots[b])
      BY <1>2, <1>3, <1>6
    <2>2. w.bots[b].channel = NoChannel /\ Waiting(w, b)
      BY <2>1 DEF Older
    <2> QED
      BY <2>1, <2>2 DEF Stands, Waiting
  <1>7. \A b \in Bot : Present(v, b) => 1 <= v.bots[b].stay
    BY <1>2 DEF Stands, Older
  <1> QED
    BY <1>4, <1>5, <1>6, <1>7 DEF Older

LEMMA BodiesReady ==
  ASSUME NEW w, Sound(w), Older(w), InHand(w), CoverTicks > 1, NEW v, Sound(v), v.dots = w.dots,
         \A d \in Bot : IF Downed(w, d) THEN Treated(w, d, v.bots[d]) ELSE v.bots[d] = w.bots[d]
  PROVE  Hands(v) /\ \A b \in Bot : Waiting(v, b)
  <1>1. w \in Worlds /\ v \in Worlds
    BY DEF Sound
  <1>2. \A b \in Bot : Alive(w, b) => Alive(v, b) /\ v.bots[b] = w.bots[b] /\ Present(w, b) /\ w.bots[b].stay \in Nat
    <2> TAKE b \in Bot
    <2> HAVE Alive(w, b)
    <2>1. ~Downed(w, b) /\ Present(w, b)
      BY <1>1, PresentIs DEF Alive, Downed
    <2>2. w.bots[b].stay \in Nat
      BY <1>1, <2>1, PresentIs, BodyIs, LongestIs
    <2> QED
      BY <2>1, <2>2 DEF Alive
  <1>3. InHand(v)
    <2>1. ASSUME NEW i \in Item, v.dots[i] # None, v.dots[i].by # None
          PROVE  /\ Alive(v, v.dots[i].by) /\ v.bots[v.dots[i].by].place = v.dots[i].place
                 /\ v.dots[i].progress <= v.bots[v.dots[i].by].stay
      <3>1. w.dots[i] \in Lain
        BY <1>1, <2>1, WorldIs
      <3>2. w.dots[i].by \in Bot
        BY <2>1, <3>1 DEF Lain
      <3>3. /\ Alive(w, w.dots[i].by) /\ w.bots[w.dots[i].by].place = w.dots[i].place
            /\ w.dots[i].progress <= w.bots[w.dots[i].by].stay
        BY <2>1 DEF InHand
      <3> QED
        BY <1>2, <3>2, <3>3
    <2> QED
      BY <2>1 DEF InHand
  <1>4. ASSUME NEW b \in Bot, Alive(v, b), Downed(w, b)
        PROVE  v.bots[b].channel = NoChannel /\ v.bots[b].exit = 0 /\ v.bots[b].stay = 1
    <2>1. v.bots[b].state = "alive"
      BY <1>4 DEF Alive
    <2>2. /\ v.bots[b].stay = 1 /\ v.bots[b].channel = NoChannel /\ v.bots[b].exit = w.bots[b].exit
          /\ w.bots[b].channel.actor \in Bot
      BY <1>4, <2>1 DEF Treated
    <2>3. w.bots[b].exit = 0
      BY <1>4, <2>2, NoneIs DEF Older
    <2> QED
      BY <2>2, <2>3
  <1>5. ASSUME NEW b \in Bot, Alive(v, b) PROVE v.bots[b].channel = NoChannel /\ Waiting(v, b)
    <2>1. CASE Downed(w, b)
      BY <1>4, <1>5, <2>1 DEF Waiting
    <2>2. CASE ~Downed(w, b)
      <3>1. v.bots[b] = w.bots[b] /\ Alive(w, b)
        BY <1>5, <2>2 DEF Alive
      <3> QED
        BY <3>1 DEF Older, Waiting
    <2> QED
      BY <2>1, <2>2
  <1>6. ASSUME NEW b \in Bot, Downed(v, b), v.bots[b].channel.actor # None
        PROVE  /\ Alive(v, v.bots[b].channel.actor) /\ Together(v, v.bots[b].channel.actor, b)
               /\ v.bots[b].channel.progress <= v.bots[b].stay
               /\ v.bots[b].channel.progress <= v.bots[v.bots[b].channel.actor].stay
    <2> DEFINE c == v.bots[b].channel
               a == c.actor
               o == w.bots[b].channel
    <2>1. Downed(w, b)
      <3>1. ~Alive(w, b)
        BY <1>2, <1>6 DEF Alive, Downed
      <3>2. ~Downed(w, b) => v.bots[b] = w.bots[b]
        OBVIOUS
      <3> QED
        BY <1>6, <3>2 DEF Downed
    <2>2. /\ Treated(w, b, v.bots[b]) /\ v.bots[b].state = "downed" /\ NoChannel.actor = None
      BY <1>6, <2>1 DEF Downed, NoChannel
    <2>3. /\ v.bots[b].stay = w.bots[b].stay /\ v.bots[b].place = w.bots[b].place
          /\ a \in Bot /\ Alive(w, a) /\ Together(w, a, b)
          /\ c.progress = 1 \/ (a = o.actor /\ c.progress = o.progress + 1)
      BY <1>6, <2>2 DEF Treated
    <2>4. Present(w, b) /\ w.bots[b].stay \in Nat /\ 1 <= w.bots[b].stay /\ o \in Channelings
      BY <1>1, <2>1, PresentIs, BodyIs, LongestIs DEF Older
    <2>5. Alive(v, a) /\ v.bots[a] = w.bots[a] /\ Present(w, a) /\ w.bots[a].stay \in Nat /\ 1 <= w.bots[a].stay
      BY <1>2, <2>3 DEF Older
    <2>6. c \in Channelings
      <3>1. Present(v, b)
        BY <1>1, <1>6, PresentIs
      <3> QED
        BY <1>1, <3>1, PresentIs, BodyIs
    <2>7. c.progress \in 0..Longest /\ o.progress \in 0..Longest
      BY <2>4, <2>6 DEF Channelings
    <2> HIDE DEF c, o
    <2>8. c.progress <= w.bots[b].stay /\ c.progress <= w.bots[a].stay
      <3>1. CASE c.progress = 1
        BY <2>4, <2>5, <3>1
      <3>2. CASE c.progress # 1
        <4>1. a = o.actor /\ c.progress = o.progress + 1
          BY <2>3, <3>2
        <4>2. /\ o.progress < w.bots[b].stay \/ w.bots[b].stay = Longest
              /\ o.progress < w.bots[a].stay \/ w.bots[a].stay = Longest
          BY <2>1, <2>3, <4>1, NoneIs DEF Older, o
        <4> QED
          BY <2>4, <2>5, <2>7, <4>1, <4>2, LongestIs
      <3> QED
        BY <3>1, <3>2
    <2> QED
      BY <2>3, <2>5, <2>8 DEF c, Together
  <1>7. Covering(v)
    BY <1>5, <1>6 DEF Covering
  <1>8. \A b \in Bot : Waiting(v, b)
    BY <1>5 DEF Waiting
  <1> QED
    BY <1>3, <1>7, <1>8 DEF Hands


(* After the channels everything is settled again.                         *)
LEMMA SettledKept ==
  ASSUME NEW w \in Worlds, Settled(w), NEW v, \A b \in Bot : Staying(w, v, b),
         \A b \in Bot : Present(w, b) => v.bots[b].exit = w.bots[b].exit, v.dots = w.dots
  PROVE  Settled(v)
  <1>1. Hands(v)
    BY HandsKept DEF Settled
  <1>2. ASSUME NEW b \in Bot PROVE Waited(v, b)
    <2>1. Waited(w, b) /\ Staying(w, v, b)
      BY DEF Settled
    <2> QED
      BY <2>1 DEF Waited, Staying, Alive
  <1> QED
    BY <1>1, <1>2 DEF Settled

(* Whoever walks away leaves behind what it had in hand. *)
LEMMA WalkEarned ==
  ASSUME NEW w \in Worlds, Settled(w), NEW v, v.dots = w.dots,
         \A b \in Bot : \/ v.bots[b] = w.bots[b]
                        \/ /\ Alive(w, b) /\ Alive(v, b) /\ v.bots[b].place # w.bots[b].place /\ v.bots[b].stay = 0
                           /\ v.bots[b].exit = w.bots[b].exit /\ v.bots[b].channel = w.bots[b].channel
  PROVE  Earned(v)
  <1> DEFINE moved(b) == v.bots[b] # w.bots[b]
  <1>1. \A b \in Bot : /\ Alive(v, b) <=> Alive(w, b)
                       /\ Downed(v, b) => Downed(w, b) /\ v.bots[b] = w.bots[b]
    BY DEF Alive, Downed
  <1>2. ASSUME NEW i \in Item, v.dots[i] # None, v.dots[i].by # None, Alive(v, v.dots[i].by),
               v.bots[v.dots[i].by].place = v.dots[i].place
        PROVE  v.dots[i].progress <= v.bots[v.dots[i].by].stay
    <2> DEFINE a == v.dots[i].by
    <2>1. w.dots[i] \in Lain
      BY <1>2, WorldIs
    <2>2. a \in Bot
      BY <1>2, <2>1 DEF Lain
    <2>3. w.bots[a].place = w.dots[i].place /\ w.dots[i].progress <= w.bots[a].stay
      BY <1>2 DEF Settled, Hands, InHand
    <2>4. v.bots[a] = w.bots[a]
      BY <1>2, <2>2, <2>3
    <2> QED
      BY <2>3, <2>4
  <1>3. ASSUME NEW b \in Bot, Alive(v, b)
        PROVE  /\ v.bots[b].channel = NoChannel
               /\ v.bots[b].place = Exit => v.bots[b].exit <= v.bots[b].stay
    <2>1. Alive(w, b) /\ Present(w, b)
      BY <1>1, <1>3, PresentIs
    <2>2. w.bots[b].channel = NoChannel /\ Earned(w)
      BY <2>1, SettledIsEarned DEF Settled, Hands, Covering
    <2>3. CASE v.bots[b] = w.bots[b]
      BY <2>1, <2>2, <2>3 DEF Earned
    <2>4. CASE v.bots[b] # w.bots[b]
      <3>1. w.bots[b].place = v.bots[b].place \/ v.bots[b].place # Exit \/ w.bots[b].exit = 0
        BY <2>1 DEF Settled, Waited
      <3> QED
        BY <2>2, <2>4, <3>1
    <2> QED
      BY <2>3, <2>4
  <1>4. ASSUME NEW b \in Bot, Downed(v, b), v.bots[b].channel.actor # None
        PROVE  /\ v.bots[b].exit = 0
               /\ Alive(v, v.bots[b].channel.actor) /\ Together(v, v.bots[b].channel.actor, b) =>
                    /\ v.bots[b].channel.progress <= v.bots[b].stay
                    /\ v.bots[b].channel.progress <= v.bots[v.bots[b].channel.actor].stay
    <2> DEFINE a == w.bots[b].channel.actor
    <2>1. Downed(w, b) /\ v.bots[b] = w.bots[b] /\ Present(w, b)
      BY <1>1, <1>4, PresentIs
    <2>2. w.bots[b].channel \in Channelings
      BY <2>1, PresentIs, BodyIs
    <2>3. a \in Bot
      BY <1>4, <2>1, <2>2 DEF Channelings
    <2>4. /\ Together(w, a, b) /\ w.bots[b].channel.progress <= w.bots[b].stay
          /\ w.bots[b].channel.progress <= w.bots[a].stay
      BY <1>4, <2>1 DEF Settled, Hands, Covering
    <2>5. w.bots[b].exit = 0
      BY <1>4, <2>1, SettledIsEarned DEF Earned
    <2>6. Together(v, a, b) => v.bots[a] = w.bots[a]
      BY <2>1, <2>3, <2>4 DEF Together
    <2> HIDE DEF a
    <2>7. Together(v, a, b) => w.bots[b].channel.progress <= v.bots[a].stay
      BY <2>4, <2>6
    <2> QED
      BY <2>1, <2>4, <2>5, <2>7 DEF a
  <1> QED
    BY <1>2, <1>3, <1>4 DEF Earned

(* Whoever is hit is alive, and nothing is done to it yet. *)
LEMMA HitEarned ==
  ASSUME NEW w \in Worlds, Earned(w), NEW b \in Bot, Alive(w, b), NEW y \in Struck(w.bots[b]),
         NEW v, v.bots = [w.bots EXCEPT ![b] = y], v.dots = w.dots
  PROVE  Earned(v)
  <1> DEFINE x == w.bots[b]
  <1>1. x \in Sane /\ x \in Body /\ x.state = "alive"
    BY PresentIs DEF Alive
  <1>2. /\ y.place = x.place /\ y.channel = x.channel /\ y.exit = x.exit
        /\ (y.state = x.state /\ y.stay = x.stay) \/ (y.state = "downed" /\ y.stay = 0)
    BY <1>1, HitStands
  <1>3. v.bots[b] = y /\ \A a \in Bot \ {b} : v.bots[a] = w.bots[a]
    BY WorldIs
  <1>4. x.channel = NoChannel /\ NoChannel.actor = None
    BY DEF Earned, NoChannel
  <1>5. \A a \in Bot : Alive(v, a) => /\ Alive(w, a) /\ v.bots[a].place = w.bots[a].place
                                      /\ v.bots[a].stay = w.bots[a].stay /\ v.bots[a].channel = w.bots[a].channel
                                      /\ v.bots[a].exit = w.bots[a].exit
    <2> TAKE a \in Bot
    <2> HAVE Alive(v, a)
    <2>1. CASE a = b
      <3>1. y.state = "alive"
        BY <1>3, <2>1 DEF Alive
      <3> QED
        BY <1>2, <1>3, <2>1, <3>1
    <2>2. CASE a # b
      BY <1>3, <2>2 DEF Alive
    <2> QED
      BY <2>1, <2>2
  <1>6. \A a \in Bot : Downed(v, a) /\ v.bots[a].channel.actor # None => a # b /\ Downed(w, a) /\ v.bots[a] = w.bots[a]
    <2> TAKE a \in Bot
    <2> HAVE Downed(v, a) /\ v.bots[a].channel.actor # None
    <2>1. a # b
      BY <1>2, <1>3, <1>4
    <2> QED
      BY <1>3, <2>1 DEF Downed
  <1>7. ASSUME NEW i \in Item, v.dots[i] # None, v.dots[i].by # None, Alive(v, v.dots[i].by),
               v.bots[v.dots[i].by].place = v.dots[i].place
        PROVE  v.dots[i].progress <= v.bots[v.dots[i].by].stay
    <2>1. w.dots[i] \in Lain
      BY <1>7, WorldIs
    <2>2. v.dots[i].by \in Bot
      BY <1>7, <2>1 DEF Lain
    <2> QED
      BY <1>5, <1>7, <2>2 DEF Earned
  <1>8. ASSUME NEW d \in Bot, Downed(v, d), v.bots[d].channel.actor # None
        PROVE  /\ v.bots[d].exit = 0
               /\ Alive(v, v.bots[d].channel.actor) /\ Together(v, v.bots[d].channel.actor, d) =>
                    /\ v.bots[d].channel.progress <= v.bots[d].stay
                    /\ v.bots[d].channel.progress <= v.bots[v.bots[d].channel.actor].stay
    <2> DEFINE a == w.bots[d].channel.actor
    <2>1. Downed(w, d) /\ v.bots[d] = w.bots[d] /\ Present(w, d)
      BY <1>6, <1>8, PresentIs
    <2>2. a \in Bot
      <3>1. w.bots[d].channel \in Channelings
        BY <2>1, PresentIs, BodyIs
      <3> QED
        BY <1>8, <2>1, <3>1 DEF Channelings
    <2>3. /\ w.bots[d].exit = 0
          /\ Alive(w, a) /\ Together(w, a, d) =>
               w.bots[d].channel.progress <= w.bots[d].stay /\ w.bots[d].channel.progress <= w.bots[a].stay
      BY <1>8, <2>1 DEF Earned
    <2> HIDE DEF a
    <2>4. Alive(v, a) /\ Together(v, a, d) => Alive(w, a) /\ Together(w, a, d) /\ v.bots[a].stay = w.bots[a].stay
      BY <1>5, <2>1, <2>2 DEF Together
    <2> QED
      BY <2>1, <2>3, <2>4 DEF a
  <1>9. \A a \in Bot : Alive(v, a) => /\ v.bots[a].channel = NoChannel
                                      /\ v.bots[a].place = Exit => v.bots[a].exit <= v.bots[a].stay
    BY <1>5 DEF Earned
  <1> QED
    BY <1>7, <1>8, <1>9 DEF Earned


(***************************************************************************)
(* The run.                                                                *)
(***************************************************************************)
(* A body as it is spawned has what the scene gives it, and no more. *)
LEMMA SpawnedIs ==
  ASSUME NEW s, NEW at \in Place,
         s \in [control : Controls, squad : Squad, bays : [1..BaySlots -> Item \union {None}],
                hold : Seq(Item), does : SUBSET Deeds],
         Len(s.hold) <= HoldSlots, Tidy(s)
  PROVE  LET x == Spawned(s, at)
         IN  /\ x \in Sane /\ Contents(x) = Contents(s) /\ x.squad = s.squad /\ x.state = "alive"
             /\ x.channel = NoChannel /\ x.exit = 0
  <1> DEFINE x == Spawned(s, at)
  <1>1. NoInput \in Inputs /\ NoChannel \in Channelings
    BY NoInputIs, LongestIs DEF NoChannel, Channelings
  <1>2. 0 \in 0..(ExtractTicks - 1) /\ 0 \in 0..Longest /\ MaxPlates \in 0..MaxPlates
    BY Sizes, LongestIs
  <1>3. /\ s.control \in Controls /\ s.squad \in Squad /\ s.bays \in [1..BaySlots -> Item \union {None}]
        /\ s.hold \in Seq(Item) /\ s.does \in SUBSET Deeds
    OBVIOUS
  <1>4. /\ x.bays = s.bays /\ x.hold = s.hold /\ x.swap = None /\ x.squad = s.squad /\ x.state = "alive"
        /\ x.channel = NoChannel /\ x.exit = 0
    BY DEF Spawned
  <1>5. x \in Body
    BY <1>1, <1>2, <1>3 DEF Spawned, Body
  <1> HIDE DEF x
  <1>6. Contents(x) = Contents(s) /\ Tidy(x)
    BY <1>4, SlotsDecide
  <1>7. AsChosen(x)
    BY <1>4 DEF AsChosen
  <1>8. x \in Sane
    BY <1>4, <1>5, <1>6, <1>7 DEF Sane
  <1> QED
    BY <1>4, <1>6, <1>8 DEF x

Phases == {"idle", "move", "mines", "combat"}

Run == Sound(World) /\ phase \in Phases /\ fighters \subseteq Bot

(* From the operators to the actions of the specification.                 *)
LEMMA WorldFields ==
  World.bots = bots /\ World.dots = dots /\ World.mines = mines /\ World.gone = gone
  BY DEF World

LEMMA InitRun ==
  ASSUME Init
  PROVE  Run /\ Settled(World)
  <1>1. PICK s \in Scene :
          /\ bots = [b \in Bot |-> IF b \in DOMAIN s.bots THEN Spawned(s.bots[b], s.at) ELSE Absent]
          /\ dots = [i \in Item |-> IF i \in s.dots THEN Lying(s.at) ELSE None]
          /\ gone = [i \in Item |-> IF i \in s.items THEN None ELSE "unused"]
    BY DEF Init
  <1>2. mines = <<>> /\ phase = "idle" /\ fighters = {}
    BY DEF Init
  <1> DEFINE B == DOMAIN s.bots
  <1>3. /\ B \subseteq Bot /\ s.at \in Place /\ s.dots \subseteq Item
        /\ \A b \in B :
             /\ s.bots[b] \in [control : Controls, squad : Squad, bays : [1..BaySlots -> Item \union {None}],
                               hold : Seq(Item), does : SUBSET Deeds]
             /\ Len(s.bots[b].hold) <= HoldSlots /\ Tidy(s.bots[b])
             /\ Contents(s.bots[b]) \intersect s.dots = {}
             /\ \A a \in B \ {b} : Contents(s.bots[a]) \intersect Contents(s.bots[b]) = {}
        /\ s.items = s.dots \union UNION {Contents(s.bots[b]) : b \in B}
        /\ \A q \in Squad : Cardinality({b \in B : s.bots[b].squad = q}) <= MaxSquad
    BY SceneAssumption
  <1> DEFINE w == World
  <1>4. w.bots = bots /\ w.dots = dots /\ w.mines = mines /\ w.gone = gone
    BY WorldFields
  <1>5. ASSUME NEW b \in B
        PROVE  /\ Present(w, b) /\ Alive(w, b) /\ w.bots[b] \in Sane /\ Contents(w.bots[b]) = Contents(s.bots[b])
               /\ w.bots[b].squad = s.bots[b].squad /\ w.bots[b].channel = NoChannel /\ w.bots[b].exit = 0
    <2>1. w.bots[b] = Spawned(s.bots[b], s.at)
      BY <1>1, <1>3, <1>4
    <2> DEFINE x == Spawned(s.bots[b], s.at)
    <2>2. /\ x \in Sane /\ Contents(x) = Contents(s.bots[b]) /\ x.squad = s.bots[b].squad /\ x.state = "alive"
          /\ x.channel = NoChannel /\ x.exit = 0
      BY <1>3, SpawnedIs
    <2> HIDE DEF x
    <2> QED
      BY <2>1, <2>2 DEF x, Present, Alive
  <1>6. \A b \in Bot \ B : w.bots[b] = Absent /\ ~Present(w, b)
    BY <1>1, <1>4, AbsentIs DEF Present
  <1>7. \A i \in Item : w.dots[i] = IF i \in s.dots THEN Lying(s.at) ELSE None
    BY <1>1, <1>4
  <1>8. Lying(s.at) \in Lain /\ Lying(s.at).by = None /\ Lying(s.at) # None
    BY <1>3, LyingIs, NoneIs
  <1>9. w \in Worlds
    <2>1. w.bots \in [Bot -> Sane \union {Absent}]
      <3>1. \A b \in Bot : w.bots[b] \in Sane \union {Absent}
        BY <1>5, <1>6
      <3>2. DOMAIN w.bots = Bot /\ w.bots = [b \in Bot |-> w.bots[b]]
        BY <1>1, <1>4
      <3> QED
        BY <3>1, <3>2
    <2>2. w.dots \in [Item -> Lain \union {None}]
      BY <1>1, <1>4, <1>8
    <2>3. w.gone \in [Item -> Ends]
      BY <1>1, <1>4 DEF Ends
    <2>4. w.mines \in Seq(Armed)
      BY <1>2, <1>4
    <2> QED
      BY <1>4, <2>1, <2>2, <2>3, <2>4 DEF World, Worlds
  <1>10. DOMAIN w.mines = {} /\ Laid(w) = {}
    BY <1>2, <1>4 DEF Laid
  <1>11. w.gone = [i \in Item |-> IF i \in s.items THEN None ELSE "unused"]
    BY <1>1, <1>4
  <1> HIDE DEF w
  <1>12. \A b \in Bot, i \in Item : Has(w, b, i) <=> b \in B /\ i \in Contents(s.bots[b])
    BY <1>5, <1>6 DEF Has
  <1>13. Apart(w)
    <2>1. ASSUME NEW i \in Item PROVE One(w, i)
      <3>1. w.dots[i] # None <=> i \in s.dots
        BY <1>7, <1>8
      <3>2. w.gone[i] = None <=> i \in s.items
        BY <1>11, NoneIs
      <3>3. i \in s.items <=> i \in s.dots \/ \E b \in B : i \in Contents(s.bots[b])
        BY <1>3
      <3>4. \A b \in B : i \in Contents(s.bots[b]) => i \notin s.dots
        BY <1>3
      <3>5. \A a, b \in B : i \in Contents(s.bots[a]) /\ i \in Contents(s.bots[b]) => a = b
        BY <1>3
      <3>6. (\E b \in Bot : Has(w, b, i)) <=> \E b \in B : i \in Contents(s.bots[b])
        BY <1>3, <1>12
      <3> QED
        BY <1>10, <1>12, <3>1, <3>2, <3>3, <3>4, <3>5, <3>6 DEF One
    <2> QED
      BY <1>10, <2>1 DEF Apart
  <1>14. Allied(w)
    <2>1. ASSUME NEW b \in Bot PROVE Cardinality(Owned(w, b)) <= MaxMines
      <3>1. Owned(w, b) = {}
        BY <1>10 DEF Owned
      <3> QED
        BY <3>1, FS_EmptySet, Sizes
    <2> QED
      BY <1>10, <2>1 DEF Allied
  <1>15. Capped(w)
    <2>1. ASSUME NEW q \in Squad PROVE SquadSize(w, q) <= MaxSquad
      <3>1. {b \in Bot : Present(w, b) /\ w.bots[b].squad = q} = {b \in B : s.bots[b].squad = q}
        BY <1>3, <1>5, <1>6
      <3>2. SquadSize(w, q) = Cardinality({b \in B : s.bots[b].squad = q})
        BY <3>1 DEF SquadSize
      <3> QED
        BY <1>3, <3>2
    <2> QED
      BY <2>1 DEF Capped
  <1>16. Settled(w)
    <2>1. InHand(w)
      BY <1>7, <1>8 DEF InHand
    <2>2. \A b \in Bot : ~Downed(w, b)
      BY <1>5, <1>6, AbsentIs DEF Downed, Alive
    <2>3. \A b \in Bot : Alive(w, b) => b \in B
      BY <1>6 DEF Alive, Present
    <2>4. Covering(w)
      BY <1>5, <2>2, <2>3 DEF Covering
    <2>5. \A b \in Bot : Waited(w, b)
      BY <1>5, <1>6 DEF Waited
    <2> QED
      BY <2>1, <2>4, <2>5 DEF Settled, Hands
  <1>17. Sound(w)
    BY <1>9, <1>13, <1>14, <1>15 DEF Sound
  <1> QED
    BY <1>2, <1>16, <1>17 DEF w, Run, Phases


(* What is earned between ticks, and owed within them. *)
Due == CoverTicks > 1 => IF phase \in {"idle", "move"} THEN Settled(World) ELSE Earned(World)

Inv == Run /\ Due

(* Every action has the next world computed by an operator from this one.  *)
LEMMA BecomesIs ==
  ASSUME NEW v \in Worlds, Becomes(v)
  PROVE  World' = v
  BY DEF Becomes, World, Worlds

LEMMA RunNext ==
  ASSUME NEW v, Sound(v), World' = v, phase' \in Phases, fighters' \subseteq Bot,
         CoverTicks > 1 => IF phase' \in {"idle", "move"} THEN Settled(v) ELSE Earned(v)
  PROVE  Inv'
  BY DEF Inv, Run, Due

(* The actions, one by one, on Inv.                                        *)
LEMMA PressKeeps ==
  ASSUME Inv, NEW b \in Bot, Press(b)
  PROVE  Inv'
  <1> DEFINE w == World
             in == bots[b].input
  <1>1. Sound(w) /\ w \in Worlds /\ phase \in Phases /\ fighters \subseteq Bot
    BY DEF Inv, Run, Sound
  <1>2. /\ phase = "idle" /\ phase' = phase /\ fighters' = fighters /\ dots' = dots /\ mines' = mines /\ gone' = gone
        /\ Present(w, b)
    BY DEF Press, Controlled
  <1>3. w.bots = bots /\ w.dots = dots /\ w.mines = mines /\ w.gone = gone
    BY WorldFields
  <1>4. bots[b] \in Body /\ in \in Inputs /\ bots \in [Bot -> Sane \union {Absent}]
    BY <1>1, <1>2, <1>3, PresentIs, BodyIs, WorldIs
  <1>5. ASSUME NEW i \in Inputs, bots' = [bots EXCEPT ![b].input = i]
        PROVE  Inv'
    <2> DEFINE v == [w EXCEPT !.bots[b].input = i]
    <2>1. Keeps(w, v)
      BY <1>1, <1>2, InputKeeps
    <2>2. World' = v
      BY <1>1, <1>2, <1>3, <1>5 DEF World
    <2> HIDE DEF v
    <2>3. CoverTicks > 1 => Settled(v)
      BY <1>1, <1>2, <2>1, QuietSettled DEF Inv, Due, Keeps
    <2>4. Sound(v)
      BY <2>1 DEF Keeps
    <2> HIDE DEF w
    <2> QED
      BY <1>1, <1>2, <2>2, <2>3, <2>4, RunNext
  <1>6. ASSUME NEW k \in DOMAIN Requests, NEW what \in Requests[k], bots' = [bots EXCEPT ![b].input[k] = what]
        PROVE  \E i \in Inputs : bots' = [bots EXCEPT ![b].input = i]
    <2> DEFINE i == [in EXCEPT ![k] = what]
    <2>1. bots' = [bots EXCEPT ![b].input = i]
      BY <1>4, <1>6
    <2>2. k \in {"use", "swap", "drop", "take"}
      BY <1>6 DEF Requests
    <2>3. i \in Inputs
      <3>1. CASE k = "use"
        BY <1>4, <1>6, <3>1 DEF Inputs, Requests
      <3>2. CASE k = "swap"
        BY <1>4, <1>6, <3>2 DEF Inputs, Requests
      <3>3. CASE k = "drop"
        BY <1>4, <1>6, <3>3 DEF Inputs, Requests
      <3>4. CASE k = "take"
        BY <1>4, <1>6, <3>4 DEF Inputs, Requests
      <3> QED
        BY <2>2, <3>1, <3>2, <3>3, <3>4
    <2> QED
      BY <2>1, <2>3
  <1>7. ASSUME bots' = [bots EXCEPT ![b].input.plea = TRUE]
        PROVE  \E i \in Inputs : bots' = [bots EXCEPT ![b].input = i]
    <2> DEFINE i == [in EXCEPT !.plea = TRUE]
    <2>1. bots' = [bots EXCEPT ![b].input = i]
      BY <1>4, <1>7
    <2>2. i \in Inputs
      BY <1>4 DEF Inputs
    <2> QED
      BY <2>1, <2>2
  <1>8. ASSUME NEW verb \in {"loot", "revive", None}, bots' = [bots EXCEPT ![b].input.verb = verb]
        PROVE  \E i \in Inputs : bots' = [bots EXCEPT ![b].input = i]
    <2> DEFINE i == [in EXCEPT !.verb = verb]
    <2>1. bots' = [bots EXCEPT ![b].input = i]
      BY <1>4, <1>8
    <2>2. i \in Inputs
      BY <1>4 DEF Inputs
    <2> QED
      BY <2>1, <2>2
  <1> HIDE DEF w, in
  <1>9. \/ \E k \in DOMAIN Requests : \E what \in Requests[k] : bots' = [bots EXCEPT ![b].input[k] = what]
        \/ bots' = [bots EXCEPT ![b].input.plea = TRUE]
        \/ \E verb \in {"loot", "revive", None} : bots' = [bots EXCEPT ![b].input.verb = verb]
    BY DEF Press
  <1> QED
    BY <1>5, <1>6, <1>7, <1>8, <1>9

LEMMA HandOverKeeps ==
  ASSUME Inv, NEW b \in Bot, HandOver(b)
  PROVE  Inv'
  <1> DEFINE w == World
             x == bots[b]
  <1>1. Sound(w) /\ w \in Worlds /\ phase \in Phases /\ fighters \subseteq Bot
    BY DEF Inv, Run, Sound
  <1>2. /\ phase = "idle" /\ phase' = phase /\ fighters' = fighters /\ dots' = dots /\ mines' = mines /\ gone' = gone
        /\ Present(w, b)
    BY DEF HandOver
  <1>3. w.bots = bots /\ w.dots = dots /\ w.mines = mines /\ w.gone = gone
    BY WorldFields
  <1>4. x \in Sane /\ x \in Body /\ bots \in [Bot -> Sane \union {Absent}]
    BY <1>1, <1>2, <1>3, PresentIs, WorldIs
  <1>5. PICK c \in Controls : bots' = [bots EXCEPT ![b].control = c]
    <2>1. PICK c \in NextControl(x.control) : bots' = [bots EXCEPT ![b].control = c]
      BY DEF HandOver
    <2>2. x.control \in {"human", "frozen", "ai"}
      BY <1>4, BodyIs DEF Controls
    <2>3. c \in Controls
      BY <2>1, <2>2 DEF NextControl, Controls
    <2> QED
      BY <2>1, <2>3
  <1> DEFINE y == [x EXCEPT !.control = c]
             v == [w EXCEPT !.bots[b] = y]
  <1>6. /\ y \in Body /\ y.bays = x.bays /\ y.hold = x.hold /\ y.swap = x.swap /\ y.squad = x.squad
        /\ y.state = x.state /\ y.place = x.place /\ y.stay = x.stay /\ y.exit = x.exit /\ y.channel = x.channel
    BY <1>4 DEF Body
  <1>7. bots' = [bots EXCEPT ![b] = y]
    BY <1>4, <1>5
  <1>8. World' = v
    BY <1>1, <1>2, <1>3, <1>7 DEF World
  <1> HIDE DEF y
  <1>9. y \in Sane /\ Contents(y) = Contents(x)
    BY <1>4, <1>6, StillSane
  <1>10. v \in Worlds /\ v.bots = [w.bots EXCEPT ![b] = y] /\ v.dots = w.dots /\ v.mines = w.mines /\ v.gone = w.gone
    BY <1>1, <1>9 DEF Worlds
  <1> HIDE DEF v, w
  <1>11. Sound(v)
    <2>1. y.squad = w.bots[b].squad /\ Contents(y) = Contents(w.bots[b])
      BY <1>3, <1>6, <1>9
    <2> QED
      BY ONLY b \in Bot, <1>1, <1>2, <1>9, <1>10, <2>1, BodyKept
  <1>12. v.bots[b] = y /\ \A a \in Bot \ {b} : v.bots[a] = w.bots[a]
    BY <1>3, <1>4, <1>10
  <1>13. \A a \in Bot : Staying(w, v, a) /\ v.bots[a].exit = w.bots[a].exit
    BY <1>3, <1>6, <1>12 DEF Staying, Present
  <1>14. CoverTicks > 1 => Settled(v)
    <2>1. CoverTicks > 1 => Settled(w)
      BY <1>2 DEF Inv, Due, w
    <2> QED
      BY <1>1, <1>10, <1>13, <2>1, SettledKept
  <1> QED
    BY <1>1, <1>2, <1>8, <1>11, <1>14, RunNext

LEMMA LeaveKeeps ==
  ASSUME Inv, NEW b \in Bot, Leave(b)
  PROVE  Inv'
  <1> DEFINE w == World
             v == Removed(w, b, "lost")
  <1>1. Sound(w) /\ phase \in Phases /\ fighters \subseteq Bot
    BY DEF Inv, Run
  <1>2. phase = "idle" /\ phase' = phase /\ fighters' = fighters /\ Present(w, b) /\ Becomes(v)
    BY DEF Leave, Controlled
  <1> HIDE DEF w
  <1>3. Sound(v) /\ ~Present(v, b)
    BY <1>1, <1>2, RemovedIs
  <1>4. (Hands(w) => Hands(v)) /\ \A a \in Bot \ {b} : Waited(w, a) => Waited(v, a)
    BY <1>1, <1>2, RemovedKeeps
  <1> HIDE DEF v
  <1>5. World' = v
    BY <1>2, <1>3, BecomesIs DEF Sound
  <1>6. CoverTicks > 1 => Settled(v)
    <2>1. CoverTicks > 1 => Settled(w)
      BY <1>2 DEF Inv, Due, w
    <2>2. Waited(v, b)
      BY <1>3 DEF Waited
    <2> QED
      BY <1>4, <2>1, <2>2 DEF Settled
  <1> QED
    BY <1>1, <1>2, <1>3, <1>5, <1>6, RunNext


LEMMA IntentsInv ==
  ASSUME Inv, Intents
  PROVE  Inv'
  <1> DEFINE w == World
  <1>1. Sound(w) /\ phase \in Phases /\ fighters \subseteq Bot
    BY DEF Inv, Run
  <1>2. phase = "idle" /\ phase' = "move" /\ fighters' = fighters
    BY DEF Intents
  <1>3. PICK calm, bare : Becomes(FoldLeft(Intent, Timed(w, calm, bare), Order))
    BY DEF Intents
  <1>4. CoverTicks > 1 => Settled(w)
    BY <1>2 DEF Inv, Due
  <1> DEFINE t == Timed(w, calm, bare)
             v == FoldLeft(Intent, t, Order)
  <1> HIDE DEF w
  <1>5. Keeps(w, t)
    BY <1>1, TimedKeeps
  <1>6. Becomes(v)
    BY <1>3
  <1> HIDE DEF t
  <1>7. Keeps(t, v)
    BY <1>5, IntentsKeep DEF Keeps
  <1> HIDE DEF v
  <1>8. Keeps(w, v) /\ Sound(v)
    BY <1>1, <1>5, <1>7, KeepsIs DEF Keeps
  <1>9. World' = v
    BY <1>6, <1>8, BecomesIs DEF Sound
  <1>10. CoverTicks > 1 => Settled(v)
    BY <1>1, <1>4, <1>8, QuietSettled DEF Sound, Keeps
  <1> QED
    BY <1>1, <1>2, <1>8, <1>9, <1>10, RunNext DEF Phases

LEMMA EscortHealsInv ==
  ASSUME Inv, EscortHeals
  PROVE  Inv'
  <1> DEFINE w == World
  <1>1. Sound(w) /\ w \in Worlds /\ phase \in Phases /\ fighters \subseteq Bot
    BY DEF Inv, Run, Sound
  <1>2. phase = "move" /\ phase' = phase /\ fighters' = fighters
    BY DEF EscortHeals
  <1>3. PICK b \in Bot : /\ Escort(w, b) /\ HealthBays(bots[b]) # {}
                         /\ Becomes(Fired(w, b, Lowest(HealthBays(bots[b]))))
    BY DEF EscortHeals
  <1>4. CoverTicks > 1 => Settled(w)
    BY <1>2 DEF Inv, Due
  <1> DEFINE k == Lowest(HealthBays(bots[b]))
             v == Fired(w, b, k)
  <1>5. k \in 1..BaySlots
    <2> DEFINE S == HealthBays(bots[b])
    <2>1. S \subseteq 1..BaySlots
      BY DEF HealthBays
    <2>2. S \subseteq Nat /\ S # {}
      BY <1>3, <2>1
    <2> HIDE DEF S
    <2>3. Lowest(S) \in S
      BY <2>2, LowestIs
    <2> QED
      BY <2>1, <2>3 DEF S
  <1>6. Present(w, b)
    BY <1>1, <1>3, PresentIs DEF Escort
  <1>7. Becomes(v)
    BY <1>3
  <1> HIDE DEF w, k
  <1>8. Keeps(w, v) /\ Sound(v)
    BY <1>1, <1>5, <1>6, FiredKeeps DEF Keeps
  <1> HIDE DEF v
  <1>9. World' = v
    BY <1>7, <1>8, BecomesIs DEF Sound
  <1>10. CoverTicks > 1 => Settled(v)
    BY <1>1, <1>4, <1>8, QuietSettled DEF Keeps
  <1> QED
    BY <1>1, <1>2, <1>8, <1>9, <1>10, RunNext

LEMMA WalkInv ==
  ASSUME Inv, Walk
  PROVE  Inv'
  <1> DEFINE w == World
  <1>1. Sound(w) /\ w \in Worlds /\ phase \in Phases /\ fighters \subseteq Bot
    BY DEF Inv, Run, Sound
  <1>2. /\ phase = "move" /\ phase' = "mines" /\ fighters' = fighters /\ dots' = dots /\ mines' = mines /\ gone' = gone
    BY DEF Walk
  <1>3. w.bots = bots /\ w.dots = dots /\ w.mines = mines /\ w.gone = gone
    BY WorldFields
  <1>4. CoverTicks > 1 => Settled(w)
    BY <1>2 DEF Inv, Due
  <1>5. PICK to \in [{b \in Bot : Alive(w, b) /\ "walk" \in bots[b].does} -> Place] :
          bots' = [b \in Bot |-> IF b \in DOMAIN to /\ to[b] # bots[b].place
                                 THEN [bots[b] EXCEPT !.place = to[b], !.stay = 0] ELSE bots[b]]
    BY DEF Walk
  <1> DEFINE f == [b \in Bot |-> IF b \in DOMAIN to /\ to[b] # bots[b].place
                                 THEN [bots[b] EXCEPT !.place = to[b], !.stay = 0] ELSE bots[b]]
             v == [w EXCEPT !.bots = f]
  <1>6. bots \in [Bot -> Sane \union {Absent}]
    BY <1>1, <1>3, WorldIs
  <1>7. World' = v
    <2>1. bots' = f
      BY <1>5
    <2> HIDE DEF f
    <2> QED
      BY <1>2, <2>1 DEF World
  <1>8. /\ v.dots = w.dots
        /\ v.bots = f
    BY <1>1 DEF Worlds
  <1>9. ASSUME NEW b \in Bot, b \in DOMAIN to, to[b] # bots[b].place
        PROVE  /\ f[b] \in Body /\ f[b].squad = bots[b].squad /\ f[b].bays = bots[b].bays
               /\ f[b].hold = bots[b].hold /\ f[b].swap = bots[b].swap
               /\ Alive(w, b) /\ f[b].state = "alive" /\ f[b].place # bots[b].place /\ f[b].stay = 0
               /\ f[b].exit = bots[b].exit /\ f[b].channel = bots[b].channel
    <2> DEFINE x == bots[b]
               y == [x EXCEPT !.place = to[b], !.stay = 0]
    <2>1. to[b] \in Place /\ Alive(w, b)
      BY <1>9
    <2>2. x \in Body /\ x.state = "alive"
      BY <1>1, <1>3, <2>1, PresentIs DEF Alive
    <2>3. f[b] = y
      BY <1>9
    <2>4. 0 \in 0..Longest
      BY LongestIs
    <2> HIDE DEF x, f
    <2>5. /\ y \in Body /\ y.squad = x.squad /\ y.bays = x.bays /\ y.hold = x.hold /\ y.swap = x.swap
          /\ y.state = "alive" /\ y.place = to[b] /\ y.stay = 0 /\ y.exit = x.exit /\ y.channel = x.channel
      BY <2>1, <2>2, <2>4 DEF Body
    <2> HIDE DEF y
    <2> QED
      BY <1>9, <2>1, <2>3, <2>5 DEF x
  <1>10. \A b \in Bot : ~(b \in DOMAIN to /\ to[b] # bots[b].place) => f[b] = bots[b]
    OBVIOUS
  <1>11. DOMAIN f = Bot /\ f = [b \in Bot |-> f[b]]
    OBVIOUS
  <1> HIDE DEF f
  <1>12. \A b \in Bot : f[b] \in Body \union {Absent}
    <2> TAKE b \in Bot
    <2>1. CASE b \in DOMAIN to /\ to[b] # bots[b].place
      BY <1>9, <2>1
    <2>2. CASE ~(b \in DOMAIN to /\ to[b] # bots[b].place)
      <3>1. bots[b] \in Sane \union {Absent}
        BY <1>6
      <3> QED
        BY <1>10, <2>2, <3>1 DEF Sane
    <2> QED
      BY <2>1, <2>2
  <1>13. f \in [Bot -> Body \union {Absent}]
    BY <1>11, <1>12
  <1>14. \A b \in Bot : IF Present(w, b)
                        THEN /\ f[b] \in Body /\ f[b].squad = w.bots[b].squad /\ f[b].bays = w.bots[b].bays
                             /\ f[b].hold = w.bots[b].hold /\ f[b].swap = w.bots[b].swap
                        ELSE f[b] = w.bots[b]
    <2> TAKE b \in Bot
    <2>1. CASE b \in DOMAIN to /\ to[b] # bots[b].place
      <3>1. Present(w, b)
        BY <1>1, <1>9, <2>1, PresentIs
      <3> QED
        BY <1>3, <1>9, <2>1, <3>1
    <2>2. CASE ~(b \in DOMAIN to /\ to[b] # bots[b].place)
      <3>1. f[b] = w.bots[b] /\ (Present(w, b) => f[b] \in Body)
        BY <1>1, <1>3, <1>10, <2>2, PresentIs
      <3> QED
        BY <3>1
    <2> QED
      BY <2>1, <2>2
  <1> HIDE DEF w
  <1>15. Sound(v)
    BY <1>1, <1>13, <1>14, BodiesMove
  <1> HIDE DEF v
  <1>16. ASSUME CoverTicks > 1 PROVE Earned(v)
    <2>1. \A b \in Bot : \/ v.bots[b] = w.bots[b]
                         \/ /\ Alive(w, b) /\ Alive(v, b) /\ v.bots[b].place # w.bots[b].place /\ v.bots[b].stay = 0
                            /\ v.bots[b].exit = w.bots[b].exit /\ v.bots[b].channel = w.bots[b].channel
      <3> TAKE b \in Bot
      <3>1. CASE b \in DOMAIN to /\ to[b] # bots[b].place
        BY <1>3, <1>8, <1>9, <3>1 DEF Alive
      <3>2. CASE ~(b \in DOMAIN to /\ to[b] # bots[b].place)
        BY <1>3, <1>8, <1>10, <3>2
      <3> QED
        BY <3>1, <3>2
    <2>2. Settled(w)
      BY <1>4, <1>16
    <2> QED
      BY <1>1, <1>8, <2>1, <2>2, WalkEarned
  <1> QED
    BY <1>1, <1>2, <1>7, <1>15, <1>16, RunNext DEF Phases


LEMMA EngageInv ==
  ASSUME Inv, Engage
  PROVE  Inv'
  <1> DEFINE w == World
  <1>1. Sound(w) /\ w \in Worlds /\ phase \in Phases
    BY DEF Inv, Run, Sound
  <1>2. /\ phase = "mines" /\ phase' = "combat" /\ fighters' \subseteq Bot
        /\ bots' = bots /\ dots' = dots /\ mines' = mines /\ gone' = gone
    BY DEF Engage
  <1>3. World' = w
    BY <1>2 DEF World
  <1>4. CoverTicks > 1 => Earned(w)
    BY <1>2 DEF Inv, Due
  <1> HIDE DEF w
  <1> QED
    BY <1>1, <1>2, <1>3, <1>4, RunNext DEF Phases

(* What a hit makes of a world. *)
LEMMA HitInv ==
  ASSUME Inv, NEW u, Sound(u), u.bots = bots, u.dots = dots, NEW b \in Bot, Alive(World, b),
         NEW y \in Struck(bots[b]), phase \in {"mines", "combat"}, phase' = phase, fighters' = fighters,
         bots' = [bots EXCEPT ![b] = y], dots' = dots, mines' = u.mines, gone' = u.gone
  PROVE  Inv'
  <1> DEFINE v == [u EXCEPT !.bots[b] = y]
  <1>1. /\ World \in Worlds /\ u \in Worlds /\ phase' \in Phases /\ fighters' \subseteq Bot
    BY DEF Inv, Run, Sound
  <1>2. Present(u, b) /\ Alive(u, b)
    BY WorldFields DEF Alive, Present
  <1>3. Sound(v)
    BY <1>2, HitSound
  <1>4. v.bots = [u.bots EXCEPT ![b] = y] /\ v.dots = u.dots /\ World' = v
    <2> DEFINE c == [u.bots EXCEPT ![b] = y]
    <2>1. v = [u EXCEPT !.bots = c]
      BY <1>1 DEF Worlds
    <2>2. bots' = c
      OBVIOUS
    <2> HIDE DEF c, v
    <2>3. v = [bots |-> c, dots |-> u.dots, mines |-> u.mines, gone |-> u.gone]
      BY <1>1, <2>1 DEF Worlds
    <2> QED
      BY <2>2, <2>3 DEF World, c
  <1> HIDE DEF v
  <1>5. ASSUME CoverTicks > 1 PROVE Earned(v)
    <2>1. Earned(World)
      BY <1>5 DEF Inv, Due
    <2>2. Earned(u)
      BY <2>1, WorldFields DEF Earned, Alive, Downed, Together
    <2> QED
      BY <1>1, <1>2, <1>4, <2>2, HitEarned
  <1> QED
    BY <1>1, <1>3, <1>4, <1>5, RunNext

LEMMA HitsInv ==
  ASSUME Inv, Hit
  PROVE  Inv'
  <1>1. /\ phase = "combat" /\ phase' = phase /\ fighters' = fighters /\ dots' = dots /\ mines' = mines /\ gone' = gone
    BY DEF Hit
  <1>0. PICK b \in Bot : \E y \in Struck(bots[b]) : Alive(World, b) /\ bots' = [bots EXCEPT ![b] = y]
    BY DEF Hit
  <1>2. PICK y \in Struck(bots[b]) : Alive(World, b) /\ bots' = [bots EXCEPT ![b] = y]
    BY <1>0
  <1> DEFINE u == World
  <1>3. u.bots = bots /\ u.dots = dots /\ u.mines = mines /\ u.gone = gone /\ Sound(u)
    BY WorldFields DEF Inv, Run
  <1> HIDE DEF u
  <1> QED
    BY <1>1, <1>2, <1>3, HitInv

LEMMA DetonateInv ==
  ASSUME Inv, Detonate
  PROVE  Inv'
  <1> DEFINE w == World
  <1>1. Sound(w) /\ w \in Worlds /\ phase \in Phases /\ fighters \subseteq Bot
    BY DEF Inv, Run, Sound
  <1>2. phase = "mines" /\ phase' = phase /\ fighters' = fighters /\ dots' = dots
    BY DEF Detonate
  <1>3. PICK k \in DOMAIN mines, b \in Bot :
          /\ Alive(w, b) /\ mines' = RemoveAt(mines, k) /\ gone' = [gone EXCEPT ![mines[k].item] = "spent"]
          /\ (bots' = bots) \/ \E y \in Struck(bots[b]) : bots' = [bots EXCEPT ![b] = y]
    BY DEF Detonate
  <1>4. w.bots = bots /\ w.dots = dots /\ w.mines = mines /\ w.gone = gone
    BY WorldFields
  <1> DEFINE M == RemoveAt(mines, k)
             G == [gone EXCEPT ![mines[k].item] = "spent"]
             u == [w EXCEPT !.mines = M, !.gone = G]
  <1>5. mines \in Seq(Armed) /\ gone \in [Item -> Ends] /\ "spent" \in Ends \ {None}
    BY <1>1, <1>4, WorldIs, NoneIs DEF Ends
  <1>6. M \in Seq(Armed) /\ G \in [Item -> Ends]
    BY <1>5, RemovalIs
  <1>7. mines' = M /\ gone' = G
    BY <1>3
  <1>8. M = RemoveAt(w.mines, k) /\ G = [w.gone EXCEPT ![w.mines[k].item] = "spent"]
    BY <1>4
  <1> HIDE DEF M, G, w
  <1>9. u \in Worlds /\ u.bots = w.bots /\ u.dots = w.dots /\ u.mines = M /\ u.gone = G
    BY <1>1, <1>6 DEF Worlds
  <1> HIDE DEF u
  <1>10. Sound(u)
    <2>1. u.mines = RemoveAt(w.mines, k) /\ u.gone = [w.gone EXCEPT ![w.mines[k].item] = "spent"]
      BY <1>8, <1>9
    <2>2. k \in DOMAIN w.mines
      BY <1>3, <1>4
    <2> QED
      BY <1>1, <1>5, <1>9, <2>1, <2>2, MineGone
  <1>11. CASE bots' = bots
    <2>1. World' = u
      <3>1. u = [bots |-> u.bots, dots |-> u.dots, mines |-> u.mines, gone |-> u.gone]
        BY <1>9 DEF Worlds
      <3> QED
        BY <1>2, <1>4, <1>7, <1>9, <1>11, <3>1 DEF World
    <2>2. ASSUME CoverTicks > 1 PROVE Earned(u)
      <3>1. Earned(World)
        BY <1>2, <2>2 DEF Inv, Due
      <3> QED
        BY <1>4, <1>9, <3>1, WorldFields DEF Earned, Alive, Downed, Together
    <2> QED
      BY <1>1, <1>2, <1>10, <2>1, <2>2, RunNext
  <1>12. CASE \E y \in Struck(bots[b]) : bots' = [bots EXCEPT ![b] = y]
    <2>1. PICK y \in Struck(bots[b]) : bots' = [bots EXCEPT ![b] = y]
      BY <1>12
    <2>2. u.bots = bots /\ u.dots = dots /\ mines' = u.mines /\ gone' = u.gone
      BY <1>4, <1>7, <1>9
    <2>3. Alive(World, b)
      BY <1>3 DEF w
    <2>4. phase \in {"mines", "combat"}
      BY <1>2
    <2> QED
      BY ONLY Inv, b \in Bot, <1>2, <1>10, <2>1, <2>2, <2>3, <2>4, HitInv
  <1> QED
    BY <1>3, <1>11, <1>12

LEMMA ChannelsInv ==
  ASSUME Inv, Channels
  PROVE  Inv'
  <1> DEFINE w == World
  <1>1. Sound(w) /\ phase \in Phases
    BY DEF Inv, Run
  <1>2. phase = "combat" /\ phase' = "idle" /\ fighters' = {}
    BY DEF Channels
  <1>0. PICK marks \in Marks(w) : \E nearest \in Nearest(DotsResolved(Stayed(w), marks)) :
          Becomes(SwapsResolved(ExtractionResolved(BodiesResolved(DotsResolved(Stayed(w), marks), nearest))))
    BY DEF Channels
  <1>3. PICK nearest \in Nearest(DotsResolved(Stayed(w), marks)) :
          Becomes(SwapsResolved(ExtractionResolved(BodiesResolved(DotsResolved(Stayed(w), marks), nearest))))
    BY <1>0
  <1>4. CoverTicks > 1 => Earned(w)
    BY <1>2 DEF Inv, Due
  <1> DEFINE x == Stayed(w)
             y == DotsResolved(x, marks)
             z == BodiesResolved(y, nearest)
             e == ExtractionResolved(z)
             v == SwapsResolved(e)
  <1>5. Becomes(v) /\ nearest \in Nearest(y)
    BY <1>3
  <1> HIDE DEF w
  <1>6. Sound(x) /\ (CoverTicks > 1 => Older(x) /\ Fresh(x))
    BY <1>1, <1>4, StayedIs, StayedOlder
  <1> HIDE DEF x
  <1>7. Sound(y) /\ Standing(x, y) /\ \A i \in Item : Worked(x, i, y.dots[i])
    BY <1>6, DotsResolvedIs
  <1> HIDE DEF y
  <1>8. CoverTicks > 1 => Older(y) /\ InHand(y)
    BY <1>6, <1>7, DotsOlder
  <1>9. /\ Sound(z) /\ z.dots = y.dots
        /\ \A d \in Bot : IF Downed(y, d) THEN Treated(y, d, z.bots[d]) ELSE z.bots[d] = y.bots[d]
    BY <1>5, <1>7, BodiesResolvedIs
  <1> HIDE DEF z
  <1>10. CoverTicks > 1 => Hands(z) /\ \A b \in Bot : Waiting(z, b)
    BY <1>7, <1>8, <1>9, BodiesReady
  <1>11. Sound(e) /\ (CoverTicks > 1 => Settled(e))
    BY <1>9, <1>10, ExtractionResolvedIs
  <1> HIDE DEF e
  <1>12. Keeps(e, v)
    BY <1>11, SwapsResolvedKeeps
  <1> HIDE DEF v
  <1>13. Sound(v) /\ (CoverTicks > 1 => Settled(v))
    BY <1>11, <1>12, QuietSettled DEF Keeps, Sound
  <1>14. World' = v
    BY <1>5, <1>13, BecomesIs DEF Sound
  <1> QED
    BY <1>2, <1>13, <1>14, RunNext DEF Phases


(* No phase of a tick, and nothing the room does between ticks, breaks what *)
(* Sound says of the world, or lets anyone keep what it has not earned.    *)
LEMMA InvNext ==
  ASSUME Inv, [Next]_vars
  PROVE  Inv'
  <1>1. ASSUME NEW b \in Bot, Press(b) \/ HandOver(b) \/ Leave(b) PROVE Inv'
    BY <1>1, PressKeeps, HandOverKeeps, LeaveKeeps
  <1>2. ASSUME UNCHANGED vars PROVE Inv'
    <2>1. World' = World /\ phase' = phase /\ fighters' = fighters
      BY <1>2 DEF vars, World
    <2> QED
      BY <2>1 DEF Inv, Run, Due
  <1> QED
    BY <1>1, <1>2, IntentsInv, EscortHealsInv, WalkInv, DetonateInv, EngageInv, HitsInv, ChannelsInv DEF Next

(* In every state of a run the world is sound, and progress is earned.     *)
THEOREM Invariance == Spec => []Inv
  <1>1. Init => Inv
    <2>1. ASSUME Init PROVE phase = "idle"
      BY <2>1 DEF Init
    <2> QED
      BY <2>1, InitRun DEF Inv, Due
  <1>2. Inv /\ [Next]_vars => Inv'
    BY InvNext
  <1> QED
    BY <1>1, <1>2, PTL DEF Spec

(***************************************************************************)
(* What the inductive invariant says of the run.                           *)
(***************************************************************************)
LEMMA InvIs ==
  ASSUME Inv
  PROVE  /\ World \in Worlds /\ Apart(World) /\ Allied(World) /\ Capped(World)
         /\ bots \in [Bot -> Sane \union {Absent}]
         /\ \A b \in Bodies : b \in Bot /\ Present(World, b) /\ bots[b] \in Sane /\ bots[b] \in Body
         /\ \A b \in Bot : b \in Bodies <=> Present(World, b)
  <1>1. World \in Worlds /\ Apart(World) /\ Allied(World) /\ Capped(World)
    BY DEF Inv, Run, Sound
  <1>2. \A b \in Bodies : b \in Bot /\ Present(World, b)
    BY DEF Bodies
  <1>3. bots \in [Bot -> Sane \union {Absent}]
    BY <1>1, WorldIs, WorldFields
  <1>4. \A b \in Bodies : bots[b] \in Sane /\ bots[b] \in Body
    BY <1>1, <1>2, PresentIs, WorldFields
  <1>5. \A b \in Bot : b \in Bodies <=> Present(World, b)
    BY DEF Bodies
  <1> QED
    BY <1>1, <1>2, <1>3, <1>4, <1>5

(* Every variable keeps its shape, and no inventory grows over its slots.  *)
THEOREM TypeCorrect == Spec => []TypeOK
  <1>1. ASSUME Inv PROVE TypeOK
    <2>1. ASSUME NEW b \in Bodies PROVE BodyCorrect(bots[b])
      <3> DEFINE x == bots[b]
      <3>1. x \in Body /\ Len(x.hold) <= HoldSlots
        BY <1>1, InvIs DEF Sane
      <3>2. {x.safe, x.searched, x.pleaded, x.quiet} \subseteq BOOLEAN
        BY <3>1 DEF Body
      <3> HIDE DEF x
      <3>3. BodyCorrect(x)
        BY <3>1, <3>2, BodyIs DEF BodyCorrect
      <3> QED
        BY <3>3 DEF x
    <2>2. /\ DOMAIN bots = Bot /\ dots \in [Item -> Lain \union {None}] /\ mines \in Seq(Armed)
          /\ gone \in [Item -> Ends]
      BY <1>1, InvIs, WorldIs, WorldFields
    <2>3. phase \in Phases /\ fighters \subseteq Bot
      BY <1>1 DEF Inv, Run
    <2> QED
      BY <2>1, <2>2, <2>3 DEF TypeOK, Armed, Ends, Phases
  <1> QED
    BY <1>1, Invariance, PTL

(* An item that is somewhere is in one place: the four counts of Copies. *)
LEMMA CopiesAre ==
  ASSUME Inv, NEW i \in Item
  PROVE  Copies(i) = IF gone[i] = None THEN 1 ELSE 0
  <1> DEFINE A == {s \in Bodies \X (1..BaySlots) : bots[s[1]].bays[s[2]] = i}
             H == {s \in Bodies \X (1..HoldSlots) : s[2] <= Len(bots[s[1]].hold) /\ bots[s[1]].hold[s[2]] = i}
             M == {k \in DOMAIN mines : mines[k].item = i}
             w == World
  <1>1. w.bots = bots /\ w.dots = dots /\ w.mines = mines /\ w.gone = gone
    BY WorldFields
  <1>2. One(w, i) /\ \A k, l \in DOMAIN mines : mines[k].item = mines[l].item => k = l
    BY <1>1, InvIs DEF Apart
  <1>3. /\ \A a, b \in Bot : Has(w, a, i) /\ Has(w, b, i) => a = b
        /\ \A b \in Bot : Has(w, b, i) => dots[i] = None /\ i \notin Laid(w)
        /\ i \in Laid(w) => dots[i] = None
        /\ gone[i] = None <=> dots[i] # None \/ i \in Laid(w) \/ \E b \in Bot : Has(w, b, i)
    BY <1>1, <1>2 DEF One
  <1>4. i \in Laid(w) <=> M # {}
    BY <1>1 DEF Laid
  <1>5. M = {} \/ \E k : M = {k}
    BY <1>2
  <1>6. \A b \in Bodies : b \in Bot /\ Present(w, b) /\ bots[b] \in Sane /\ bots[b] \in Body
    BY InvIs
  <1>7. \A b \in Bot : Has(w, b, i) <=> b \in Bodies /\ i \in Contents(bots[b])
    BY <1>1, InvIs DEF Has
  <1> HIDE DEF w
  <1>8. \A b \in Bodies : /\ Len(bots[b].hold) \in Nat /\ DOMAIN bots[b].hold = 1..Len(bots[b].hold)
                          /\ Len(bots[b].hold) <= HoldSlots
                          /\ i \in Contents(bots[b]) <=> \/ \E k \in 1..BaySlots : bots[b].bays[k] = i
                                                         \/ \E k \in DOMAIN bots[b].hold : bots[b].hold[k] = i
                          /\ \A k, l \in 1..BaySlots : bots[b].bays[k] = bots[b].bays[l] /\ bots[b].bays[k] \in Item => k = l
                          /\ \A k, l \in DOMAIN bots[b].hold : bots[b].hold[k] = bots[b].hold[l] => k = l
                          /\ \A k \in 1..BaySlots, l \in DOMAIN bots[b].hold : bots[b].bays[k] # bots[b].hold[l]
    <2> TAKE b \in Bodies
    <2> DEFINE x == bots[b]
    <2>1. x \in Body /\ Tidy(x) /\ Len(x.hold) <= HoldSlots
      BY <1>6 DEF Sane
    <2> HIDE DEF x
    <2>2. /\ Len(x.hold) \in Nat /\ DOMAIN x.hold = 1..Len(x.hold)
          /\ i \in Contents(x) <=> \/ \E k \in 1..BaySlots : x.bays[k] = i
                                   \/ \E k \in DOMAIN x.hold : x.hold[k] = i
      BY <2>1, ContentsAre
    <2>3. /\ \A k, l \in 1..BaySlots : x.bays[k] = x.bays[l] /\ x.bays[k] \in Item => k = l
          /\ \A k, l \in DOMAIN x.hold : x.hold[k] = x.hold[l] => k = l
          /\ \A k \in 1..BaySlots, l \in DOMAIN x.hold : x.bays[k] # x.hold[l]
      BY <2>1, TidyIs
    <2> QED
      BY <2>1, <2>2, <2>3 DEF x
  <1>9. \A s \in A : s[1] \in Bodies /\ s[2] \in 1..BaySlots /\ s = <<s[1], s[2]>> /\ bots[s[1]].bays[s[2]] = i
    OBVIOUS
  <1>10. \A s \in H : /\ s[1] \in Bodies /\ s[2] \in 1..HoldSlots /\ s = <<s[1], s[2]>>
                      /\ s[2] <= Len(bots[s[1]].hold) /\ bots[s[1]].hold[s[2]] = i
    OBVIOUS
  <1>11. \A b \in Bodies, k \in 1..BaySlots : bots[b].bays[k] = i => <<b, k>> \in A
    OBVIOUS
  <1>12. \A b \in Bodies, k \in 1..HoldSlots : k <= Len(bots[b].hold) /\ bots[b].hold[k] = i => <<b, k>> \in H
    OBVIOUS
  <1>13. Copies(i) = Cardinality(A) + Cardinality(H) + (IF dots[i] # None THEN 1 ELSE 0) + Cardinality(M)
    BY DEF Copies
  <1>14. Cardinality({}) = 0 /\ \A e : Cardinality({e}) = 1
    BY FS_EmptySet, FS_Singleton
  <1> HIDE DEF A, H, M
  <1>15. \A s \in A : Has(w, s[1], i)
    BY <1>6, <1>7, <1>8, <1>9
  <1>16. \A s \in H : s[2] \in DOMAIN bots[s[1]].hold /\ Has(w, s[1], i)
    <2> TAKE s \in H
    <2>1. s[2] \in DOMAIN bots[s[1]].hold
      BY <1>8, <1>10
    <2> QED
      BY <1>6, <1>7, <1>8, <1>10, <2>1
  <1>17. CASE \E b \in Bot : Has(w, b, i)
    <2>1. PICK b \in Bot : Has(w, b, i)
      BY <1>17
    <2>2. b \in Bodies /\ i \in Contents(bots[b])
      BY <1>7, <2>1
    <2>3. M = {} /\ dots[i] = None /\ gone[i] = None
      BY <1>3, <1>4, <2>1
    <2>4. (\A s \in A : s[1] = b) /\ \A s \in H : s[1] = b
      BY <1>3, <1>6, <1>9, <1>10, <1>15, <1>16, <2>1
    <2>5. CASE \E k \in 1..BaySlots : bots[b].bays[k] = i
      <3>1. PICK k \in 1..BaySlots : bots[b].bays[k] = i
        BY <2>5
      <3>2. A = {<<b, k>>}
        <4>1. \A s \in A : s = <<b, k>>
          BY <1>8, <1>9, <2>2, <2>4, <3>1
        <4>2. <<b, k>> \in A
          BY <1>11, <2>2, <3>1
        <4> QED
          BY <4>1, <4>2
      <3>3. H = {}
        BY <1>8, <1>10, <1>16, <2>2, <2>4, <3>1
      <3>4. Cardinality(A) = 1 /\ Cardinality(H) = 0 /\ Cardinality(M) = 0
        BY <1>14, <2>3, <3>2, <3>3
      <3> QED
        BY ONLY <1>13, <2>3, <3>4
    <2>6. CASE \E k \in DOMAIN bots[b].hold : bots[b].hold[k] = i
      <3>1. PICK k \in DOMAIN bots[b].hold : bots[b].hold[k] = i
        BY <2>6
      <3>2. H = {<<b, k>>}
        <4>1. \A s \in H : s = <<b, k>>
          BY <1>8, <1>10, <1>16, <2>2, <2>4, <3>1
        <4>2. k \in 1..HoldSlots /\ k <= Len(bots[b].hold)
          BY <1>8, <2>2, <3>1, Sizes
        <4>3. <<b, k>> \in H
          BY <1>12, <2>2, <3>1, <4>2
        <4> QED
          BY <4>1, <4>3
      <3>3. A = {}
        BY <1>8, <1>9, <2>2, <2>4, <3>1
      <3>4. Cardinality(A) = 0 /\ Cardinality(H) = 1 /\ Cardinality(M) = 0
        BY <1>14, <2>3, <3>2, <3>3
      <3> QED
        BY ONLY <1>13, <2>3, <3>4
    <2> QED
      BY <1>8, <2>2, <2>5, <2>6
  <1>18. CASE ~\E b \in Bot : Has(w, b, i)
    <2>1. A = {} /\ H = {}
      BY <1>6, <1>9, <1>10, <1>15, <1>16, <1>18
    <2>2. CASE M = {}
      BY <1>3, <1>4, <1>13, <1>14, <1>18, <2>1, <2>2
    <2>3. CASE M # {}
      <3>1. Cardinality(M) = 1
        BY <1>5, <1>14, <2>3
      <3> QED
        BY <1>3, <1>4, <1>13, <1>14, <2>1, <2>3, <3>1
    <2> QED
      BY <2>2, <2>3
  <1> QED
    BY <1>17, <1>18

(* Each item is in exactly one place until it is spent, extracted or lost. *)
THEOREM ItemsConserved == Spec => []ItemsAreConserved
  <1>1. ASSUME Inv PROVE ItemsAreConserved
    BY <1>1, CopiesAre DEF ItemsAreConserved
  <1> QED
    BY <1>1, Invariance, PTL

(* A swap that is not stale exchanges the two items that were chosen. *)
THEOREM SwapsAreAsChosen == Spec => []SwapIsAsChosen
  <1>1. ASSUME Inv PROVE SwapIsAsChosen
    <2>1. \A b \in Bodies : AsChosen(bots[b])
      BY <1>1, InvIs DEF Sane
    <2> QED
      BY <2>1 DEF AsChosen, SwapIsAsChosen
  <1> QED
    BY <1>1, Invariance, PTL

(* Every mine has an owner in the run, on the side that it spares. *)
THEOREM MinesFollow == Spec => []MinesFollowTheirOwner
  <1>1. ASSUME Inv PROVE MinesFollowTheirOwner
    <2>1. /\ \A k \in DOMAIN mines : /\ Present(World, mines[k].owner)
                                     /\ mines[k].squad = bots[mines[k].owner].squad
          /\ \A b \in Bot : Cardinality(Owned(World, b)) <= MaxMines
      BY <1>1, InvIs, WorldFields DEF Allied
    <2>2. \A k \in DOMAIN mines : mines[k].owner \in Bot
      BY <1>1, InvIs, MinesAre, WorldFields
    <2> QED
      BY <2>1, <2>2 DEF MinesFollowTheirOwner, Bodies
  <1> QED
    BY <1>1, Invariance, PTL

(* No squad is over its cap, however many pick up rivals in one tick. *)
THEOREM SquadsCapped == Spec => []SquadsAreCapped
  <1>1. ASSUME Inv PROVE SquadsAreCapped
    BY <1>1, InvIs DEF SquadsAreCapped, Capped
  <1> QED
    BY <1>1, Invariance, PTL

(* Between ticks no progress is more than what its actor has stayed for.   *)
(* Covering a body takes longer than a tick: whoever is put down is not up *)
(* again in the tick in which it was, with what it had at the extraction   *)
(* point.                                                                  *)
THEOREM ProgressEarned ==
  ASSUME CoverTicks > 1
  PROVE  Spec => []ProgressIsEarned
  <1>1. ASSUME Inv PROVE ProgressIsEarned
    <2> SUFFICES ASSUME phase = "idle"
                 PROVE  /\ \A i \in Item : dots[i] # None /\ dots[i].by # None =>
                             dots[i].progress <= bots[dots[i].by].stay
                        /\ \A b \in Bodies : bots[b].exit <= bots[b].stay
                        /\ \A b \in Bodies : Downed(World, b) =>
                             LET c == bots[b].channel IN
                             c.actor # None => c.progress <= bots[b].stay /\ c.progress <= bots[c.actor].stay
      BY DEF ProgressIsEarned
    <2>1. Settled(World)
      BY <1>1 DEF Inv, Due
    <2>2. InHand(World) /\ Covering(World) /\ \A b \in Bot : Waited(World, b)
      BY <2>1 DEF Settled, Hands
    <2>3. \A b \in Bodies : bots[b].exit <= bots[b].stay
      <3> TAKE b \in Bodies
      <3>1. b \in Bot /\ Present(World, b) /\ bots[b] \in Body
        BY <1>1, InvIs
      <3>2. bots[b].stay \in Nat
        BY <3>1, BodyIs, LongestIs
      <3>3. Waited(World, b) /\ World.bots = bots
        BY <2>2, <3>1, WorldFields
      <3> QED
        BY <3>1, <3>2, <3>3 DEF Waited
    <2>4. \A i \in Item : dots[i] # None /\ dots[i].by # None => dots[i].progress <= bots[dots[i].by].stay
      BY <2>2, WorldFields DEF InHand
    <2>5. \A b \in Bodies : Downed(World, b) =>
            LET c == bots[b].channel IN
            c.actor # None => c.progress <= bots[b].stay /\ c.progress <= bots[c.actor].stay
      BY <2>2, WorldFields DEF Covering, Bodies
    <2> QED
      BY <2>3, <2>4, <2>5
  <1> QED
    BY <1>1, Invariance, PTL
=============================================================================
