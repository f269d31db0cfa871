---------------------------- MODULE PartyRosters ----------------------------
(***************************************************************************)
(* Theorems about the durable party tables, for every number of players,   *)
(* parties, claims and sessions.  What keeps the rosters sound is who      *)
(* holds which row: a transaction holds its caller's row to its end, so    *)
(* that a caller it read as being in no party stays out of every party,    *)
(* and a party's row is written by its holder alone, after the claims that *)
(* name the party were read again.  Sound says so of every session; Step   *)
(* is what one session's step may do to the tables, and SoundKept shows    *)
(* that such a step keeps Sound, whoever else is half way.                 *)
(***************************************************************************)
EXTENDS DurablePartyProperties, SequenceTheorems, FiniteSetTheorems, TLAPS

(* A nonempty set of naturals has a least element: the order is well       *)
(* founded.                                                                *)
LEMMA LeastOf ==
  ASSUME NEW T, T \subseteq Nat, T # {}
  PROVE  Min(T) \in T /\ \A t \in T : Min(T) <= t
  <1> DEFINE Less == {ss \in Nat \X Nat : ss[1] < ss[2]}
  <1>1. IsWellFoundedOn(Less, Nat)
    BY NatLessThanWellFounded, Zenon DEF OpToRel
  <1>2. \A x, y \in Nat : x < y => <<x, y>> \in Less
    OBVIOUS
  <1> HIDE DEF Less
  <1>0. \E x \in T : \A y \in T : ~(<<y, x>> \in Less)
    BY ONLY <1>1, WFMin, T \subseteq Nat, T # {}
  <1>3. PICK x \in T : \A y \in T : ~(<<y, x>> \in Less)
    BY <1>0
  <1>4. \A y \in T : x <= y
    <2> TAKE y \in T
    <2>1. x \in Nat /\ y \in Nat
      OBVIOUS
    <2>2. ~(y < x)
      BY <1>2, <1>3, <2>1
    <2> QED
      BY <2>1, <2>2
  <1> QED
    BY <1>3, <1>4 DEF Min

(* The rows are locked in the order of their ids, each of them once.       *)
LEMMA AscendingRows ==
  ASSUME NEW R, R \subseteq Nat, IsFiniteSet(R)
  PROVE  Ascending(R) \in Seq(R) /\ (R # {} => Ascending(R) # <<>>)
  <1> DEFINE n == Cardinality(R)
             Below(r) == {q \in R : q < r}
             rank == [r \in R |-> Cardinality(Below(r)) + 1]
  <1>1. n \in Nat /\ (R # {} => n # 0)
    BY FS_CardinalityType, FS_EmptySet
  <1>2. \A r \in R : IsFiniteSet(Below(r)) /\ Cardinality(Below(r)) \in Nat /\ Cardinality(Below(r)) < n
    <2> TAKE r \in R
    <2>1. Below(r) \in SUBSET R /\ r \notin Below(r)
      OBVIOUS
    <2>2. IsFiniteSet(Below(r)) /\ Cardinality(Below(r)) <= n /\ (n = Cardinality(Below(r)) => R = Below(r))
      BY <2>1, FS_Subset
    <2>3. Cardinality(Below(r)) \in Nat
      BY <2>2, FS_CardinalityType
    <2> QED
      BY <1>1, <2>1, <2>2, <2>3
  <1>3. \A q, r \in R : q < r => Cardinality(Below(q)) < Cardinality(Below(r))
    <2> SUFFICES ASSUME NEW q \in R, NEW r \in R, q < r
                 PROVE  Cardinality(Below(q)) < Cardinality(Below(r))
      OBVIOUS
    <2>1. Below(q) \in SUBSET Below(r) /\ q \in Below(r) /\ q \notin Below(q)
      <3>1. \A a \in R : a \in Nat
        OBVIOUS
      <3>2. \A a \in R : a < q => a < r
        BY <3>1
      <3>3. Below(q) \subseteq Below(r)
        BY <3>2
      <3>4. q \in Below(r)
        OBVIOUS
      <3>5. q \notin Below(q)
        BY <3>1
      <3> QED
        BY <3>3, <3>4, <3>5
    <2>2. /\ Cardinality(Below(q)) <= Cardinality(Below(r))
          /\ Cardinality(Below(r)) = Cardinality(Below(q)) => Below(r) = Below(q)
      BY <1>2, <2>1, FS_Subset
    <2> QED
      BY <1>2, <2>1, <2>2
  <1>4. rank \in Injection(R, 1..n)
    <2>1. \A r \in R : rank[r] \in 1..n
      BY <1>1, <1>2
    <2>2. \A q, r \in R : rank[q] = rank[r] => q = r
      <3> SUFFICES ASSUME NEW q \in R, NEW r \in R, rank[q] = rank[r], q # r PROVE FALSE
        OBVIOUS
      <3>1. Cardinality(Below(q)) = Cardinality(Below(r))
        BY <1>2
      <3>2. q < r \/ r < q
        OBVIOUS
      <3> QED
        BY <1>2, <1>3, <3>1, <3>2
    <2> QED
      BY <2>1, <2>2 DEF Injection, IsInjective
  <1>5. rank \in Surjection(R, 1..n)
    <2>1. IsFiniteSet(1..n) /\ Cardinality(1..n) = n
      BY <1>1, FS_Interval
    <2> HIDE DEF rank
    <2> QED
      BY <1>4, <2>1, FS_Injection
  <1>6. \A i \in 1..n : \E r \in R : Cardinality(Below(r)) = i - 1
    <2>1. \A i \in 1..n : \E r \in R : rank[r] = i
      BY <1>5 DEF Surjection
    <2> QED
      BY <1>1, <1>2, <2>1
  <1>7. \A i \in 1..n : (CHOOSE r \in R : Cardinality(Below(r)) = i - 1) \in R
    BY <1>6
  <1>8. Ascending(R) \in [1..n -> R]
    BY <1>7 DEF Ascending
  <1>9. Ascending(R) \in Seq(R) /\ Len(Ascending(R)) = n
    BY <1>1, <1>8
  <1> QED
    BY <1>1, <1>9

(***************************************************************************)
(* Rosters: sequences of players in which nobody occurs twice.             *)
(***************************************************************************)
Rosters == {s \in Seq(Player) : IsInjective(s)}

LEMMA RosterFacts ==
  ASSUME NEW s \in Rosters
  PROVE  /\ Len(s) \in Nat /\ DOMAIN s = 1..Len(s)
         /\ \A i \in DOMAIN s : s[i] \in Player /\ s[i] \in ToSet(s)
         /\ \A p \in ToSet(s) : p \in Player /\ \E i \in DOMAIN s : s[i] = p
         /\ \A i, j \in DOMAIN s : s[i] = s[j] => i = j
         /\ s = <<>> <=> Len(s) = 0
         /\ s = <<>> <=> ToSet(s) = {}
  <1>1. s \in Seq(Player) /\ \A i, j \in DOMAIN s : s[i] = s[j] => i = j
    BY DEF Rosters, IsInjective
  <1>2. /\ Len(s) \in Nat /\ DOMAIN s = 1..Len(s)
        /\ \A i \in DOMAIN s : s[i] \in Player
        /\ s = <<>> <=> Len(s) = 0
    BY <1>1
  <1>3. ToSet(s) = {s[i] : i \in DOMAIN s}
    BY DEF ToSet
  <1>4. s = <<>> <=> ToSet(s) = {}
    <2>1. CASE Len(s) = 0
      BY <1>2, <1>3, <2>1
    <2>2. CASE Len(s) # 0
      <3>1. 1 \in DOMAIN s
        BY <1>2, <2>2
      <3> QED
        BY <1>2, <1>3, <2>2, <3>1
    <2> QED
      BY <2>1, <2>2
  <1> QED
    BY <1>1, <1>2, <1>3, <1>4

(* A roster has as many members as places. *)
LEMMA RosterSize ==
  ASSUME NEW s \in Rosters
  PROVE  IsFiniteSet(ToSet(s)) /\ Cardinality(ToSet(s)) = Len(s)
  <1>1. s \in [1..Len(s) -> ToSet(s)] /\ Len(s) \in Nat
    <2>1. s \in [DOMAIN s -> ToSet(s)]
      BY RosterFacts DEF Rosters
    <2> QED
      BY <2>1, RosterFacts
  <1>2. s \in Bijection(1..Len(s), ToSet(s))
    <2>1. s \in Injection(1..Len(s), ToSet(s))
      BY <1>1 DEF Injection, Rosters
    <2>2. s \in Surjection(1..Len(s), ToSet(s))
      BY <1>1, RosterFacts DEF Surjection
    <2> QED
      BY <2>1, <2>2 DEF Bijection
  <1>3. ExistsBijection(1..Len(s), ToSet(s))
    BY <1>2 DEF ExistsBijection
  <1> QED
    BY <1>1, <1>3, FS_CountingElements, FS_NatBijection

(* A member joins. *)
LEMMA RosterGrown ==
  ASSUME NEW s \in Rosters, NEW p \in Player, p \notin ToSet(s)
  PROVE  /\ Append(s, p) \in Rosters /\ Len(Append(s, p)) = Len(s) + 1
         /\ ToSet(Append(s, p)) = ToSet(s) \union {p}
  <1> DEFINE t == Append(s, p)
  <1>1. s \in Seq(Player) /\ Len(s) \in Nat /\ DOMAIN s = 1..Len(s)
    BY RosterFacts DEF Rosters
  <1>2. /\ t \in Seq(Player) /\ Len(t) = Len(s) + 1
        /\ \A i \in 1..Len(s) : t[i] = s[i]
        /\ t[Len(s) + 1] = p
    BY <1>1, AppendProperties
  <1>3. DOMAIN t = 1..(Len(s) + 1)
    BY <1>2
  <1> HIDE DEF t
  <1>4. ToSet(t) = ToSet(s) \union {p}
    <2>1. ToSet(t) = {t[i] : i \in DOMAIN t} /\ ToSet(s) = {s[i] : i \in DOMAIN s}
      BY DEF ToSet
    <2>2. \A i \in DOMAIN t : i \in DOMAIN s \/ i = Len(s) + 1
      BY <1>1, <1>3
    <2>3. DOMAIN s \subseteq DOMAIN t /\ Len(s) + 1 \in DOMAIN t
      BY <1>1, <1>3
    <2> QED
      BY <1>1, <1>2, <2>1, <2>2, <2>3
  <1>5. \A i, j \in DOMAIN t : t[i] = t[j] => i = j
    <2> SUFFICES ASSUME NEW i \in DOMAIN t, NEW j \in DOMAIN t, t[i] = t[j] PROVE i = j
      OBVIOUS
    <2>1. \A k \in 1..Len(s) : t[k] # p
      BY <1>1, <1>2, RosterFacts
    <2>2. CASE i \in DOMAIN s /\ j \in DOMAIN s
      BY <1>1, <1>2, <2>2, RosterFacts
    <2>3. CASE i \notin DOMAIN s \/ j \notin DOMAIN s
      BY <1>1, <1>2, <1>3, <2>1, <2>3
    <2> QED
      BY <2>2, <2>3
  <1> QED
    BY <1>2, <1>4, <1>5 DEF Rosters, IsInjective, t

(* A member leaves. *)
LEMMA RosterShrunk ==
  ASSUME NEW s \in Rosters, NEW k \in DOMAIN s
  PROVE  /\ RemoveAt(s, k) \in Rosters /\ Len(RemoveAt(s, k)) = Len(s) - 1
         /\ ToSet(RemoveAt(s, k)) = ToSet(s) \ {s[k]}
  <1> DEFINE a == SubSeq(s, 1, k - 1)
             b == SubSeq(s, k + 1, Len(s))
             t == RemoveAt(s, k)
  <1>1. /\ s \in Seq(Player) /\ Len(s) \in Nat /\ DOMAIN s = 1..Len(s)
        /\ k \in 1..Len(s) /\ \A i \in 1..Len(s) : s[i] \in Player
    BY RosterFacts DEF Rosters
  <1>2. a \in Seq(Player) /\ Len(a) = k - 1 /\ \A i \in 1..(k - 1) : a[i] = s[i]
    <2>1. \A i \in 1..(k - 1) : s[i] \in Player
      BY <1>1
    <2>2. /\ a \in Seq(Player) /\ Len(a) = IF 1 <= k - 1 THEN k - 1 - 1 + 1 ELSE 0
          /\ \A i \in 1..(k - 1 - 1 + 1) : a[i] = s[1 + i - 1]
      BY <1>1, <2>1, SubSeqProperties
    <2> HIDE DEF a
    <2> QED
      BY <1>1, <2>2
  <1>3. b \in Seq(Player) /\ Len(b) = Len(s) - k /\ \A i \in 1..(Len(s) - k) : b[i] = s[k + i]
    <2>1. \A i \in (k + 1)..Len(s) : s[i] \in Player
      BY <1>1
    <2>2. /\ b \in Seq(Player) /\ Len(b) = IF k + 1 <= Len(s) THEN Len(s) - (k + 1) + 1 ELSE 0
          /\ \A i \in 1..(Len(s) - (k + 1) + 1) : b[i] = s[k + 1 + i - 1]
      BY <1>1, <2>1, SubSeqProperties
    <2> HIDE DEF b
    <2>3. \A i \in 1..(Len(s) - k) : i \in 1..(Len(s) - (k + 1) + 1) /\ k + 1 + i - 1 = k + i
      BY <1>1
    <2>4. Len(b) = Len(s) - k
      BY <1>1, <2>2
    <2> QED
      BY <2>2, <2>3, <2>4
  <1>4. t = a \o b
    BY DEF RemoveAt
  <1> HIDE DEF a, b, t
  <1>5. /\ t \in Seq(Player) /\ Len(t) = Len(s) - 1
        /\ \A i \in 1..(Len(s) - 1) : t[i] = IF i <= k - 1 THEN s[i] ELSE s[i + 1]
    <2>1. /\ t \in Seq(Player) /\ Len(t) = Len(a) + Len(b)
          /\ \A i \in 1..(Len(a) + Len(b)) : t[i] = IF i <= Len(a) THEN a[i] ELSE b[i - Len(a)]
      BY <1>2, <1>3, <1>4, ConcatProperties
    <2>2. Len(a) + Len(b) = Len(s) - 1
      BY <1>1, <1>2, <1>3
    <2>3. ASSUME NEW i \in 1..(Len(s) - 1)
          PROVE  t[i] = IF i <= k - 1 THEN s[i] ELSE s[i + 1]
      <3>1. t[i] = IF i <= k - 1 THEN a[i] ELSE b[i - (k - 1)]
        BY <1>2, <2>1, <2>2
      <3>2. CASE i <= k - 1
        BY <1>1, <1>2, <3>1, <3>2
      <3>3. CASE ~(i <= k - 1)
        <4>1. i - (k - 1) \in 1..(Len(s) - k) /\ k + (i - (k - 1)) = i + 1
          BY <1>1, <3>3
        <4>2. b[i - (k - 1)] = s[i + 1]
          BY <1>3, <4>1
        <4> QED
          BY <3>1, <3>3, <4>2
      <3> QED
        BY <3>2, <3>3
    <2> QED
      BY <2>1, <2>2, <2>3
  <1>6. DOMAIN t = 1..(Len(s) - 1)
    BY <1>5
  <1> DEFINE from(i) == IF i <= k - 1 THEN i ELSE i + 1
  <1>7. \A i \in DOMAIN t : from(i) \in DOMAIN s /\ from(i) # k /\ t[i] = s[from(i)]
    BY <1>1, <1>5, <1>6
  <1>8. \A j \in DOMAIN s : j # k => \E i \in DOMAIN t : from(i) = j
    <2> SUFFICES ASSUME NEW j \in DOMAIN s, j # k PROVE \E i \in DOMAIN t : from(i) = j
      OBVIOUS
    <2>1. CASE j < k
      BY <1>1, <1>6, <2>1
    <2>2. CASE k < j
      <3>1. j - 1 \in DOMAIN t /\ from(j - 1) = j
        BY <1>1, <1>6, <2>2
      <3> QED
        BY <3>1
    <2> QED
      BY <1>1, <2>1, <2>2
  <1>9. \A i, j \in DOMAIN t : from(i) = from(j) => i = j
    BY <1>1, <1>6
  <1> HIDE DEF from
  <1>10. ToSet(t) = ToSet(s) \ {s[k]}
    <2>1. ToSet(t) = {t[i] : i \in DOMAIN t} /\ ToSet(s) = {s[i] : i \in DOMAIN s}
      BY DEF ToSet
    <2>2. ASSUME NEW p \in ToSet(t) PROVE p \in ToSet(s) \ {s[k]}
      <3>1. PICK i \in DOMAIN t : p = t[i]
        BY <2>1
      <3> QED
        BY <1>1, <1>7, <3>1, RosterFacts
    <2>3. ASSUME NEW p \in ToSet(s), p # s[k] PROVE p \in ToSet(t)
      <3>1. PICK j \in DOMAIN s : p = s[j]
        BY <2>1
      <3>2. PICK i \in DOMAIN t : from(i) = j
        BY <1>8, <2>3, <3>1
      <3> QED
        BY <1>7, <2>1, <3>1, <3>2
    <2> QED
      BY <2>2, <2>3
  <1>11. \A i, j \in DOMAIN t : t[i] = t[j] => i = j
    BY <1>7, <1>9, RosterFacts
  <1> QED
    BY <1>5, <1>10, <1>11 DEF Rosters, IsInjective, t

(* Another player takes a member's place. *)
LEMMA RosterRenamed ==
  ASSUME NEW s \in Rosters, NEW p \in ToSet(s), NEW q \in Player, q \notin ToSet(s)
  PROVE  /\ Renamed(s, p, q) \in Rosters /\ Len(Renamed(s, p, q)) = Len(s)
         /\ ToSet(Renamed(s, p, q)) = (ToSet(s) \ {p}) \union {q}
  <1> DEFINE t == Renamed(s, p, q)
  <1>1. s \in Seq(Player) /\ Len(s) \in Nat /\ DOMAIN s = 1..Len(s)
    BY RosterFacts DEF Rosters
  <1>2. /\ DOMAIN t = DOMAIN s
        /\ \A i \in DOMAIN s : t[i] = IF s[i] = p THEN q ELSE s[i]
    BY DEF Renamed
  <1>3. t \in Seq(Player) /\ Len(t) = Len(s)
    <2>1. t \in [1..Len(s) -> Player]
      BY <1>1, RosterFacts DEF Renamed
    <2> HIDE DEF t
    <2> QED
      BY <1>1, <2>1
  <1> HIDE DEF t
  <1>4. ToSet(t) = (ToSet(s) \ {p}) \union {q}
    <2>1. ToSet(t) = {t[i] : i \in DOMAIN t} /\ ToSet(s) = {s[i] : i \in DOMAIN s}
      BY DEF ToSet
    <2>2. PICK k \in DOMAIN s : s[k] = p
      BY RosterFacts
    <2> QED
      BY <1>2, <2>1, <2>2
  <1>5. \A i, j \in DOMAIN t : t[i] = t[j] => i = j
    <2>1. \A i \in DOMAIN s : s[i] # q
      BY RosterFacts
    <2> QED
      BY <1>2, <2>1, RosterFacts
  <1> QED
    BY <1>3, <1>4, <1>5 DEF Rosters, IsInjective, t

(* Of the members who stay one becomes the leader. *)
LEMMA SuccessorStays ==
  ASSUME NEW s \in Rosters, s # <<>>
  PROVE  Successor(s) \in ToSet(s)
  <1> DEFINE linked == {i \in DOMAIN s : account[s[i]] = "linked"}
  <1>1. DOMAIN s = 1..Len(s) /\ Len(s) \in Nat /\ 1 \in DOMAIN s
    BY RosterFacts
  <1>2. linked \subseteq Nat /\ linked \subseteq DOMAIN s
    BY <1>1
  <1>3. Successor(s) = s[IF linked = {} THEN 1 ELSE Min(linked)]
    BY DEF Successor
  <1> HIDE DEF linked
  <1>4. (IF linked = {} THEN 1 ELSE Min(linked)) \in DOMAIN s
    BY <1>1, <1>2, LeastOf
  <1> QED
    BY <1>3, <1>4, RosterFacts

(***************************************************************************)
(* The inductive invariant.                                                *)
(***************************************************************************)
Parties == [members : Rosters, leader : Player \union {None}, version : Nat]

Claims ==
  [status : {"none", "active", "cancelling", "cancelled", "completed"},
   party : Party \union {None}, requester : Player \union {None}, version : Nat,
   roster : SUBSET Player, changed : SUBSET Player, expired : BOOLEAN]

Typed ==
  /\ account \in [Player -> {"guest", "linked", "gone"}]
  /\ party \in [Party -> Parties]
  /\ invites \in [Party -> SUBSET Player]
  /\ claim \in [Claim -> Claims]
  /\ owner \in [Row -> Session \union {None}]
  /\ tx \in [Session -> Transactions]
  /\ calls \in 0..MaxCalls

Running(w) == tx[w].stage \in {"first", "snapshot", "involved"}

(* A transaction is of one of the shapes the code gives it. *)
TxShape(w) ==
  /\ tx[w] = Idle \/ (tx[w].op \in AllOperations /\ tx[w].actor \in Player /\ tx[w].stage # "none")
  /\ tx[w].op \in {"transfer", "merge"} => tx[w].other \in Player
  /\ tx[w].op = "merge" => tx[w].other # tx[w].actor
  /\ tx[w].op = "accept" => tx[w].other \in Party
  /\ tx[w].stage = "again" => tx[w].op \in Retried /\ tx[w].tries < 2 /\ tx[w].wants = <<>>
  /\ tx[w].stage = "snapshot" => tx[w].op = "claim"

Kept(w, p) == account[p] = "gone" \/ owner[p] = w

(* It holds its caller's row, and a merge the row of the linked account,   *)
(* unless that one is gone.                                                *)
TxLocks(w) ==
  /\ Running(w) => owner[tx[w].actor] = w /\ account[tx[w].actor] # "gone"
  /\ Running(w) /\ tx[w].op = "merge" =>
       Kept(w, tx[w].other) \/ (tx[w].stage = "first" /\ tx[w].wants = <<tx[w].other>>)

Outsider(p) == \A x \in Party : p \notin Members(x)

(* What it has read still holds: that its caller is in no party, and under *)
(* the party's lock whose party it is that is being queued.                *)
TxReads(w) ==
  /\ Running(w) /\ tx[w].hint = None => Outsider(tx[w].actor)
  /\ tx[w].stage = "snapshot" =>
       /\ tx[w].hint \in Party /\ owner[tx[w].hint] = w /\ NotQueued(tx[w].hint)
       /\ Exists(tx[w].hint)

(* A founder is not queued alone. *)
FounderFree(w) ==
  Running(w) /\ tx[w].op = "invite" /\ tx[w].hint = None => NotQueuedSolo(tx[w].actor)

(* The id of a claim that is being made is nobody else's. *)
TxClaims(w) ==
  tx[w].op = "claim" => \A c \in tx[w].claims : claim[c] = NoClaim /\ \A v \in Session \ {w} : c \notin tx[v].claims

PartySound(x) ==
  IF Exists(x)
  THEN /\ party[x].leader \in Members(x) /\ Len(party[x].members) <= MaxMembers
       /\ \A p \in Members(x) \union invites[x] : account[p] # "gone"
  ELSE party[x] = NoParty /\ invites[x] = {}

OneParty == \A x, y \in Party : x # y => Members(x) \cap Members(y) = {}

ClaimShape(c) ==
  \/ claim[c] = NoClaim
  \/ /\ claim[c].status # "none" /\ claim[c].roster # {} /\ claim[c].changed \subseteq claim[c].roster
     /\ claim[c].party = None => claim[c].roster = {claim[c].requester}

(* Who is queued alone is in no party. *)
SoloApart == \A c \in Claim : Live(c) /\ claim[c].party = None => Outsider(claim[c].requester)

TxSound == \A w \in Session : TxShape(w) /\ TxLocks(w) /\ TxReads(w) /\ TxClaims(w)

TablesSound == (\A x \in Party : PartySound(x)) /\ OneParty /\ (\A c \in Claim : ClaimShape(c))

Sound == Typed /\ TxSound /\ TablesSound /\ QueuedRosterIsFrozen

Apart == OneLiveClaim /\ SoloApart /\ \A w \in Session : FounderFree(w)

(***************************************************************************)
(* Reading the tables.                                                     *)
(***************************************************************************)
LEMMA NoneIsNothing == None \notin Player /\ None \notin Party /\ None \notin Session
  BY DurablePartyAssumption

LEMMA PartyFacts ==
  ASSUME Typed, NEW x \in Party
  PROVE  /\ party[x] \in Parties /\ party[x].members \in Rosters
         /\ party[x].leader \in Player \union {None} /\ party[x].version \in Nat
         /\ Members(x) \subseteq Player
         /\ Exists(x) <=> Members(x) # {}
  <1>1. party[x] \in Parties
    BY DEF Typed
  <1>2. party[x].members \in Rosters /\ party[x].leader \in Player \union {None} /\ party[x].version \in Nat
    BY <1>1 DEF Parties
  <1> QED
    BY <1>1, <1>2, RosterFacts DEF Members, Exists

LEMMA PartyOfIs ==
  ASSUME OneParty, NEW p
  PROVE  /\ PartyOf(p) = None <=> Outsider(p)
         /\ PartyOf(p) \in Party \union {None}
         /\ \A x \in Party : PartyOf(p) = x <=> p \in Members(x)
  <1>1. CASE \E x \in Party : p \in Members(x)
    <2>1. PartyOf(p) = CHOOSE x \in Party : p \in Members(x)
      BY <1>1 DEF PartyOf
    <2>2. PartyOf(p) \in Party /\ p \in Members(PartyOf(p))
      BY <1>1, <2>1
    <2>3. ASSUME NEW x \in Party, p \in Members(x)
          PROVE  PartyOf(p) = x
      BY <2>2, <2>3 DEF OneParty
    <2>4. ~Outsider(p)
      BY <1>1 DEF Outsider
    <2> QED
      BY <2>2, <2>3, <2>4, NoneIsNothing
  <1>2. CASE ~\E x \in Party : p \in Members(x)
    <2>1. PartyOf(p) = None /\ Outsider(p)
      BY <1>2 DEF PartyOf, Outsider
    <2> QED
      BY <1>2, <2>1, NoneIsNothing
  <1> QED
    BY <1>1, <1>2

LEMMA TxFacts ==
  ASSUME Typed, NEW w \in Session
  PROVE  /\ tx[w] \in Transactions /\ tx[w].hint \in Party \union {None} /\ tx[w].claims \subseteq Claim
         /\ tx[w].wants \in Seq(Row) /\ tx[w].other \in Row \union {None} /\ tx[w].tries \in 0..2
         /\ tx[w].actor \in Player \union {None} /\ tx[w].op \in AllOperations \union {"none"}
         /\ tx[w].stage \in {"none", "first", "snapshot", "involved", "again"}
  <1>1. tx[w] \in Transactions
    BY DEF Typed
  <1> QED
    BY <1>1 DEF Transactions

(* A transaction that goes on with its operation. *)
LEMMA ReadyRuns ==
  ASSUME Typed, NEW w \in Session, TxShape(w), NEW op \in AllOperations, Ready(w, op)
  PROVE  Running(w) /\ tx[w].actor \in Player /\ tx[w].op = op /\ tx[w].wants = <<>>
  <1>1. tx[w].op = op /\ tx[w].wants = <<>> /\ tx[w].stage # "again"
    BY DEF Ready
  <1>2. op # "none" /\ Idle.op = "none"
    BY DEF AllOperations, Idle
  <1>3. tx[w].actor \in Player /\ tx[w].stage # "none"
    BY <1>1, <1>2 DEF TxShape
  <1> QED
    BY <1>1, <1>3, TxFacts DEF Running

LEMMA CurrentIs ==
  ASSUME Typed, OneParty, NEW w \in Session, Current(w)
  PROVE  /\ tx[w].hint \in Party /\ owner[tx[w].hint] = w
         /\ tx[w].actor \in Members(tx[w].hint) /\ Exists(tx[w].hint)
  <1>1. /\ tx[w].hint \in Party /\ owner[tx[w].hint] = w /\ PartyOf(tx[w].actor) = tx[w].hint
    BY TxFacts DEF Current, Holds
  <1>2. tx[w].actor \in Members(tx[w].hint)
    BY <1>1, PartyOfIs
  <1> QED
    BY <1>1, <1>2, PartyFacts

(***************************************************************************)
(* Writing them.                                                           *)
(***************************************************************************)
LEMMA Removal ==
  ASSUME Typed, NEW x \in Party, NEW p \in Members(x)
  PROVE  /\ OthersOf(x, p) \in Rosters
         /\ Len(OthersOf(x, p)) = Len(party[x].members) - 1
         /\ ToSet(OthersOf(x, p)) = Members(x) \ {p}
  <1> DEFINE s == party[x].members
             k == CHOOSE i \in DOMAIN s : s[i] = p
  <1>1. s \in Rosters /\ p \in ToSet(s)
    BY PartyFacts DEF Members
  <1>2. OthersOf(x, p) = RemoveAt(s, k)
    BY DEF OthersOf
  <1>3. Members(x) = ToSet(s)
    BY DEF Members
  <1> HIDE DEF s
  <1>4. \E i \in DOMAIN s : s[i] = p
    BY <1>1, RosterFacts
  <1>5. k \in DOMAIN s /\ s[k] = p
    BY <1>4
  <1> HIDE DEF k
  <1>6. /\ RemoveAt(s, k) \in Rosters /\ Len(RemoveAt(s, k)) = Len(s) - 1
        /\ ToSet(RemoveAt(s, k)) = ToSet(s) \ {s[k]}
    BY <1>1, <1>5, RosterShrunk
  <1> QED
    BY <1>2, <1>3, <1>5, <1>6 DEF s

(* What a party row may be written to be. *)
SoundRow(P) ==
  /\ P \in Parties
  /\ IF P.members = <<>> THEN P = NoParty
     ELSE P.leader \in ToSet(P.members) /\ Len(P.members) <= MaxMembers

LEMMA ChangedRow ==
  ASSUME Typed, NEW x \in Party, NEW s \in Rosters, s # <<>>, Len(s) <= MaxMembers, NEW p \in ToSet(s)
  PROVE  SoundRow(Changed(x, s, p)) /\ Changed(x, s, p).members = s
  <1>1. p \in Player /\ party[x].version + 1 \in Nat
    BY PartyFacts, RosterFacts
  <1>2. Changed(x, s, p) = [members |-> s, leader |-> p, version |-> party[x].version + 1]
    BY DEF Changed
  <1>3. Changed(x, s, p) \in Parties
    BY <1>1, <1>2 DEF Parties
  <1> QED
    BY <1>2, <1>3 DEF SoundRow

LEMMA EmptyRow ==
  SoundRow(NoParty) /\ NoParty.members = <<>> /\ ToSet(NoParty.members) = {}
  <1>1. <<>> \in Rosters
    <2>1. <<>> \in Seq(Player) /\ DOMAIN <<>> = {}
      OBVIOUS
    <2> QED
      BY <2>1 DEF Rosters, IsInjective
  <1>2. NoParty \in Parties /\ NoParty.members = <<>>
    BY <1>1 DEF NoParty, Parties
  <1> QED
    BY <1>1, <1>2, RosterFacts DEF SoundRow

LEMMA PartyAfterRow ==
  ASSUME Typed, NEW x \in Party, PartySound(x), NEW p \in Members(x)
  PROVE  SoundRow(PartyAfter(x, p)) /\ ToSet(PartyAfter(x, p).members) = Members(x) \ {p}
  <1> DEFINE s == OthersOf(x, p)
  <1>1. /\ s \in Rosters /\ Len(s) = Len(party[x].members) - 1 /\ ToSet(s) = Members(x) \ {p}
    BY Removal
  <1>2. /\ Exists(x) /\ party[x].leader \in Members(x) /\ Len(party[x].members) <= MaxMembers
        /\ Len(party[x].members) \in Nat
    BY PartyFacts, RosterFacts DEF PartySound
  <1>3. Len(s) <= MaxMembers
    BY <1>1, <1>2 DEF MaxMembers
  <1>4. CASE s = <<>>
    <2>1. PartyAfter(x, p) = NoParty
      BY <1>4 DEF PartyAfter
    <2>2. ToSet(s) = {}
      BY <1>1, <1>4, RosterFacts
    <2> QED
      BY <1>1, <2>1, <2>2, EmptyRow
  <1>5. CASE s # <<>>
    <2>1. PartyAfter(x, p) = Changed(x, s, LeaderAfter(x, p))
      BY <1>5 DEF PartyAfter
    <2>2. LeaderAfter(x, p) \in ToSet(s)
      <3>1. CASE Leads(p, x)
        <4>1. LeaderAfter(x, p) = Successor(s)
          BY <3>1 DEF LeaderAfter
        <4> HIDE DEF s
        <4> QED
          BY <1>1, <1>5, <4>1, SuccessorStays
      <3>2. CASE ~Leads(p, x)
        <4>1. LeaderAfter(x, p) = party[x].leader /\ party[x].leader # p
          BY <1>2, <3>2 DEF LeaderAfter, Leads
        <4> QED
          BY <1>1, <1>2, <4>1
      <3> QED
        BY <3>1, <3>2
    <2> HIDE DEF s
    <2>3. SoundRow(Changed(x, s, LeaderAfter(x, p))) /\ Changed(x, s, LeaderAfter(x, p)).members = s
      BY <1>1, <1>3, <1>5, <2>2, ChangedRow
    <2> QED
      BY <1>1, <2>1, <2>3
  <1> QED
    BY <1>4, <1>5

(***************************************************************************)
(* What a step of session w may do; of no session when time passes.        *)
(***************************************************************************)
Around(w) ==
  \A v \in Session \ {w} : tx'[v] = tx[v] /\ \A r \in Row : owner'[r] = v <=> owner[r] = v

Rostered(p) == \E y \in Party : p \in ToSet(party'[y].members)

(* An account goes only while its row is locked, and out of every party.   *)
AccountStep(w) ==
  \A p \in Player :
    /\ account[p] = "gone" => account'[p] = "gone"
    /\ account'[p] = "gone" /\ account[p] # "gone" => owner[p] = w /\ ~Rostered(p)

(* Who joins a party has their row locked, is in no party, and is not      *)
(* queued alone.                                                           *)
Joins(w, n) ==
  /\ w \in Session /\ n \in Player /\ owner[n] = w /\ account[n] # "gone" /\ Outsider(n)
  /\ FounderFree(w) => NotQueuedSolo(n)

Rewrites(w, x) ==
  /\ NotQueued(x) /\ (owner[x] = w \/ ~Exists(x))
  /\ SoundRow(party'[x])
  /\ \A n \in ToSet(party'[x].members) \ Members(x) : Joins(w, n)
  /\ \A y \in Party \ {x} : party'[y] = party[y]

RosterStep(w) == party' = party \/ \E x \in Party : Rewrites(w, x)

InviteStep ==
  \A y \in Party :
    /\ party'[y].members = <<>> => invites'[y] = {}
    /\ \A p \in invites'[y] : account'[p] # "gone"

Successions == {<<"active", "cancelling">>, <<"cancelling", "cancelled">>, <<"active", "completed">>}

Fades(c) ==
  \/ claim'[c] = NoClaim
  \/ /\ claim[c] # NoClaim
     /\ claim'[c].party = claim[c].party /\ claim'[c].requester = claim[c].requester
     /\ claim'[c].version = claim[c].version /\ claim'[c].roster = claim[c].roster
     /\ claim'[c].changed \subseteq claim[c].roster
     /\ claim'[c].status = claim[c].status \/ <<claim[c].status, claim'[c].status>> \in Successions
     /\ claim[c].expired => claim'[c].expired

Makes(w, c) ==
  /\ w \in Session /\ Running(w) /\ tx[w].op = "claim" /\ c \in tx[w].claims /\ party' = party
  /\ \/ MayQueueSolo(w) /\ claim'[c] = NewClaim(None, tx[w].actor, 1, {tx[w].actor})
     \/ tx[w].stage = "snapshot" /\ claim'[c] = QueueClaim(tx[w].hint)
  /\ \A d \in Claim \ {c} : claim'[d] = claim[d]

ClaimStep(w) == (\A c \in Claim : Fades(c)) \/ (\E c \in Claim : Makes(w, c))

OwnStep(w) ==
  w \in Session =>
    /\ TxShape(w)' /\ TxLocks(w)' /\ TxReads(w)' /\ TxClaims(w)'
    /\ SoloMixes \/ (FounderFree(w) => FounderFree(w)')
    /\ \A v \in Session \ {w} : tx[v].op = "claim" => tx'[w].claims \cap tx[v].claims = {}

Step(w) ==
  Typed' /\ Around(w) /\ AccountStep(w) /\ RosterStep(w) /\ InviteStep /\ ClaimStep(w) /\ OwnStep(w)

(***************************************************************************)
(* Such a step keeps the invariant.                                        *)
(***************************************************************************)
LEMMA FadesHow ==
  ASSUME NEW c \in Claim, Fades(c)
  PROVE  /\ Live(c)' => Live(c) /\ claim'[c].party = claim[c].party /\ claim'[c].requester = claim[c].requester
                        /\ claim'[c].version = claim[c].version /\ claim'[c].roster = claim[c].roster
         /\ claim[c] = NoClaim => claim'[c] = NoClaim
  <1>1. NoClaim.status = "none"
    BY DEF NoClaim
  <1>2. CASE claim'[c] = NoClaim
    BY <1>1, <1>2 DEF Live
  <1>3. CASE claim'[c] # NoClaim
    BY <1>3 DEF Fades, Live, Successions
  <1> QED
    BY <1>2, <1>3

LEMMA SameFades ==
  ASSUME NEW c \in Claim, ClaimShape(c), claim'[c] = claim[c]
  PROVE  Fades(c)
  BY DEF Fades, ClaimShape

(* What a new claim says. *)
LEMMA MakesHow ==
  ASSUME Sound, NEW w, NEW c \in Claim, Makes(w, c)
  PROVE  /\ claim[c] = NoClaim /\ tx[w].actor \in Player /\ owner[tx[w].actor] = w
         /\ \A d \in Claim \ {c} : Fades(d)
         /\ claim'[c].status = "active" /\ claim'[c].changed = {} /\ claim'[c].roster # {}
         /\ \/ /\ claim'[c].party = None /\ claim'[c].requester = tx[w].actor
               /\ claim'[c].roster = {tx[w].actor}
               /\ Outsider(tx[w].actor) /\ NotQueuedSolo(tx[w].actor)
            \/ /\ tx[w].hint \in Party /\ claim'[c].party = tx[w].hint /\ tx[w].stage = "snapshot"
               /\ claim'[c].roster = Members(tx[w].hint)
               /\ claim'[c].version = party[tx[w].hint].version
               /\ owner[tx[w].hint] = w /\ NotQueued(tx[w].hint) /\ Exists(tx[w].hint)
  <1>1. /\ w \in Session /\ Running(w) /\ tx[w].op = "claim" /\ c \in tx[w].claims
        /\ \A d \in Claim \ {c} : claim'[d] = claim[d]
    BY DEF Makes
  <1>2. TxShape(w) /\ TxLocks(w) /\ TxReads(w) /\ TxClaims(w) /\ Typed /\ TablesSound
    BY <1>1 DEF Sound, TxSound
  <1>3. claim[c] = NoClaim
    BY <1>1, <1>2 DEF TxClaims
  <1>4. tx[w].actor \in Player
    BY <1>1, <1>2 DEF TxShape, Idle
  <1>5. owner[tx[w].actor] = w
    BY <1>1, <1>2 DEF TxLocks
  <1>6. \A d \in Claim \ {c} : Fades(d)
    BY <1>1, <1>2, SameFades DEF TablesSound
  <1>7. CASE MayQueueSolo(w) /\ claim'[c] = NewClaim(None, tx[w].actor, 1, {tx[w].actor})
    <2>1. tx[w].hint = None /\ NotQueuedSolo(tx[w].actor)
      BY <1>7 DEF MayQueueSolo
    <2>2. Outsider(tx[w].actor)
      BY <1>1, <1>2, <2>1 DEF TxReads
    <2> QED
      BY <1>3, <1>4, <1>5, <1>6, <1>7, <2>1, <2>2 DEF NewClaim
  <1>8. CASE tx[w].stage = "snapshot" /\ claim'[c] = QueueClaim(tx[w].hint)
    <2>1. /\ tx[w].hint \in Party /\ owner[tx[w].hint] = w /\ NotQueued(tx[w].hint) /\ Exists(tx[w].hint)
      BY <1>2, <1>8 DEF TxReads
    <2>2. Members(tx[w].hint) # {}
      BY <1>2, <2>1, PartyFacts
    <2>3. /\ claim'[c].status = "active" /\ claim'[c].changed = {} /\ claim'[c].party = tx[w].hint
          /\ claim'[c].roster = Members(tx[w].hint) /\ claim'[c].version = party[tx[w].hint].version
      BY <1>8 DEF QueueClaim, NewClaim, Members
    <2> QED
      BY <1>3, <1>4, <1>5, <1>6, <1>8, <2>1, <2>2, <2>3
  <1> QED
    BY <1>7, <1>8 DEF Makes

LEMMA NotQueuedKept ==
  ASSUME Sound, NEW w, ClaimStep(w), NEW x \in Party, NotQueued(x), owner[x] # w \/ w \notin Session
  PROVE  NotQueued(x)'
  <1> SUFFICES ASSUME NEW c \in Claim, Live(c)'
               PROVE  claim'[c].party # x
    BY DEF NotQueued, Unsettled, Live
  <1>1. CASE Fades(c)
    <2>1. Live(c) /\ claim'[c].party = claim[c].party
      BY <1>1, FadesHow
    <2> QED
      BY <2>1 DEF NotQueued, Unsettled, Live
  <1>2. CASE ~Fades(c)
    <2>1. Makes(w, c)
      BY <1>2, MakesHow DEF ClaimStep
    <2>2. w \in Session
      BY <2>1 DEF Makes
    <2> QED
      BY <2>1, <2>2, MakesHow, NoneIsNothing
  <1> QED
    BY <1>1, <1>2

LEMMA NotQueuedSoloKept ==
  ASSUME Sound, NEW w, ClaimStep(w), NEW p \in Player, NotQueuedSolo(p), owner[p] # w \/ w \notin Session
  PROVE  NotQueuedSolo(p)'
  <1> SUFFICES ASSUME NEW c \in Claim, Live(c)', claim'[c].party = None
               PROVE  claim'[c].requester # p
    BY DEF NotQueuedSolo, Unsettled, Live
  <1>1. CASE Fades(c)
    <2>1. Live(c) /\ claim[c].party = None /\ claim'[c].requester = claim[c].requester
      BY <1>1, FadesHow
    <2> QED
      BY <2>1 DEF NotQueuedSolo, Unsettled, Live
  <1>2. CASE ~Fades(c)
    <2>1. Makes(w, c)
      BY <1>2, MakesHow DEF ClaimStep
    <2>2. w \in Session
      BY <2>1 DEF Makes
    <2> QED
      BY <2>1, <2>2, MakesHow, NoneIsNothing
  <1> QED
    BY <1>1, <1>2

(* A party row that a step leaves, or writes. *)
LEMMA RowHow ==
  ASSUME NEW w, RosterStep(w), NEW x \in Party
  PROVE  party'[x] = party[x] \/ Rewrites(w, x)
  BY DEF RosterStep, Rewrites

LEMMA MembersHow ==
  ASSUME Sound, NEW w, RosterStep(w), NEW x \in Party, NEW p \in ToSet(party'[x].members)
  PROVE  p \in Members(x) \/ Joins(w, p)
  BY RowHow DEF Rewrites, Members

LEMMA PartySoundKept ==
  ASSUME Sound, NEW w, RosterStep(w), AccountStep(w), InviteStep, NEW x \in Party
  PROVE  PartySound(x)'
  <1>1. PartySound(x)
    BY DEF Sound, TablesSound
  <1>2. \A p \in ToSet(party'[x].members) : account'[p] # "gone"
    <2> SUFFICES ASSUME NEW p \in ToSet(party'[x].members), account'[p] = "gone" PROVE FALSE
      OBVIOUS
    <2>1. p \in Members(x) \/ Joins(w, p)
      BY MembersHow
    <2>2. p \in Player
      BY <2>1, PartyFacts DEF Sound, Joins
    <2>3. account[p] # "gone"
      <3>1. CASE p \in Members(x)
        <4>1. Exists(x)
          BY <3>1, PartyFacts DEF Sound
        <4> QED
          BY <1>1, <3>1, <4>1 DEF PartySound
      <3> QED
        BY <2>1, <3>1 DEF Joins
    <2>4. ~Rostered(p)
      BY <2>2, <2>3 DEF AccountStep
    <2> QED
      BY <2>4 DEF Rostered
  <1>3. /\ party'[x].members = <<>> => invites'[x] = {}
        /\ \A p \in invites'[x] : account'[p] # "gone"
    BY DEF InviteStep
  <1>4. IF party'[x].members = <<>> THEN party'[x] = NoParty
        ELSE party'[x].leader \in ToSet(party'[x].members) /\ Len(party'[x].members) <= MaxMembers
    <2>1. CASE party'[x] = party[x]
      BY <1>1, <2>1 DEF PartySound, Exists, Members
    <2>2. CASE Rewrites(w, x)
      BY <2>2 DEF Rewrites, SoundRow
    <2> QED
      BY <2>1, <2>2, RowHow
  <1> QED
    BY <1>2, <1>3, <1>4 DEF PartySound, Exists, Members

LEMMA OnePartyKept ==
  ASSUME Sound, NEW w, RosterStep(w)
  PROVE  OneParty'
  <1> SUFFICES ASSUME NEW x \in Party, NEW y \in Party, x # y,
                      NEW p \in ToSet(party'[x].members) \cap ToSet(party'[y].members)
               PROVE  FALSE
    BY DEF OneParty, Members
  <1>1. OneParty
    BY DEF Sound, TablesSound
  <1>2. p \in Members(x) \/ p \in Members(y)
    <2>1. party'[x] = party[x] \/ party'[y] = party[y]
      BY RowHow DEF Rewrites
    <2> QED
      BY <2>1 DEF Members
  <1>3. ~Joins(w, p)
    BY <1>2 DEF Joins, Outsider
  <1>4. p \in Members(x) /\ p \in Members(y)
    BY <1>3, MembersHow
  <1> QED
    BY <1>1, <1>4 DEF OneParty

LEMMA ClaimShapeKept ==
  ASSUME Sound, NEW w, ClaimStep(w), NEW c \in Claim
  PROVE  ClaimShape(c)'
  <1>1. ClaimShape(c)
    BY DEF Sound, TablesSound
  <1>2. CASE Fades(c)
    <2>1. CASE claim'[c] = NoClaim
      BY <2>1 DEF ClaimShape
    <2>2. CASE claim'[c] # NoClaim
      <3>1. claim'[c].status # "none"
        BY <1>1, <1>2, <2>2 DEF Fades, Successions, ClaimShape
      <3> QED
        BY <1>1, <1>2, <2>2, <3>1 DEF Fades, ClaimShape
    <2> QED
      BY <2>1, <2>2
  <1>3. CASE ~Fades(c)
    <2>1. Makes(w, c)
      BY <1>3, MakesHow DEF ClaimStep
    <2>2. claim'[c].party = None => claim'[c].roster = {claim'[c].requester}
      BY <2>1, MakesHow, NoneIsNothing
    <2>3. claim'[c].status # "none" /\ claim'[c].roster # {} /\ claim'[c].changed = {}
      BY <2>1, MakesHow
    <2> QED
      BY <2>2, <2>3 DEF ClaimShape
  <1> QED
    BY <1>2, <1>3

LEMMA FrozenKept ==
  ASSUME Sound, NEW w, RosterStep(w), ClaimStep(w)
  PROVE  QueuedRosterIsFrozen'
  <1> SUFFICES ASSUME NEW c \in Claim, Live(c)', claim'[c].party # None, NEW x, x = claim'[c].party
               PROVE  /\ party'[x].members # <<>> /\ ToSet(party'[x].members) = claim'[c].roster
                      /\ party'[x].version = claim'[c].version
    BY DEF QueuedRosterIsFrozen, Exists, Members
  <1>1. CASE Fades(c)
    <2>1. Live(c) /\ claim[c].party = x /\ claim'[c].roster = claim[c].roster /\ claim'[c].version = claim[c].version
      BY <1>1, FadesHow
    <2>2. x \in Party
      BY <2>1 DEF Sound, Typed, Claims
    <2>3. Exists(x) /\ Members(x) = claim[c].roster /\ party[x].version = claim[c].version
      BY <2>1 DEF Sound, QueuedRosterIsFrozen
    <2>4. ~Rewrites(w, x)
      BY <2>1 DEF Rewrites, NotQueued, Unsettled, Live
    <2>5. party'[x] = party[x]
      BY <2>2, <2>4, RowHow
    <2> QED
      BY <2>1, <2>3, <2>5 DEF Exists, Members
  <1>2. CASE ~Fades(c)
    <2>1. Makes(w, c)
      BY <1>2, MakesHow DEF ClaimStep
    <2>2. party' = party
      BY <2>1 DEF Makes
    <2>3. /\ x \in Party /\ claim'[c].roster = Members(x) /\ claim'[c].version = party[x].version /\ Exists(x)
      BY <2>1, MakesHow
    <2> QED
      BY <2>2, <2>3 DEF Exists, Members
  <1> QED
    BY <1>1, <1>2

(* The transactions of the other sessions are where they were. *)
LEMMA OthersKept ==
  ASSUME Sound, NEW w, Step(w), NEW v \in Session, v # w
  PROVE  TxShape(v)' /\ TxLocks(v)' /\ TxReads(v)' /\ TxClaims(v)'
  <1>1. TxShape(v) /\ TxLocks(v) /\ TxReads(v) /\ TxClaims(v) /\ Typed /\ TablesSound
    BY DEF Sound, TxSound
  <1>2. tx'[v] = tx[v] /\ \A r \in Row : owner'[r] = v <=> owner[r] = v
    BY DEF Step, Around
  <1>3. TxShape(v)'
    BY <1>1, <1>2 DEF TxShape, Retried
  <1>4. Running(v)' <=> Running(v)
    BY <1>2 DEF Running
  <1>5. \A p \in Player : (account[p] # "gone" /\ owner[p] = v => account'[p] # "gone") /\ (Kept(v, p) => Kept(v, p)')
    <2> TAKE p \in Player
    <2>1. /\ account[p] = "gone" => account'[p] = "gone"
          /\ account'[p] = "gone" /\ account[p] # "gone" => owner[p] = w
      BY DEF Step, AccountStep
    <2>2. owner'[p] = v <=> owner[p] = v
      BY <1>2 DEF Row
    <2> QED
      BY <2>1, <2>2 DEF Kept
  <1>6. TxLocks(v)'
    <2>1. ASSUME Running(v) PROVE owner'[tx'[v].actor] = v /\ account'[tx'[v].actor] # "gone"
      <3>1. tx[v].actor \in Player
        BY <1>1, <2>1 DEF TxShape, Idle, Running
      <3>2. owner[tx[v].actor] = v /\ account[tx[v].actor] # "gone"
        BY <1>1, <2>1 DEF TxLocks
      <3> QED
        BY <1>2, <1>5, <3>1, <3>2 DEF Row
    <2>2. ASSUME Running(v), tx[v].op = "merge"
          PROVE  Kept(v, tx[v].other)' \/ (tx'[v].stage = "first" /\ tx'[v].wants = <<tx'[v].other>>)
      <3>1. tx[v].other \in Player
        BY <1>1, <2>2 DEF TxShape
      <3>2. Kept(v, tx[v].other) \/ (tx[v].stage = "first" /\ tx[v].wants = <<tx[v].other>>)
        BY <1>1, <2>2 DEF TxLocks
      <3>3. CASE Kept(v, tx[v].other)
        <4>1. account'[tx[v].other] = "gone" \/ owner'[tx[v].other] = v
          BY <1>5, <3>1, <3>3 DEF Kept
        <4> QED
          BY <1>2, <4>1 DEF Kept
      <3> QED
        BY <1>2, <3>2, <3>3
    <2> QED
      BY <1>2, <1>4, <2>1, <2>2 DEF TxLocks
  <1>7. TxReads(v)'
    <2>1. ASSUME Running(v), tx[v].hint = None PROVE Outsider(tx[v].actor)'
      <3>1. /\ tx[v].actor \in Player /\ owner[tx[v].actor] = v /\ Outsider(tx[v].actor)
        BY <1>1, <2>1 DEF TxShape, TxLocks, TxReads, Idle, Running
      <3>2. ~Joins(w, tx[v].actor)
        BY <3>1 DEF Joins
      <3>3. \A x \in Party : tx[v].actor \notin ToSet(party'[x].members)
        BY <3>1, <3>2, MembersHow DEF Step, Outsider
      <3> QED
        BY <1>2, <3>3 DEF Outsider, Members
    <2>2. ASSUME tx[v].stage = "snapshot", NEW x, x = tx[v].hint
          PROVE  x \in Party /\ owner'[x] = v /\ NotQueued(x)' /\ party'[x].members # <<>>
      <3>1. x \in Party /\ owner[x] = v /\ NotQueued(x) /\ Exists(x)
        BY <1>1, <2>2 DEF TxReads
      <3>2. owner'[x] = v
        BY <1>2, <3>1 DEF Row
      <3>3. NotQueued(x)'
        BY <3>1, NotQueuedKept DEF Step
      <3>4. party'[x] = party[x]
        BY <3>1, RowHow DEF Step, Rewrites
      <3> QED
        BY <3>1, <3>2, <3>3, <3>4 DEF Exists
    <2>3. ASSUME tx[v].stage = "snapshot"
          PROVE  tx[v].hint \in Party /\ owner'[tx[v].hint] = v /\ NotQueued(tx[v].hint)' /\ Exists(tx[v].hint)'
      BY <1>2, <2>2, <2>3 DEF NotQueued, Exists
    <2> QED
      BY <1>2, <1>4, <2>1, <2>3 DEF TxReads
  <1>8. TxClaims(v)'
    <2> SUFFICES ASSUME tx[v].op = "claim", NEW c \in tx[v].claims
                 PROVE  claim'[c] = NoClaim /\ \A u \in Session \ {v} : c \notin tx'[u].claims
      BY <1>2 DEF TxClaims
    <2>1. c \in Claim /\ claim[c] = NoClaim /\ \A u \in Session \ {v} : c \notin tx[u].claims
      BY <1>1, TxFacts DEF TxClaims
    <2>2. \A u \in Session \ {v} : c \notin tx'[u].claims
      BY <2>1 DEF Step, Around, OwnStep
    <2>3. ~Makes(w, c)
      BY <2>1 DEF Makes
    <2>4. Fades(c)
      <3>1. ClaimStep(w)
        BY DEF Step
      <3> QED
        BY <2>1, <2>3, <3>1, MakesHow DEF ClaimStep
    <2> QED
      BY <2>1, <2>2, <2>4, FadesHow
  <1> QED
    BY <1>3, <1>6, <1>7, <1>8

LEMMA SoundKept ==
  ASSUME Sound, NEW w, Step(w)
  PROVE  Sound'
  <1>1. Typed'
    BY DEF Step
  <1>2. TxSound'
    <2> SUFFICES ASSUME NEW v \in Session PROVE TxShape(v)' /\ TxLocks(v)' /\ TxReads(v)' /\ TxClaims(v)'
      BY DEF TxSound
    <2>1. CASE v = w
      BY <2>1 DEF Step, OwnStep
    <2>2. CASE v # w
      BY <2>2, OthersKept
    <2> QED
      BY <2>1, <2>2
  <1>3. TablesSound'
    BY PartySoundKept, OnePartyKept, ClaimShapeKept DEF Step, TablesSound
  <1>4. QueuedRosterIsFrozen'
    BY FrozenKept DEF Step
  <1> QED
    BY <1>1, <1>2, <1>3, <1>4 DEF Sound

(* A player is in the rosters of two live claims only if SoloMixes.        *)
LEMMA FounderKept ==
  ASSUME Sound, NEW w, Step(w), NEW v \in Session, v # w, FounderFree(v)
  PROVE  FounderFree(v)'
  <1>1. TxShape(v) /\ TxLocks(v)
    BY DEF Sound, TxSound
  <1>2. tx'[v] = tx[v]
    BY DEF Step, Around
  <1> SUFFICES ASSUME Running(v), tx[v].op = "invite", tx[v].hint = None, NEW p, p = tx[v].actor
               PROVE  NotQueuedSolo(p)'
    BY <1>2 DEF FounderFree, Running, NotQueuedSolo
  <1>3. p \in Player /\ owner[p] = v /\ NotQueuedSolo(p)
    BY <1>1 DEF TxShape, TxLocks, FounderFree, Running, Idle
  <1> QED
    BY <1>3, NotQueuedSoloKept DEF Step

LEMMA SoloApartKept ==
  ASSUME Sound, Apart, NEW w, Step(w)
  PROVE  SoloApart'
  <1> SUFFICES ASSUME NEW c \in Claim, Live(c)', claim'[c].party = None,
                      NEW p, p = claim'[c].requester, NEW x \in Party, p \in ToSet(party'[x].members)
               PROVE  FALSE
    BY DEF SoloApart, Outsider, Members
  <1>0. ClaimStep(w) /\ RosterStep(w)
    BY DEF Step
  <1>1. CASE Fades(c)
    <2>1. Live(c) /\ claim[c].party = None /\ claim[c].requester = p
      BY <1>1, FadesHow
    <2>2. Outsider(p) /\ ~NotQueuedSolo(p)
      BY <2>1 DEF Apart, SoloApart, NotQueuedSolo, Unsettled, Live
    <2>3. Joins(w, p)
      BY <1>0, <2>2, MembersHow DEF Outsider
    <2>4. FounderFree(w)
      BY <2>3 DEF Joins, Apart
    <2> QED
      BY <2>2, <2>3, <2>4 DEF Joins
  <1>2. CASE ~Fades(c)
    <2>1. Makes(w, c)
      BY <1>0, <1>2, MakesHow DEF ClaimStep
    <2>2. party' = party
      BY <2>1 DEF Makes
    <2>3. p = tx[w].actor /\ Outsider(tx[w].actor)
      BY <2>1, MakesHow, NoneIsNothing
    <2> QED
      BY <2>2, <2>3 DEF Outsider, Members
  <1> QED
    BY <1>1, <1>2

(* Whose claim is live is in its roster alone or with the party.           *)
LEMMA LiveRoster ==
  ASSUME Sound, NEW c \in Claim, Live(c)
  PROVE  \/ claim[c].party = None /\ claim[c].roster = {claim[c].requester}
         \/ claim[c].party \in Party /\ claim[c].roster = Members(claim[c].party)
  <1>1. ClaimShape(c) /\ claim[c] \in Claims
    BY DEF Sound, TablesSound, Typed
  <1>2. claim[c] # NoClaim
    BY DEF Live, NoClaim
  <1> QED
    BY <1>1, <1>2 DEF ClaimShape, Claims, Sound, QueuedRosterIsFrozen

LEMMA OneLiveKept ==
  ASSUME Sound, Apart, NEW w, Step(w)
  PROVE  OneLiveClaim'
  <1>0. ClaimStep(w)
    BY DEF Step
  <1> SUFFICES ASSUME NEW c \in Claim, NEW d \in Claim, c # d, Live(c)', Live(d)'
               PROVE  claim'[c].roster \cap claim'[d].roster = {}
    BY DEF OneLiveClaim
  <1>1. CASE Fades(c) /\ Fades(d)
    <2>1. Live(c) /\ Live(d) /\ claim'[c].roster = claim[c].roster /\ claim'[d].roster = claim[d].roster
      BY <1>1, FadesHow
    <2> QED
      BY <2>1 DEF Apart, OneLiveClaim
  <1>2. ASSUME NEW a \in Claim, NEW b \in Claim, a # b, Makes(w, a), Live(b)'
        PROVE  claim'[a].roster \cap claim'[b].roster = {}
    <2>1. Fades(b)
      BY <1>2, MakesHow
    <2>2. /\ Live(b) /\ claim'[b].roster = claim[b].roster
      BY <1>2, <2>1, FadesHow
    <2>3. \/ claim[b].party = None /\ claim[b].roster = {claim[b].requester} /\ Outsider(claim[b].requester)
          \/ claim[b].party \in Party /\ claim[b].roster = Members(claim[b].party)
      BY <2>2, LiveRoster DEF Apart, SoloApart
    <2>4. CASE /\ claim'[a].roster = {tx[w].actor}
               /\ Outsider(tx[w].actor) /\ NotQueuedSolo(tx[w].actor)
      <3>1. claim[b].party = None => claim[b].requester # tx[w].actor
        BY <2>2, <2>4 DEF NotQueuedSolo, Unsettled, Live
      <3> QED
        BY <2>2, <2>3, <2>4, <3>1, NoneIsNothing DEF Outsider
    <2>5. CASE /\ tx[w].hint \in Party /\ claim'[a].roster = Members(tx[w].hint)
               /\ NotQueued(tx[w].hint)
      <3>1. claim[b].party # tx[w].hint
        BY <2>2, <2>5 DEF NotQueued, Unsettled, Live
      <3>2. OneParty
        BY DEF Sound, TablesSound
      <3> QED
        BY <2>2, <2>3, <2>5, <3>1, <3>2 DEF Outsider, OneParty
    <2> QED
      BY <1>2, <2>4, <2>5, MakesHow
  <1>3. CASE ~Fades(c)
    <2>1. Makes(w, c)
      BY <1>0, <1>3, MakesHow DEF ClaimStep
    <2> QED
      BY <1>2, <2>1
  <1>4. CASE ~Fades(d)
    <2>1. Makes(w, d)
      BY <1>0, <1>4, MakesHow DEF ClaimStep
    <2> QED
      BY <1>2, <2>1
  <1> QED
    BY <1>1, <1>3, <1>4

LEMMA ApartKept ==
  ASSUME Sound, Apart, ~SoloMixes, NEW w, Step(w)
  PROVE  Apart'
  <1>1. OneLiveClaim' /\ SoloApart'
    BY OneLiveKept, SoloApartKept
  <1>2. ASSUME NEW v \in Session PROVE FounderFree(v)'
    <2>1. CASE v = w
      BY <2>1 DEF Step, OwnStep, Apart
    <2>2. CASE v # w
      BY <2>2, FounderKept DEF Apart
    <2> QED
      BY <2>1, <2>2
  <1> QED
    BY <1>1, <1>2 DEF Apart

(* A claim ends once. *)
EndsOnce ==
  \A c \in Claim :
    /\ claim[c].status = "cancelling" => claim'[c].status # "completed"
    /\ claim[c].status \in {"cancelled", "completed"} => claim'[c].status \in {claim[c].status, "none"}

LEMMA EndsOnceKept ==
  ASSUME Sound, NEW w, Step(w)
  PROVE  EndsOnce
  <1> SUFFICES ASSUME NEW c \in Claim
               PROVE  /\ claim[c].status = "cancelling" => claim'[c].status # "completed"
                      /\ claim[c].status \in {"cancelled", "completed"} => claim'[c].status \in {claim[c].status, "none"}
    BY DEF EndsOnce
  <1>0. ClaimStep(w) /\ NoClaim.status = "none"
    BY DEF Step, NoClaim
  <1>1. CASE Fades(c)
    BY <1>0, <1>1 DEF Fades, Successions
  <1>2. CASE ~Fades(c)
    BY <1>0, <1>2, MakesHow DEF ClaimStep
  <1> QED
    BY <1>1, <1>2

(***************************************************************************)
(* Every step is such a step.  First the transactions: how one ends, and   *)
(* how one begins.                                                         *)
(***************************************************************************)
LEMMA IdleTx == Idle \in Transactions /\ Idle.stage = "none" /\ Idle.op = "none" /\ Idle.claims = {}
  <1>1. <<>> \in Seq(Row)
    OBVIOUS
  <1> QED
    BY <1>1 DEF Idle, Transactions, AllOperations

LEMMA ReleasedLocks ==
  ASSUME Typed, NEW w \in Session, owner' = Released(w)
  PROVE  /\ owner' \in [Row -> Session \union {None}]
         /\ \A v \in Session \ {w}, r \in Row : owner'[r] = v <=> owner[r] = v
  <1>1. owner' = [r \in Row |-> IF owner[r] = w THEN None ELSE owner[r]]
    BY DEF Released
  <1>2. \A r \in Row : owner[r] \in Session \union {None}
    BY DEF Typed
  <1> QED
    BY <1>1, <1>2, NoneIsNothing

LEMMA EndFrame ==
  ASSUME Typed, NEW w \in Session, End(w)
  PROVE  /\ tx' \in [Session -> Transactions] /\ owner' \in [Row -> Session \union {None}]
         /\ calls' \in 0..MaxCalls /\ Around(w) /\ OwnStep(w)
  <1>1. tx' = [tx EXCEPT ![w] = Idle] /\ owner' = Released(w) /\ calls' = calls
    BY DEF End
  <1>2. tx' \in [Session -> Transactions] /\ tx'[w] = Idle /\ \A v \in Session \ {w} : tx'[v] = tx[v]
    BY <1>1, IdleTx DEF Typed
  <1>3. /\ owner' \in [Row -> Session \union {None}]
        /\ \A v \in Session \ {w}, r \in Row : owner'[r] = v <=> owner[r] = v
    BY <1>1, ReleasedLocks
  <1>4. Around(w)
    BY <1>2, <1>3 DEF Around
  <1>5. /\ tx'[w].stage = "none" /\ tx'[w].op = "none" /\ tx'[w].claims = {}
    BY <1>2, IdleTx
  <1>6. ~Running(w)'
    BY <1>5 DEF Running
  <1>7. TxShape(w)'
    BY <1>2, <1>5 DEF TxShape, Idle
  <1>8. TxLocks(w)' /\ TxReads(w)' /\ FounderFree(w)'
    BY <1>5, <1>6 DEF TxLocks, TxReads, FounderFree
  <1>9. TxClaims(w)'
    BY <1>5 DEF TxClaims
  <1>10. OwnStep(w)
    BY <1>5, <1>7, <1>8, <1>9 DEF OwnStep
  <1> QED
    BY <1>1, <1>2, <1>3, <1>4, <1>10 DEF Typed

LEMMA InvitesAre ==
  ASSUME Sound, NEW y \in Party
  PROVE  /\ party[y].members = <<>> => invites[y] = {} /\ party[y] = NoParty
         /\ \A p \in invites[y] : p \in Player /\ account[p] # "gone"
  <1>1. PartySound(y) /\ invites[y] \subseteq Player
    BY DEF Sound, TablesSound, Typed
  <1> QED
    BY <1>1 DEF PartySound, Exists

LEMMA ClaimsFade ==
  ASSUME Sound, claim' = claim
  PROVE  \A c \in Claim : Fades(c)
  BY SameFades DEF Sound, TablesSound

(* A step that writes no tables. *)
LEMMA TablesQuiet ==
  ASSUME Sound, NEW w, UNCHANGED tables
  PROVE  /\ account' \in [Player -> {"guest", "linked", "gone"}] /\ party' \in [Party -> Parties]
         /\ invites' \in [Party -> SUBSET Player] /\ claim' \in [Claim -> Claims]
         /\ AccountStep(w) /\ RosterStep(w) /\ InviteStep /\ ClaimStep(w)
  <1>1. account' = account /\ party' = party /\ invites' = invites /\ claim' = claim
    BY DEF tables
  <1>2. AccountStep(w) /\ RosterStep(w)
    BY <1>1 DEF AccountStep, RosterStep
  <1>3. InviteStep
    BY <1>1, InvitesAre DEF InviteStep
  <1>4. ClaimStep(w)
    BY <1>1, ClaimsFade DEF ClaimStep
  <1> QED
    BY <1>1, <1>2, <1>3, <1>4 DEF Sound, Typed

LEMMA PlayersAscending ==
  ASSUME NEW R, R \subseteq Player
  PROVE  Ascending(R) \in Seq(Row) /\ Ascending(R) \in Seq(Player) /\ (R # {} => Ascending(R) # <<>>)
  <1>1. R \subseteq Nat /\ IsFiniteSet(R)
    BY DurablePartyAssumption, FS_Subset
  <1>2. Ascending(R) \in Seq(R) /\ (R # {} => Ascending(R) # <<>>)
    BY <1>1, AscendingRows
  <1> QED
    BY <1>2, SeqMonotonic DEF Row

LEMMA SuccessorRowsType ==
  ASSUME Typed, NEW x \in Party, NEW p
  PROVE  SuccessorRows(x, p) \in Seq(Row)
  <1>1. Ascending(Members(x) \ {p}) \in Seq(Row)
    BY PartyFacts, PlayersAscending
  <1>2. <<>> \in Seq(Row)
    OBVIOUS
  <1> QED
    BY <1>1, <1>2 DEF SuccessorRows

LEMMA FirstWantsType ==
  ASSUME Typed, OneParty, NEW op \in AllOperations, NEW p \in Player, NEW other \in Row \union {None},
         NEW K \in SUBSET Claim,
         op \in {"transfer", "merge", "accept"} => other \in Row,
         op = "start" => \E c \in K : claim[c].roster # {}
  PROVE  FirstWants(op, p, other, K) \in Seq(Row)
  <1> DEFINE x == PartyOf(p)
  <1>1. x \in Party \union {None} /\ Party \subseteq Row
    BY PartyOfIs DEF Row
  <1> HIDE DEF x
  <1>2. <<>> \in Seq(Row) /\ \A r \in Row : <<r>> \in Seq(Row)
    OBVIOUS
  <1>3. CASE op = "start"
    <2> DEFINE R == UNION {claim[c].roster : c \in K}
    <2>1. R \subseteq Player /\ R # {}
      BY <1>3 DEF Typed, Claims
    <2> HIDE DEF R
    <2>2. Ascending(R) \in Seq(Row) /\ Ascending(R) # <<>>
      BY <2>1, PlayersAscending
    <2>3. Tail(Ascending(R)) \in Seq(Row)
      BY <2>2, HeadTailProperties
    <2> QED
      BY <1>3, <2>3 DEF FirstWants, R
  <1>4. CASE op = "merge"
    BY <1>2, <1>4 DEF FirstWants
  <1>5. CASE op = "accept"
    BY <1>2, <1>5 DEF FirstWants
  <1>6. CASE op \in {"link", "loadout"}
    BY <1>2, <1>6 DEF FirstWants
  <1>7. CASE op \in {"leave", "delete"}
    <2>1. x \in Party => Append(SuccessorRows(x, p), x) \in Seq(Row)
      BY <1>1, SuccessorRowsType, AppendProperties
    <2> QED
      BY <1>1, <1>2, <1>7, <2>1 DEF FirstWants, x
  <1>8. CASE op = "transfer"
    <2>1. x \in Party => <<other, x>> \in Seq(Row)
      BY <1>1, <1>8
    <2> QED
      BY <1>1, <1>2, <1>8, <2>1 DEF FirstWants, x
  <1>9. CASE op \notin {"start", "merge", "accept", "link", "loadout", "leave", "delete", "transfer"}
    <2>1. x \in Party => <<x>> \in Seq(Row)
      BY <1>1, <1>2
    <2> QED
      BY <1>1, <1>2, <1>9, <2>1 DEF FirstWants, x
  <1> QED
    BY <1>3, <1>4, <1>5, <1>6, <1>7, <1>8, <1>9

LEMMA QuietStep ==
  ASSUME Sound, NEW w, UNCHANGED tables, tx' \in [Session -> Transactions],
         owner' \in [Row -> Session \union {None}], calls' \in 0..MaxCalls, Around(w), OwnStep(w)
  PROVE  Step(w)
  BY TablesQuiet DEF Step, Typed

LEMMA LockingStep ==
  ASSUME Sound, NEW w \in Session, ~Running(w), NEW op \in AllOperations, NEW p \in Player,
         NEW other \in Row \union {None}, NEW K \in SUBSET Claim, NEW tries \in 0..2,
         Locking(w, op, p, other, K, tries), calls' \in 0..MaxCalls,
         op \in {"transfer", "merge"} => other \in Player, op = "merge" => other # p,
         op = "accept" => other \in Party,
         op = "start" => \E c \in K : claim[c].roster # {},
         op = "claim" => \A c \in K : claim[c] = NoClaim /\ \A v \in Session \ {w} : c \notin tx[v].claims,
         \A v \in Session \ {w} : tx[v].op = "claim" => K \cap tx[v].claims = {},
         (op = "invite" /\ PartyOf(p) = None) => (SoloMixes \/ NotQueuedSolo(p))
  PROVE  Step(w)
  <1> DEFINE T == [op |-> op, actor |-> p, other |-> other, claims |-> K, hint |-> PartyOf(p),
                   stage |-> "first", wants |-> FirstWants(op, p, other, K), tries |-> tries]
  <1>1. /\ owner[p] = None /\ account[p] # "gone" /\ owner' = [owner EXCEPT ![p] = w]
        /\ tx' = [tx EXCEPT ![w] = T] /\ UNCHANGED tables
    BY DEF Locking
  <1>2. Typed /\ OneParty /\ p \in Row /\ op # "none"
    BY DEF Sound, TablesSound, Row, AllOperations
  <1>3. FirstWants(op, p, other, K) \in Seq(Row)
    <2>1. op \in {"transfer", "merge", "accept"} => other \in Row
      BY DEF Row
    <2> QED
      BY <1>2, <2>1, FirstWantsType
  <1>4. T \in Transactions
    <2>1. PartyOf(p) \in Party \union {None}
      BY <1>2, PartyOfIs
    <2> QED
      BY <1>3, <2>1 DEF Transactions
  <1>5. op = "merge" => T.wants = <<other>>
    BY DEF FirstWants
  <1>6. /\ T.op = op /\ T.actor = p /\ T.other = other /\ T.claims = K /\ T.hint = PartyOf(p)
        /\ T.stage = "first" /\ T.tries = tries
    OBVIOUS
  <1> HIDE DEF T
  <1>7. /\ tx' \in [Session -> Transactions] /\ tx'[w] = T
        /\ \A v \in Session \ {w} : tx'[v] = tx[v]
    BY <1>1, <1>2, <1>4 DEF Typed
  <1>8. /\ owner' \in [Row -> Session \union {None}] /\ owner'[p] = w
        /\ \A v \in Session \ {w}, r \in Row : owner'[r] = v <=> owner[r] = v
    BY <1>1, <1>2, NoneIsNothing DEF Typed
  <1>9. Around(w)
    BY <1>7, <1>8 DEF Around
  <1>10. account' = account /\ party' = party /\ claim' = claim
    BY <1>1 DEF tables
  <1>11. TxShape(w)'
    BY <1>2, <1>6, <1>7 DEF TxShape
  <1>12. TxLocks(w)'
    <2>1. op = "merge" => tx'[w].stage = "first" /\ tx'[w].wants = <<tx'[w].other>>
      BY <1>5, <1>6, <1>7
    <2> QED
      BY <1>1, <1>6, <1>7, <1>8, <1>10, <2>1 DEF TxLocks
  <1>13. TxReads(w)'
    <2>1. PartyOf(p) = None => \A x \in Party : p \notin Members(x)
      BY <1>2, PartyOfIs DEF Outsider
    <2>2. PartyOf(p) = None => \A x \in Party : p \notin ToSet(party'[x].members)
      BY <1>10, <2>1 DEF Members
    <2> QED
      BY <1>6, <1>7, <2>2 DEF TxReads, Outsider, Members
  <1>14. TxClaims(w)'
    BY <1>6, <1>7, <1>10 DEF TxClaims
  <1>15. SoloMixes \/ FounderFree(w)'
    <2> SUFFICES ASSUME ~SoloMixes PROVE FounderFree(w)'
      OBVIOUS
    <2>1. op = "invite" /\ PartyOf(p) = None => NotQueuedSolo(p)
      OBVIOUS
    <2> QED
      BY <1>6, <1>7, <1>10, <2>1 DEF FounderFree, NotQueuedSolo, Unsettled
  <1>16. OwnStep(w)
    BY <1>6, <1>7, <1>11, <1>12, <1>13, <1>14, <1>15 DEF OwnStep
  <1> QED
    BY <1>1, <1>7, <1>8, <1>9, <1>16, QuietStep

LEMMA CallStep ==
  ASSUME Sound, NEW w \in Session, NEW op, NEW p \in Player,
         NEW other \in Row \union {None}, NEW K \in SUBSET Claim, Call(w, op, p, other, K),
         op \in {"transfer", "merge"} => other \in Player, op = "merge" => other # p,
         op = "accept" => other \in Party,
         op = "start" => \E c \in K : claim[c] # NoClaim,
         op = "claim" => \A c \in K : claim[c] = NoClaim /\ \A v \in Session : c \notin tx[v].claims,
         op # "claim" => \A c \in K : claim[c] # NoClaim
  PROVE  Step(w)
  <1>1. /\ tx[w] = Idle /\ op \in AllOperations /\ calls < MaxCalls /\ calls' = calls + 1
        /\ Unmixed(op, p, other) /\ Locking(w, op, p, other, K, 0)
    BY DurablePartyAssumption DEF Call
  <1>2. ~Running(w)
    BY <1>1, IdleTx DEF Running
  <1>3. calls' \in 0..MaxCalls
    BY <1>1, DurablePartyAssumption DEF Sound, Typed
  <1>4. op = "start" => \E c \in K : claim[c].roster # {}
    BY DEF Sound, TablesSound, ClaimShape
  <1>5. op = "claim" => \A c \in K : claim[c] = NoClaim /\ \A v \in Session \ {w} : c \notin tx[v].claims
    OBVIOUS
  <1>6. \A v \in Session \ {w} : tx[v].op = "claim" => K \cap tx[v].claims = {}
    <2> TAKE v \in Session \ {w}
    <2>1. TxClaims(v)
      BY DEF Sound, TxSound
    <2> QED
      BY <2>1 DEF TxClaims
  <1>7. (op = "invite" /\ PartyOf(p) = None) => (SoloMixes \/ NotQueuedSolo(p))
    BY <1>1 DEF Unmixed
  <1> QED
    BY <1>1, <1>2, <1>3, <1>4, <1>5, <1>6, <1>7, LockingStep

LEMMA BeginStep ==
  ASSUME Sound, NEW w \in Session, Begin(w)
  PROVE  Step(w)
  <1>0. Player \subseteq Row /\ Party \subseteq Row
    BY DEF Row
  <1>1. CASE CallParty(w)
    <2>1. PICK p \in Player, op \in {"invite", "revoke", "leave", "disband", "loadout", "link", "delete"} :
            Call(w, op, p, None, {})
      BY <1>1 DEF CallParty
    <2> QED
      BY <2>1, CallStep
  <1>2. CASE CallAccept(w)
    <2>1. PICK p \in Player, x \in Party : Call(w, "accept", p, x, {})
      BY <1>2 DEF CallAccept
    <2> QED
      BY <1>0, <2>1, CallStep
  <1>3. CASE CallTransfer(w)
    <2>1. PICK p \in Player : \E q \in Player : Call(w, "transfer", p, q, {})
      BY <1>3 DEF CallTransfer
    <2>2. PICK q \in Player : Call(w, "transfer", p, q, {})
      BY <2>1
    <2> QED
      BY <1>0, <2>2, CallStep
  <1>4. CASE CallMerge(w)
    <2>1. PICK p \in Player : \E q \in Player : q # p /\ Call(w, "merge", p, q, {})
      BY <1>4 DEF CallMerge
    <2>2. PICK q \in Player : q # p /\ Call(w, "merge", p, q, {})
      BY <2>1
    <2> QED
      BY <1>0, <2>2, CallStep
  <1>5. CASE CallClaim(w)
    <2>1. PICK p \in Player, c \in Claim :
            claim[c] = NoClaim /\ (\A v \in Session : c \notin tx[v].claims) /\ Call(w, "claim", p, None, {c})
      BY <1>5 DEF CallClaim
    <2> QED
      BY <2>1, CallStep
  <1>6. CASE CallCancel(w)
    <2>1. PICK p \in Player, c \in Claim, op \in {"cancel", "complete"} :
            claim[c] # NoClaim /\ Call(w, op, p, None, {c})
      BY <1>6 DEF CallCancel
    <2> QED
      BY <2>1, CallStep
  <1>7. CASE CallStart(w)
    <2>1. PICK K \in (SUBSET Claim) \ {{}} :
            /\ \A c \in K : claim[c] # NoClaim
            /\ Call(w, "start", Ascending(UNION {claim[c].roster : c \in K})[1], None, K)
      BY <1>7 DEF CallStart
    <2> DEFINE R == UNION {claim[c].roster : c \in K}
    <2>0. K # {} /\ K \in SUBSET Claim /\ \A c \in K : claim[c] # NoClaim
      BY <2>1
    <2>2. R \subseteq Player /\ R # {}
      <3>1. \A c \in K : claim[c].roster \subseteq Player /\ claim[c].roster # {}
        BY <2>0 DEF Sound, TablesSound, ClaimShape, Typed, Claims
      <3>2. PICK c \in K : claim[c].roster # {}
        BY <2>0, <3>1
      <3> QED
        BY <3>1, <3>2
    <2>3. Call(w, "start", Ascending(R)[1], None, K)
      BY <2>1, Zenon
    <2> HIDE DEF R
    <2>4. Ascending(R)[1] \in Player
      <3>1. Ascending(R) \in Seq(Player) /\ Ascending(R) # <<>>
        BY <2>2, PlayersAscending
      <3> QED
        BY <3>1, HeadTailProperties
    <2> QED
      BY <2>0, <2>3, <2>4, CallStep
  <1> QED
    BY <1>1, <1>2, <1>3, <1>4, <1>5, <1>6, <1>7 DEF Begin

(* The steps of a transaction on its way to its decision. *)
LEMMA WaySame ==
  ASSUME Sound, NEW w \in Session, Running(w), UNCHANGED <<tables, calls>>,
         NEW T \in Transactions, tx' = [tx EXCEPT ![w] = T], owner' \in [Row -> Session \union {None}],
         T.op = tx[w].op, T.actor = tx[w].actor, T.other = tx[w].other, T.claims = tx[w].claims,
         T.hint = tx[w].hint, T.stage \in {"first", "snapshot", "involved"},
         T.stage = "snapshot" => (tx[w].stage = "snapshot" \/ (MayQueue(w) /\ tx[w].op = "claim")),
         \A v \in Session \ {w}, r \in Row : owner'[r] = v <=> owner[r] = v,
         \A r \in Row : owner[r] = w => owner'[r] = w,
         tx[w].op = "merge" =>
           \/ account'[tx[w].other] = "gone" \/ owner'[tx[w].other] = w
           \/ T.stage = "first" /\ T.wants = <<tx[w].other>>
  PROVE  Step(w)
  <1>1. TxShape(w) /\ TxLocks(w) /\ TxReads(w) /\ TxClaims(w) /\ Typed /\ OneParty
    BY DEF Sound, TxSound, TablesSound
  <1>2. /\ tx' \in [Session -> Transactions] /\ tx'[w] = T /\ \A v \in Session \ {w} : tx'[v] = tx[v]
    BY <1>1 DEF Typed
  <1>3. account' = account /\ party' = party /\ invites' = invites /\ claim' = claim /\ calls' = calls
    BY DEF tables
  <1>4. Running(w)' /\ Around(w)
    BY <1>2 DEF Running, Around
  <1>5. tx[w].actor \in Player /\ tx[w].op \in AllOperations /\ owner[tx[w].actor] = w /\ account[tx[w].actor] # "gone"
    BY <1>1, IdleTx DEF TxShape, TxLocks, Running
  <1>6. TxShape(w)'
    <2>1. tx'[w].stage = "snapshot" => tx'[w].op = "claim"
      BY <1>1, <1>2 DEF TxShape
    <2> QED
      BY <1>1, <1>2, <1>5, <2>1 DEF TxShape
  <1>7. TxLocks(w)'
    <2>1. owner'[tx'[w].actor] = w /\ account'[tx'[w].actor] # "gone"
      BY <1>2, <1>3, <1>5 DEF Row
    <2>2. tx'[w].op = "merge" =>
            \/ account'[tx'[w].other] = "gone" \/ owner'[tx'[w].other] = w
            \/ tx'[w].stage = "first" /\ tx'[w].wants = <<tx'[w].other>>
      BY <1>2
    <2> QED
      BY <2>1, <2>2 DEF TxLocks, Kept
  <1>8. TxReads(w)'
    <2>1. ASSUME tx[w].hint = None PROVE Outsider(tx[w].actor)'
      BY <1>1, <1>3, <2>1 DEF TxReads, Outsider, Members
    <2>2. ASSUME T.stage = "snapshot", NEW x, x = tx[w].hint
          PROVE  x \in Party /\ owner'[x] = w /\ NotQueued(x)' /\ Exists(x)'
      <3>1. x \in Party /\ owner[x] = w /\ NotQueued(x) /\ Exists(x)
        <4>1. CASE tx[w].stage = "snapshot"
          BY <1>1, <2>2, <4>1 DEF TxReads
        <4>2. CASE MayQueue(w)
          BY <1>1, <2>2, <4>2, CurrentIs DEF MayQueue, CurrentLeader
        <4> QED
          BY <2>2, <4>1, <4>2
      <3> QED
        BY <1>3, <3>1 DEF NotQueued, Unsettled, Exists, Row
    <2>3. ASSUME T.stage = "snapshot"
          PROVE  tx[w].hint \in Party /\ owner'[tx[w].hint] = w /\ NotQueued(tx[w].hint)' /\ Exists(tx[w].hint)'
      BY <1>2, <2>2, <2>3 DEF NotQueued, Exists
    <2> QED
      BY <1>2, <2>1, <2>3 DEF TxReads, Outsider, NotQueued, Exists
  <1>9. TxClaims(w)'
    BY <1>1, <1>2, <1>3 DEF TxClaims
  <1>10. FounderFree(w) => FounderFree(w)'
    BY <1>2, <1>3 DEF FounderFree, Running, NotQueuedSolo, Unsettled
  <1>11. \A v \in Session \ {w} : tx[v].op = "claim" => tx'[w].claims \cap tx[v].claims = {}
    BY <1>2 DEF Sound, TxSound, TxClaims
  <1>12. OwnStep(w)
    BY <1>6, <1>7, <1>8, <1>9, <1>10, <1>11 DEF OwnStep
  <1>13. calls' \in 0..MaxCalls
    BY <1>1, <1>3 DEF Typed
  <1> QED
    BY <1>2, <1>4, <1>12, <1>13, QuietStep

LEMMA LockStep ==
  ASSUME Sound, NEW w \in Session, Lock(w)
  PROVE  Step(w)
  <1> DEFINE r == Head(tx[w].wants)
             T == [tx[w] EXCEPT !.wants = Tail(@)]
  <1>1. /\ tx[w].wants # <<>> /\ (RowExists(r) => owner[r] \in {None, w})
        /\ owner' = (IF RowExists(r) THEN [owner EXCEPT ![r] = w] ELSE owner)
        /\ tx' = [tx EXCEPT ![w] = T] /\ UNCHANGED <<tables, calls>>
    BY DEF Lock
  <1>2. TxShape(w) /\ TxLocks(w) /\ Typed /\ tx[w] \in Transactions /\ tx[w].wants \in Seq(Row)
    BY TxFacts DEF Sound, TxSound
  <1>3. Running(w)
    <2>1. Idle.wants = <<>>
      BY DEF Idle
    <2> QED
      BY <1>1, <1>2, <2>1, TxFacts DEF TxShape, Running
  <1>4. r \in Row /\ Tail(tx[w].wants) \in Seq(Row)
    BY <1>1, <1>2, HeadTailProperties
  <1>5. /\ T \in Transactions /\ T.op = tx[w].op /\ T.actor = tx[w].actor /\ T.other = tx[w].other
        /\ T.claims = tx[w].claims /\ T.hint = tx[w].hint /\ T.stage = tx[w].stage
    BY <1>2, <1>4 DEF Transactions
  <1>6. tx[w].op = "merge" => account'[tx[w].other] = "gone" \/ owner'[tx[w].other] = w
    <2> SUFFICES ASSUME tx[w].op = "merge" PROVE account'[tx[w].other] = "gone" \/ owner'[tx[w].other] = w
      OBVIOUS
    <2>1. tx[w].other \in Player
      BY <1>2 DEF TxShape
    <2>2. Kept(w, tx[w].other) \/ tx[w].wants = <<tx[w].other>>
      BY <1>2, <1>3 DEF TxLocks
    <2>3. account' = account
      BY <1>1 DEF tables
    <2>4. ASSUME NEW q \in Player, Kept(w, q) \/ tx[w].wants = <<q>>
          PROVE  account'[q] = "gone" \/ owner'[q] = w
      <3>1. CASE Kept(w, q)
        BY <1>1, <1>2, <1>4, <2>3, <3>1 DEF Kept, Typed, Row
      <3>2. CASE tx[w].wants = <<q>>
        <4>1. r = q
          BY <3>2
        <4>2. RowExists(q) <=> account[q] # "gone"
          BY <2>4 DEF RowExists
        <4> QED
          BY <1>1, <1>2, <1>4, <2>3, <4>1, <4>2 DEF Typed
      <3> QED
        BY <2>4, <3>1, <3>2
    <2> QED
      BY <2>1, <2>2, <2>4
  <1>7. /\ owner' \in [Row -> Session \union {None}] /\ \A a \in Row : owner[a] = w => owner'[a] = w
        /\ \A v \in Session \ {w}, a \in Row : owner'[a] = v <=> owner[a] = v
    <2>1. owner \in [Row -> Session \union {None}]
      BY <1>2 DEF Typed
    <2> HIDE DEF r
    <2> QED
      BY <1>1, <1>4, <2>1, NoneIsNothing
  <1>8. T.stage \in {"first", "snapshot", "involved"}
    BY <1>3, <1>5 DEF Running
  <1> HIDE DEF T, r
  <1>9. /\ UNCHANGED <<tables, calls>> /\ tx' = [tx EXCEPT ![w] = T]
    BY <1>1
  <1>10. T.stage = "snapshot" => (tx[w].stage = "snapshot" \/ (MayQueue(w) /\ tx[w].op = "claim"))
    BY <1>5
  <1> QED
    BY <1>3, <1>5, <1>6, <1>7, <1>8, <1>9, <1>10, WaySame

LEMMA SameLocks ==
  ASSUME Sound, owner' = owner, NEW w
  PROVE  /\ owner' \in [Row -> Session \union {None}]
         /\ \A v \in Session \ {w}, r \in Row : owner'[r] = v <=> owner[r] = v
         /\ \A r \in Row : owner[r] = w => owner'[r] = w
  BY DEF Sound, Typed

LEMMA SnapshotStep ==
  ASSUME Sound, NEW w \in Session, Snapshot(w)
  PROVE  Step(w)
  <1> DEFINE others == Ascending(Members(tx[w].hint) \ {tx[w].actor})
             T == [tx[w] EXCEPT !.stage = "snapshot", !.wants = others]
  <1>1. /\ Ready(w, "claim") /\ MayQueue(w) /\ UNCHANGED <<tables, owner, calls>>
        /\ tx' = [tx EXCEPT ![w].stage = "snapshot", ![w].wants = others]
    BY DEF Snapshot
  <1>2. TxShape(w) /\ Typed /\ OneParty /\ tx[w] \in Transactions
    BY TxFacts DEF Sound, TxSound, TablesSound
  <1>3. Running(w) /\ tx[w].op = "claim"
    BY <1>1, <1>2, ReadyRuns DEF AllOperations
  <1>4. tx[w].hint \in Party
    BY <1>1, <1>2, CurrentIs DEF MayQueue, CurrentLeader
  <1>5. others \in Seq(Row)
    BY <1>2, <1>4, PartyFacts, PlayersAscending
  <1>6. tx' = [tx EXCEPT ![w] = T]
    BY <1>1, <1>2 DEF Typed, Transactions
  <1> HIDE DEF others
  <1>7. /\ T \in Transactions /\ T.op = tx[w].op /\ T.actor = tx[w].actor /\ T.other = tx[w].other
        /\ T.claims = tx[w].claims /\ T.hint = tx[w].hint /\ T.stage = "snapshot"
    BY <1>2, <1>5 DEF Transactions
  <1> HIDE DEF T
  <1>8. /\ owner' \in [Row -> Session \union {None}]
        /\ \A v \in Session \ {w}, r \in Row : owner'[r] = v <=> owner[r] = v
        /\ \A r \in Row : owner[r] = w => owner'[r] = w
    BY <1>1, SameLocks
  <1> QED
    BY <1>1, <1>3, <1>6, <1>7, <1>8, WaySame

LEMMA InvolveStep ==
  ASSUME Sound, NEW w \in Session, Involve(w)
  PROVE  Step(w)
  <1> DEFINE x == PartyOf(tx[w].actor)
             y == PartyOf(tx[w].other)
             rows == (IF x # None /\ x # y THEN SuccessorRows(x, tx[w].actor) ELSE <<>>) \o Ascending({x, y} \ {None})
             T == [tx[w] EXCEPT !.stage = "involved", !.wants = rows]
  <1>1. /\ Ready(w, "merge") /\ tx[w].stage = "first" /\ UNCHANGED <<tables, owner, calls>>
        /\ tx' = [tx EXCEPT ![w].stage = "involved", ![w].wants = rows]
    BY DEF Involve
  <1>2. TxShape(w) /\ TxLocks(w) /\ Typed /\ OneParty /\ tx[w] \in Transactions
    BY TxFacts DEF Sound, TxSound, TablesSound
  <1>3. Running(w) /\ tx[w].op = "merge" /\ tx[w].wants = <<>>
    BY <1>1, <1>2, ReadyRuns DEF AllOperations
  <1>4. rows \in Seq(Row)
    <2>1. x \in Party \union {None} /\ y \in Party \union {None}
      BY <1>2, PartyOfIs
    <2> HIDE DEF x, y
    <2>2. Ascending({x, y} \ {None}) \in Seq(Row)
      <3> DEFINE R == {x, y} \ {None}
      <3>1. R \subseteq Party
        BY <2>1
      <3> HIDE DEF R
      <3>2. R \subseteq Nat /\ IsFiniteSet(R)
        BY <3>1, DurablePartyAssumption, FS_Subset
      <3>3. Ascending(R) \in Seq(Row)
        BY <3>1, <3>2, AscendingRows, SeqMonotonic DEF Row
      <3> QED
        BY <3>3 DEF R
    <2>3. (IF x # None /\ x # y THEN SuccessorRows(x, tx[w].actor) ELSE <<>>) \in Seq(Row)
      <3>1. <<>> \in Seq(Row)
        OBVIOUS
      <3>2. x # None => SuccessorRows(x, tx[w].actor) \in Seq(Row)
        BY <1>2, <2>1, SuccessorRowsType
      <3> QED
        BY <3>1, <3>2
    <2> QED
      BY <2>2, <2>3, ConcatProperties
  <1>5. tx' = [tx EXCEPT ![w] = T]
    BY <1>1, <1>2 DEF Typed, Transactions
  <1> HIDE DEF rows
  <1>6. /\ T \in Transactions /\ T.op = tx[w].op /\ T.actor = tx[w].actor /\ T.other = tx[w].other
        /\ T.claims = tx[w].claims /\ T.hint = tx[w].hint /\ T.stage = "involved"
    BY <1>2, <1>4 DEF Transactions
  <1> HIDE DEF T
  <1>7. account'[tx[w].other] = "gone" \/ owner'[tx[w].other] = w
    <2>1. Kept(w, tx[w].other)
      BY <1>1, <1>2, <1>3 DEF TxLocks
    <2> QED
      BY <1>1, <2>1 DEF Kept, tables
  <1>8. /\ owner' \in [Row -> Session \union {None}]
        /\ \A v \in Session \ {w}, r \in Row : owner'[r] = v <=> owner[r] = v
        /\ \A r \in Row : owner[r] = w => owner'[r] = w
    BY <1>1, SameLocks
  <1> QED
    BY <1>1, <1>3, <1>5, <1>6, <1>7, <1>8, WaySame

(* The answers without effect, and what becomes of a deadlock. *)
LEMMA AnswerStep ==
  ASSUME Sound, NEW w \in Session, Answer(w) \/ GiveUp(w)
  PROVE  Step(w)
  <1>1. End(w) /\ UNCHANGED tables
    BY DEF Answer, GiveUp
  <1>2. Typed
    BY DEF Sound
  <1> QED
    BY <1>1, <1>2, EndFrame, QuietStep

LEMMA BreakStep ==
  ASSUME Sound, NEW w \in Session, BreakDeadlock(w)
  PROVE  Step(w)
  <1> DEFINE T == IF MayTryAgain(w) THEN [tx[w] EXCEPT !.stage = "again", !.hint = None, !.wants = <<>>] ELSE Idle
  <1>1. /\ owner' = Released(w) /\ tx' = [tx EXCEPT ![w] = T] /\ UNCHANGED <<tables, calls>>
    BY DEF BreakDeadlock
  <1>2. TxShape(w) /\ TxClaims(w) /\ Typed /\ tx[w] \in Transactions
    BY TxFacts DEF Sound, TxSound
  <1>3. T \in Transactions
    <2>1. <<>> \in Seq(Row)
      OBVIOUS
    <2> QED
      BY <1>2, <2>1, IdleTx DEF Transactions
  <1>4. \/ T = Idle
        \/ /\ MayTryAgain(w) /\ T.op = tx[w].op /\ T.actor = tx[w].actor /\ T.other = tx[w].other
           /\ T.claims = tx[w].claims /\ T.stage = "again" /\ T.wants = <<>> /\ T.tries = tx[w].tries
    BY <1>2 DEF Transactions
  <1> HIDE DEF T
  <1>5. /\ tx' \in [Session -> Transactions] /\ tx'[w] = T /\ \A v \in Session \ {w} : tx'[v] = tx[v]
    BY <1>1, <1>2, <1>3 DEF Typed
  <1>6. /\ owner' \in [Row -> Session \union {None}]
        /\ \A v \in Session \ {w}, r \in Row : owner'[r] = v <=> owner[r] = v
    BY <1>1, <1>2, ReleasedLocks
  <1>7. Around(w) /\ ~Running(w)' /\ tx'[w].stage # "snapshot" /\ calls' \in 0..MaxCalls
    BY <1>1, <1>2, <1>4, <1>5, <1>6, IdleTx DEF Around, Running, Typed
  <1>8. TxShape(w)'
    <2>1. CASE T = Idle
      BY <1>5, <2>1, IdleTx DEF TxShape, Idle
    <2>2. CASE T # Idle
      <3>1. tx[w].op \in Retried /\ tx[w].tries < 2 /\ tx[w].op # "none"
        BY <1>4, <2>2 DEF MayTryAgain, Retried
      <3>2. tx[w].op \in AllOperations /\ tx[w].actor \in Player
        BY <1>2, <3>1, IdleTx DEF TxShape
      <3>3. /\ T.op = tx[w].op /\ T.actor = tx[w].actor /\ T.other = tx[w].other
            /\ T.stage = "again" /\ T.wants = <<>> /\ T.tries = tx[w].tries
        BY <1>4, <2>2
      <3> QED
        BY <1>2, <1>5, <3>1, <3>2, <3>3 DEF TxShape
    <2> QED
      BY <2>1, <2>2
  <1>9. TxLocks(w)' /\ TxReads(w)' /\ FounderFree(w)'
    BY <1>7 DEF TxLocks, TxReads, FounderFree
  <1>10. TxClaims(w)'
    <2>1. tx'[w].op = "claim" => tx[w].op = "claim" /\ tx'[w].claims = tx[w].claims
      BY <1>4, <1>5, IdleTx
    <2> QED
      BY <1>1, <1>2, <1>5, <2>1 DEF TxClaims, tables
  <1>11. \A v \in Session \ {w} : tx[v].op = "claim" => tx'[w].claims \cap tx[v].claims = {}
    <2>1. tx'[w].claims \subseteq tx[w].claims
      BY <1>4, <1>5, IdleTx
    <2> QED
      BY <2>1 DEF Sound, TxSound, TxClaims
  <1>12. OwnStep(w)
    BY <1>8, <1>9, <1>10, <1>11 DEF OwnStep
  <1> QED
    BY <1>1, <1>5, <1>6, <1>7, <1>12, QuietStep

LEMMA TryAgainStep ==
  ASSUME Sound, NEW w \in Session, TryAgain(w)
  PROVE  Step(w)
  <1>1. /\ tx[w].stage = "again" /\ calls' = calls
        /\ Locking(w, tx[w].op, tx[w].actor, tx[w].other, tx[w].claims, tx[w].tries + 1)
    BY DEF TryAgain
  <1>2. TxShape(w) /\ TxClaims(w) /\ Typed
    BY DEF Sound, TxSound
  <1>3. /\ tx[w].op \in Retried /\ tx[w].op \in AllOperations /\ tx[w].actor \in Player
        /\ tx[w].tries + 1 \in 0..2
    BY <1>1, <1>2, TxFacts, IdleTx DEF TxShape
  <1>4. ~Running(w) /\ tx[w].other \in Row \union {None} /\ tx[w].claims \in SUBSET Claim
    BY <1>1, <1>2, TxFacts DEF Running
  <1>5. tx[w].op \notin {"start", "accept", "invite"}
    BY <1>3 DEF Retried
  <1>6. /\ tx[w].op \in {"transfer", "merge"} => tx[w].other \in Player
        /\ tx[w].op = "merge" => tx[w].other # tx[w].actor
    BY <1>2 DEF TxShape
  <1>7. tx[w].op = "claim" =>
          \A c \in tx[w].claims : claim[c] = NoClaim /\ \A v \in Session \ {w} : c \notin tx[v].claims
    BY <1>2 DEF TxClaims
  <1>8. \A v \in Session \ {w} : tx[v].op = "claim" => tx[w].claims \cap tx[v].claims = {}
    BY DEF Sound, TxSound, TxClaims
  <1>9. calls' \in 0..MaxCalls
    BY <1>1, <1>2 DEF Typed
  <1>10. /\ tx[w].op = "accept" => tx[w].other \in Party
         /\ tx[w].op = "start" => \E c \in tx[w].claims : claim[c].roster # {}
         /\ (tx[w].op = "invite" /\ PartyOf(tx[w].actor) = None) => (SoloMixes \/ NotQueuedSolo(tx[w].actor))
    BY <1>5
  <1>11. ASSUME NEW op \in AllOperations, op = tx[w].op, NEW p \in Player, p = tx[w].actor,
                NEW other \in Row \union {None}, other = tx[w].other, NEW K \in SUBSET Claim, K = tx[w].claims,
                NEW tries \in 0..2, tries = tx[w].tries + 1
         PROVE  Step(w)
    <2>1. Locking(w, op, p, other, K, tries)
      BY <1>1, <1>11
    <2>2. /\ op \in {"transfer", "merge"} => other \in Player
          /\ op = "merge" => other # p
          /\ op = "accept" => other \in Party
          /\ op = "start" => \E c \in K : claim[c].roster # {}
          /\ (op = "invite" /\ PartyOf(p) = None) => (SoloMixes \/ NotQueuedSolo(p))
      BY <1>6, <1>10, <1>11
    <2>3. /\ op = "claim" => \A c \in K : claim[c] = NoClaim /\ \A v \in Session \ {w} : c \notin tx[v].claims
          /\ \A v \in Session \ {w} : tx[v].op = "claim" => K \cap tx[v].claims = {}
      BY <1>7, <1>8, <1>11
    <2> QED
      BY <1>4, <1>9, <2>1, <2>2, <2>3, LockingStep
  <1> QED
    BY <1>3, <1>4, <1>11

(***************************************************************************)
(* The decisions.  Each ends its transaction.                              *)
(***************************************************************************)
LEMMA EndStep ==
  ASSUME Sound, NEW w \in Session, End(w),
         account' \in [Player -> {"guest", "linked", "gone"}], party' \in [Party -> Parties],
         invites' \in [Party -> SUBSET Player], claim' \in [Claim -> Claims],
         AccountStep(w), RosterStep(w), InviteStep, ClaimStep(w)
  PROVE  Step(w)
  BY EndFrame DEF Step, Typed, Sound

LEMMA AccountsStay ==
  ASSUME Sound, NEW w, account' = account
  PROVE  account' \in [Player -> {"guest", "linked", "gone"}] /\ AccountStep(w)
  BY DEF Sound, Typed, AccountStep

LEMMA PartiesStay ==
  ASSUME Sound, NEW w, party' = party
  PROVE  party' \in [Party -> Parties] /\ RosterStep(w)
  BY DEF Sound, Typed, RosterStep

LEMMA ClaimsStay ==
  ASSUME Sound, NEW w, claim' = claim
  PROVE  claim' \in [Claim -> Claims] /\ ClaimStep(w)
  BY ClaimsFade DEF Sound, Typed, ClaimStep

LEMMA InvitesStay ==
  ASSUME Sound, invites' = invites, \A p \in Player : account'[p] = "gone" => account[p] = "gone",
         \A y \in Party : party'[y].members = <<>> => party[y].members = <<>>
  PROVE  invites' \in [Party -> SUBSET Player] /\ InviteStep
  BY InvitesAre DEF Sound, Typed, InviteStep

(* One party's row is written under its lock. *)
LEMMA OneRow ==
  ASSUME Sound, NEW w, NEW x \in Party, NEW R, SoundRow(R), party' = [party EXCEPT ![x] = R],
         NotQueued(x), owner[x] = w \/ ~Exists(x), \A n \in ToSet(R.members) \ Members(x) : Joins(w, n)
  PROVE  /\ party' \in [Party -> Parties] /\ RosterStep(w)
         /\ party'[x] = R /\ \A y \in Party \ {x} : party'[y] = party[y]
  <1>1. party \in [Party -> Parties] /\ R \in Parties
    BY DEF Sound, Typed, SoundRow
  <1>2. /\ party' \in [Party -> Parties]
        /\ party'[x] = R /\ \A y \in Party \ {x} : party'[y] = party[y]
    BY <1>1
  <1>3. Rewrites(w, x)
    BY <1>2 DEF Rewrites
  <1> QED
    BY <1>2, <1>3 DEF RosterStep

(* Rows that refer to deleted ones fade with them. *)
LEMMA WriteHow ==
  ASSUME Sound, NEW w, NEW parties, NEW gone \in SUBSET Player, NEW changed \in SUBSET Player,
         Write(parties, gone, changed)
  PROVE  /\ claim' \in [Claim -> Claims] /\ ClaimStep(w)
         /\ account' \in [Player -> {"guest", "linked", "gone"}]
         /\ \A p \in Player : account'[p] = IF p \in gone THEN "gone" ELSE account[p]
         /\ party' = parties
  <1>1. /\ party' = parties /\ claim' = ClaimsAfter(parties, gone, gone \union changed)
        /\ account' = [p \in Player |-> IF p \in gone THEN "gone" ELSE account[p]]
    BY DEF Write
  <1>2. account \in [Player -> {"guest", "linked", "gone"}] /\ claim \in [Claim -> Claims]
    BY DEF Sound, Typed
  <1>3. /\ account' \in [Player -> {"guest", "linked", "gone"}]
        /\ \A p \in Player : account'[p] = IF p \in gone THEN "gone" ELSE account[p]
    BY <1>1, <1>2
  <1> DEFINE kept(c) == [claim[c] EXCEPT !.changed = claim[c].changed \union (claim[c].roster \cap (gone \union changed))]
  <1>4. /\ claim' = [c \in Claim |-> claim'[c]]
        /\ \A c \in Claim : claim'[c] = NoClaim \/ claim'[c] = kept(c)
    BY <1>1 DEF ClaimsAfter
  <1>5. \A c \in Claim : /\ kept(c) \in Claims
                         /\ kept(c).status = claim[c].status /\ kept(c).party = claim[c].party
                         /\ kept(c).requester = claim[c].requester /\ kept(c).version = claim[c].version
                         /\ kept(c).roster = claim[c].roster /\ kept(c).expired = claim[c].expired
                         /\ kept(c).changed = claim[c].changed \union (claim[c].roster \cap (gone \union changed))
    BY <1>2 DEF Claims
  <1>6. \A c \in Claim : claim[c] = NoClaim => kept(c) = NoClaim
    <2>1. NoClaim.changed = {} /\ NoClaim.roster = {}
      BY DEF NoClaim
    <2>2. [NoClaim EXCEPT !.changed = NoClaim.changed] = NoClaim
      <3>1. \A r \in Claims : [r EXCEPT !.changed = r.changed] = r
        BY DEF Claims
      <3>2. NoClaim \in Claims
        BY DEF NoClaim, Claims
      <3> QED
        BY <3>1, <3>2
    <2> SUFFICES ASSUME NEW c \in Claim, claim[c] = NoClaim PROVE kept(c) = NoClaim
      OBVIOUS
    <2>3. claim[c].changed \union (claim[c].roster \cap (gone \union changed)) = {}
      BY <2>1
    <2> QED
      BY <2>2, <2>3
  <1> HIDE DEF kept
  <1>7. NoClaim \in Claims
    BY DEF NoClaim, Claims
  <1>8. claim' \in [Claim -> Claims]
    BY <1>4, <1>5, <1>7
  <1>9. ASSUME NEW c \in Claim PROVE Fades(c)
    <2>1. CASE claim'[c] = NoClaim
      BY <2>1 DEF Fades
    <2>2. CASE claim'[c] # NoClaim
      <3>1. claim'[c] = kept(c) /\ claim[c] # NoClaim
        BY <1>4, <1>6, <2>2
      <3>2. claim[c].changed \subseteq claim[c].roster
        BY <3>1 DEF Sound, TablesSound, ClaimShape
      <3> QED
        BY <1>5, <3>1, <3>2 DEF Fades
    <2> QED
      BY <2>1, <2>2
  <1> QED
    BY <1>1, <1>3, <1>8, <1>9 DEF ClaimStep

LEMMA AccountGoes ==
  ASSUME Sound, NEW w, NEW gone \in SUBSET Player,
         \A p \in Player : account'[p] = IF p \in gone THEN "gone" ELSE account[p],
         \A p \in gone : owner[p] = w /\ ~Rostered(p)
  PROVE  AccountStep(w)
  BY DEF AccountStep

LEMMA InvitesFollow ==
  ASSUME Sound, NEW w, RosterStep(w), NEW gone \in SUBSET Player, NEW parties, party' = parties,
         \A p \in Player : account'[p] = IF p \in gone THEN "gone" ELSE account[p],
         invites' = InvitesAfter(parties, gone)
  PROVE  invites' \in [Party -> SUBSET Player] /\ InviteStep
  <1>1. /\ invites' = [y \in Party |-> invites'[y]]
        /\ \A y \in Party : invites'[y] = IF party'[y] = NoParty THEN {} ELSE invites[y] \ gone
    BY DEF InvitesAfter
  <1>2. \A y \in Party : party'[y].members = <<>> => party'[y] = NoParty
    <2> SUFFICES ASSUME NEW y \in Party, party'[y].members = <<>> PROVE party'[y] = NoParty
      OBVIOUS
    <2>1. CASE party'[y] = party[y]
      BY <2>1, InvitesAre
    <2>2. CASE Rewrites(w, y)
      BY <2>2 DEF Rewrites, SoundRow
    <2> QED
      BY <2>1, <2>2, RowHow
  <1>3. \A y \in Party : \A p \in invites[y] : p \in Player /\ account[p] # "gone"
    BY InvitesAre
  <1>4. InviteStep
    BY <1>1, <1>2, <1>3 DEF InviteStep
  <1>5. invites' \in [Party -> SUBSET Player]
    BY <1>1, <1>3
  <1> QED
    BY <1>4, <1>5

(* What a deciding transaction knows of its caller. *)
LEMMA DeciderIs ==
  ASSUME Sound, NEW w \in Session, NEW op \in AllOperations, Ready(w, op)
  PROVE  /\ Running(w) /\ tx[w].op = op /\ tx[w].wants = <<>> /\ tx[w].actor \in Player
         /\ owner[tx[w].actor] = w /\ account[tx[w].actor] # "gone"
         /\ tx[w].hint = None => Outsider(tx[w].actor)
         /\ TxShape(w) /\ TxLocks(w) /\ TxReads(w) /\ TxClaims(w)
         /\ Typed /\ OneParty
  <1>1. TxShape(w) /\ TxLocks(w) /\ TxReads(w) /\ TxClaims(w) /\ Typed /\ OneParty
    BY DEF Sound, TxSound, TablesSound
  <1>2. Running(w) /\ tx[w].op = op /\ tx[w].wants = <<>> /\ tx[w].actor \in Player
    BY <1>1, ReadyRuns
  <1> QED
    BY <1>1, <1>2 DEF TxLocks, TxReads

LEMMA InviteIsStep ==
  ASSUME Sound, NEW w \in Session, Invite(w)
  PROVE  Step(w)
  <1> DEFINE p == tx[w].actor
  <1>1. Ready(w, "invite") /\ MayInvite(w) /\ End(w) /\ account' = account /\ claim' = claim
    BY DEF Invite
  <1>2. /\ Running(w) /\ tx[w].op = "invite" /\ p \in Player /\ owner[p] = w /\ account[p] # "gone"
        /\ tx[w].hint = None => Outsider(p)
        /\ Typed /\ OneParty
    BY <1>1, DeciderIs DEF AllOperations
  <1>3. CASE /\ tx[w].hint # None /\ party' = party
             /\ invites' = [invites EXCEPT ![tx[w].hint] = @ \union {p}]
    <2>1. tx[w].hint \in Party /\ Exists(tx[w].hint)
      BY <1>1, <1>2, <1>3, CurrentIs DEF MayInvite, CurrentLeader
    <2> HIDE DEF p
    <2>2. /\ invites' \in [Party -> SUBSET Player]
          /\ \A y \in Party : invites'[y] = IF y = tx[w].hint THEN invites[y] \union {p} ELSE invites[y]
      BY <1>2, <1>3, <2>1 DEF Typed
    <2>3. InviteStep
      BY <1>1, <1>2, <1>3, <2>1, <2>2, InvitesAre DEF InviteStep, Exists
    <2> QED
      BY <1>1, <1>3, <2>2, <2>3, AccountsStay, PartiesStay, ClaimsStay, EndStep
  <1>4. ASSUME tx[w].hint = None, NEW x \in Party, Unused(x), NEW R,
               R = [members |-> <<p>>, leader |-> p, version |-> 1],
               party' = [party EXCEPT ![x] = R], invites' = [invites EXCEPT ![x] = {p}]
        PROVE  Step(w)
    <2> HIDE DEF p
    <2>1. ~Exists(x)
      BY <1>4 DEF Unused
    <2>2. SoundRow(R) /\ ToSet(R.members) = {p} /\ R.members # <<>>
      <3>1. <<p>> \in Rosters /\ <<p>> # <<>> /\ Len(<<p>>) = 1
        BY <1>2 DEF Rosters, IsInjective
      <3>2. ToSet(<<p>>) = {p}
        BY DEF ToSet
      <3> QED
        BY <1>2, <1>4, <3>1, <3>2 DEF SoundRow, Parties, MaxMembers
    <2>3. NotQueued(x)
      BY <2>1, NoneIsNothing DEF NotQueued, Unsettled, Sound, QueuedRosterIsFrozen, Live
    <2>4. Joins(w, p)
      BY <1>2, <1>4 DEF Joins, FounderFree, p
    <2>5. /\ party' \in [Party -> Parties] /\ RosterStep(w)
          /\ party'[x] = R /\ \A y \in Party \ {x} : party'[y] = party[y]
      <3>1. \A n \in ToSet(R.members) \ Members(x) : Joins(w, n)
        BY <2>2, <2>4
      <3>2. party' = [party EXCEPT ![x] = R] /\ (owner[x] = w \/ ~Exists(x)) /\ SoundRow(R)
        BY <1>4, <2>1, <2>2
      <3> QED
        BY <2>3, <3>1, <3>2, OneRow
    <2>6. /\ invites' \in [Party -> SUBSET Player]
          /\ \A y \in Party : invites'[y] = IF y = x THEN {p} ELSE invites[y]
      BY <1>2, <1>4 DEF Typed
    <2>7. InviteStep
      BY <1>1, <1>2, <2>2, <2>5, <2>6, InvitesAre DEF InviteStep
    <2> QED
      BY <1>1, <2>5, <2>6, <2>7, AccountsStay, ClaimsStay, EndStep
  <1> QED
    BY <1>3, <1>4 DEF Invite

LEMMA RevokeIsStep ==
  ASSUME Sound, NEW w \in Session, Revoke(w)
  PROVE  Step(w)
  <1>1. /\ Ready(w, "revoke") /\ MayRevoke(w) /\ End(w)
        /\ account' = account /\ party' = party /\ claim' = claim
        /\ invites' = [invites EXCEPT ![tx[w].hint] = {}]
    BY DEF Revoke
  <1>2. Typed /\ OneParty
    BY DEF Sound, TablesSound
  <1>3. tx[w].hint \in Party
    BY <1>1, <1>2, CurrentIs DEF MayRevoke, CurrentLeader
  <1>4. /\ invites' \in [Party -> SUBSET Player]
        /\ \A y \in Party : invites'[y] \subseteq invites[y]
    BY <1>1, <1>2, <1>3 DEF Typed
  <1>5. InviteStep
    BY <1>1, <1>4, InvitesAre DEF InviteStep
  <1> QED
    BY <1>1, <1>4, <1>5, AccountsStay, PartiesStay, ClaimsStay, EndStep

LEMMA AcceptIsStep ==
  ASSUME Sound, NEW w \in Session, Accept(w)
  PROVE  Step(w)
  <1> DEFINE p == tx[w].actor
             x == tx[w].other
             s == Append(party[x].members, p)
             R == Changed(x, s, party[x].leader)
  <1>1. /\ Ready(w, "accept") /\ MayAccept(w) /\ End(w)
        /\ account' = account /\ invites' = invites /\ claim' = claim
        /\ party' = [party EXCEPT ![x] = R]
    BY DEF Accept
  <1>2. /\ Running(w) /\ tx[w].op = "accept" /\ p \in Player /\ owner[p] = w /\ account[p] # "gone"
        /\ Typed /\ OneParty /\ TxShape(w)
    BY <1>1, DeciderIs DEF AllOperations
  <1>3. x \in Party
    BY <1>2 DEF TxShape
  <1>4. /\ owner[x] = w /\ Outsider(p) /\ invites[x] # {} /\ NotQueuedSolo(p) /\ NotQueued(x)
        /\ Cardinality(Members(x)) < MaxMembers
    BY <1>1, <1>2, PartyOfIs DEF MayAccept, Holds
  <1> HIDE DEF p, x
  <1>5. /\ Exists(x) /\ party[x].leader \in Members(x) /\ party[x].members \in Rosters
        /\ Members(x) = ToSet(party[x].members) /\ p \notin Members(x)
    <2>1. PartySound(x)
      BY <1>3 DEF Sound, TablesSound
    <2> QED
      BY <1>2, <1>3, <1>4, <2>1, PartyFacts DEF PartySound, Outsider, Members
  <1>6. /\ s \in Rosters /\ Len(s) = Len(party[x].members) + 1 /\ ToSet(s) = Members(x) \union {p}
    BY <1>2, <1>5, RosterGrown
  <1>7. Len(s) <= MaxMembers /\ s # <<>>
    <2>1. Cardinality(Members(x)) = Len(party[x].members) /\ Len(party[x].members) \in Nat
      BY <1>5, RosterSize, RosterFacts
    <2>2. Len(s) <= MaxMembers
      BY <1>4, <1>6, <2>1 DEF MaxMembers
    <2>3. s # <<>>
      BY <1>6, <2>1, RosterFacts
    <2> QED
      BY <2>2, <2>3
  <1> HIDE DEF s
  <1>8. SoundRow(R) /\ R.members = s
    BY <1>2, <1>3, <1>5, <1>6, <1>7, ChangedRow
  <1>9. Joins(w, p)
    BY <1>2, <1>4 DEF Joins
  <1> HIDE DEF R
  <1>10. /\ party' \in [Party -> Parties] /\ RosterStep(w)
         /\ party'[x] = R /\ \A y \in Party \ {x} : party'[y] = party[y]
    BY <1>1, <1>3, <1>4, <1>6, <1>8, <1>9, OneRow
  <1>11. invites' \in [Party -> SUBSET Player] /\ InviteStep
    BY <1>1, <1>7, <1>8, <1>10, InvitesStay
  <1> QED
    BY <1>1, <1>10, <1>11, AccountsStay, ClaimsStay, EndStep

LEMMA TransferIsStep ==
  ASSUME Sound, NEW w \in Session, Transfer(w)
  PROVE  Step(w)
  <1> DEFINE x == tx[w].hint
             q == tx[w].other
             R == Changed(x, party[x].members, q)
  <1>1. /\ Ready(w, "transfer") /\ MayTransfer(w) /\ End(w)
        /\ account' = account /\ invites' = invites /\ claim' = claim
        /\ party' = [party EXCEPT ![x] = R]
    BY DEF Transfer
  <1>2. Typed /\ OneParty
    BY DEF Sound, TablesSound
  <1>3. x \in Party /\ owner[x] = w /\ Exists(x) /\ NotQueued(x) /\ q \in Members(x)
    BY <1>1, <1>2, CurrentIs DEF MayTransfer, CurrentLeader
  <1> HIDE DEF x, q
  <1>4. /\ party[x].members \in Rosters /\ Members(x) = ToSet(party[x].members)
        /\ Len(party[x].members) <= MaxMembers /\ party[x].members # <<>>
    <2>1. PartySound(x)
      BY <1>3 DEF Sound, TablesSound
    <2> QED
      BY <1>2, <1>3, <2>1, PartyFacts DEF PartySound, Members, Exists
  <1>5. SoundRow(R) /\ R.members = party[x].members
    BY <1>2, <1>3, <1>4, ChangedRow
  <1> HIDE DEF R
  <1>6. /\ party' \in [Party -> Parties] /\ RosterStep(w)
        /\ party'[x] = R /\ \A y \in Party \ {x} : party'[y] = party[y]
    BY <1>1, <1>3, <1>4, <1>5, OneRow
  <1>7. invites' \in [Party -> SUBSET Player] /\ InviteStep
    BY <1>1, <1>4, <1>5, <1>6, InvitesStay
  <1> QED
    BY <1>1, <1>6, <1>7, AccountsStay, ClaimsStay, EndStep

(* A party's row is written, a player may go, and the rows that refer to   *)
(* them fade.                                                              *)
LEMMA WrittenStep ==
  ASSUME Sound, NEW w \in Session, End(w), NEW parties, NEW gone \in SUBSET Player, NEW changed \in SUBSET Player,
         Write(parties, gone, changed), invites' = InvitesAfter(parties, gone),
         parties \in [Party -> Parties], RosterStep(w),
         \A p \in gone : owner[p] = w /\ ~Rostered(p)
  PROVE  Step(w)
  <1>1. /\ claim' \in [Claim -> Claims] /\ ClaimStep(w)
        /\ account' \in [Player -> {"guest", "linked", "gone"}]
        /\ \A p \in Player : account'[p] = IF p \in gone THEN "gone" ELSE account[p]
        /\ party' = parties
    BY WriteHow
  <1>2. AccountStep(w)
    BY <1>1, AccountGoes
  <1>3. invites' \in [Party -> SUBSET Player] /\ InviteStep
    BY <1>1, InvitesFollow
  <1> QED
    BY <1>1, <1>2, <1>3, EndStep

(* A member leaves a party that is not queued. *)
LEMMA DepartureIsStep ==
  ASSUME Sound, NEW w \in Session, End(w), NEW x \in Party, NEW p \in Members(x),
         NotQueued(x), owner[x] = w, owner[p] = w, NEW gone \in SUBSET {p}, NEW changed \in SUBSET Player,
         NEW parties, parties = [party EXCEPT ![x] = PartyAfter(x, p)],
         Write(parties, gone, changed), invites' = InvitesAfter(parties, gone)
  PROVE  Step(w)
  <1> DEFINE R == PartyAfter(x, p)
  <1>1. Typed /\ OneParty /\ PartySound(x)
    BY DEF Sound, TablesSound
  <1>2. SoundRow(R) /\ ToSet(R.members) = Members(x) \ {p}
    BY <1>1, PartyAfterRow
  <1> HIDE DEF R
  <1>3. party' = parties /\ parties = [party EXCEPT ![x] = R]
    BY DEF Write, R
  <1>4. /\ party' \in [Party -> Parties] /\ RosterStep(w)
        /\ party'[x] = R /\ \A y \in Party \ {x} : party'[y] = party[y]
    BY <1>2, <1>3, OneRow
  <1>5. gone \in SUBSET Player
    BY <1>1, PartyFacts
  <1>6. ~Rostered(p)
    BY <1>1, <1>2, <1>4 DEF Rostered, OneParty, Members
  <1>7. (\A q \in gone : owner[q] = w /\ ~Rostered(q)) /\ parties \in [Party -> Parties]
    BY <1>3, <1>4, <1>6
  <1> QED
    BY <1>4, <1>5, <1>7, WrittenStep

LEMMA LeaveIsStep ==
  ASSUME Sound, NEW w \in Session, Leave(w)
  PROVE  Step(w)
  <1> DEFINE after == [party EXCEPT ![tx[w].hint] = PartyAfter(tx[w].hint, tx[w].actor)]
  <1>1. /\ Ready(w, "leave") /\ MayLeave(w) /\ End(w)
        /\ Write(after, {}, {}) /\ invites' = InvitesAfter(after, {})
    BY DEF Leave
  <1>2. Typed /\ OneParty /\ owner[tx[w].actor] = w
    BY <1>1, DeciderIs DEF AllOperations
  <1>3. /\ tx[w].hint \in Party /\ owner[tx[w].hint] = w /\ tx[w].actor \in Members(tx[w].hint)
        /\ NotQueued(tx[w].hint)
    BY <1>1, <1>2, CurrentIs DEF MayLeave
  <1> QED
    BY <1>1, <1>2, <1>3, DepartureIsStep

LEMMA DisbandIsStep ==
  ASSUME Sound, NEW w \in Session, Disband(w)
  PROVE  Step(w)
  <1> DEFINE after == [party EXCEPT ![tx[w].hint] = NoParty]
  <1>1. /\ Ready(w, "disband") /\ MayDisband(w) /\ End(w)
        /\ Write(after, {}, {}) /\ invites' = InvitesAfter(after, {})
    BY DEF Disband
  <1>2. Typed /\ OneParty
    BY DEF Sound, TablesSound
  <1>3. tx[w].hint \in Party /\ owner[tx[w].hint] = w /\ NotQueued(tx[w].hint)
    BY <1>1, <1>2, CurrentIs DEF MayDisband, CurrentLeader
  <1>4. party' = after
    BY <1>1 DEF Write
  <1>5. /\ party' \in [Party -> Parties] /\ RosterStep(w)
    BY <1>3, <1>4, EmptyRow, OneRow
  <1> HIDE DEF after
  <1> QED
    BY <1>1, <1>4, <1>5, WrittenStep

(* A claim is made. *)
LEMMA MakesTyped ==
  ASSUME Sound, NEW w \in Session, NEW c \in tx[w].claims, Running(w), tx[w].op = "claim",
         party' = party, NEW C, claim' = [claim EXCEPT ![c] = C],
         \/ MayQueueSolo(w) /\ C = NewClaim(None, tx[w].actor, 1, {tx[w].actor})
         \/ tx[w].stage = "snapshot" /\ C = QueueClaim(tx[w].hint)
  PROVE  claim' \in [Claim -> Claims] /\ ClaimStep(w)
  <1>1. TxShape(w) /\ TxReads(w) /\ Typed
    BY DEF Sound, TxSound
  <1>2. c \in Claim /\ tx[w].actor \in Player
    BY <1>1, TxFacts, IdleTx DEF TxShape
  <1>3. C \in Claims
    <2>1. CASE C = NewClaim(None, tx[w].actor, 1, {tx[w].actor})
      BY <1>2, <2>1 DEF NewClaim, Claims
    <2>2. CASE tx[w].stage = "snapshot" /\ C = QueueClaim(tx[w].hint)
      <3>1. tx[w].hint \in Party
        BY <1>1, <2>2 DEF TxReads
      <3>2. /\ Members(tx[w].hint) \subseteq Player /\ party[tx[w].hint].leader \in Player \union {None}
            /\ party[tx[w].hint].version \in Nat
        BY <1>1, <3>1, PartyFacts
      <3>3. C = NewClaim(tx[w].hint, party[tx[w].hint].leader, party[tx[w].hint].version, Members(tx[w].hint))
        BY <2>2 DEF QueueClaim, Members
      <3> QED
        BY <3>1, <3>2, <3>3 DEF NewClaim, Claims
    <2> QED
      BY <2>1, <2>2
  <1>4. /\ claim' \in [Claim -> Claims] /\ claim'[c] = C
        /\ \A d \in Claim \ {c} : claim'[d] = claim[d]
    BY <1>1, <1>2, <1>3 DEF Typed
  <1>5. Makes(w, c)
    BY <1>4 DEF Makes
  <1> QED
    BY <1>2, <1>4, <1>5 DEF ClaimStep

LEMMA QueueSoloIsStep ==
  ASSUME Sound, NEW w \in Session, QueueSolo(w)
  PROVE  Step(w)
  <1>1. /\ Ready(w, "claim") /\ MayQueueSolo(w) /\ End(w)
        /\ account' = account /\ party' = party /\ invites' = invites
    BY DEF QueueSolo
  <1>2. PICK c \in tx[w].claims : claim' = [claim EXCEPT ![c] = NewClaim(None, tx[w].actor, 1, {tx[w].actor})]
    BY DEF QueueSolo
  <1>3. Running(w) /\ tx[w].op = "claim"
    BY <1>1, DeciderIs DEF AllOperations
  <1>4. claim' \in [Claim -> Claims] /\ ClaimStep(w)
    BY <1>1, <1>2, <1>3, MakesTyped
  <1>5. invites' \in [Party -> SUBSET Player] /\ InviteStep
    BY <1>1, InvitesStay
  <1> QED
    BY <1>1, <1>4, <1>5, AccountsStay, PartiesStay, EndStep

LEMMA QueueIsStep ==
  ASSUME Sound, NEW w \in Session, Queue(w)
  PROVE  Step(w)
  <1>1. /\ Ready(w, "claim") /\ tx[w].stage = "snapshot" /\ End(w)
        /\ account' = account /\ party' = party /\ invites' = invites
    BY DEF Queue
  <1>2. PICK c \in tx[w].claims : claim' = [claim EXCEPT ![c] = QueueClaim(tx[w].hint)]
    BY DEF Queue
  <1>3. Running(w) /\ tx[w].op = "claim"
    BY <1>1, DeciderIs DEF AllOperations
  <1>4. claim' \in [Claim -> Claims] /\ ClaimStep(w)
    BY <1>1, <1>2, <1>3, MakesTyped
  <1>5. invites' \in [Party -> SUBSET Player] /\ InviteStep
    BY <1>1, InvitesStay
  <1> QED
    BY <1>1, <1>4, <1>5, AccountsStay, PartiesStay, EndStep

(* A claim's status moves on. *)
LEMMA StatusStep ==
  ASSUME Sound, NEW w, NEW c \in Claim, NEW status, <<claim[c].status, status>> \in Successions,
         claim' = [claim EXCEPT ![c].status = status]
  PROVE  claim' \in [Claim -> Claims] /\ ClaimStep(w)
  <1>1. claim \in [Claim -> Claims] /\ \A d \in Claim : ClaimShape(d)
    BY DEF Sound, Typed, TablesSound
  <1> DEFINE C == [claim[c] EXCEPT !.status = status]
  <1>2. /\ C \in Claims /\ C.status = status /\ C.party = claim[c].party /\ C.requester = claim[c].requester
        /\ C.version = claim[c].version /\ C.roster = claim[c].roster /\ C.changed = claim[c].changed
        /\ C.expired = claim[c].expired
    BY <1>1 DEF Claims, Successions
  <1>3. claim' = [claim EXCEPT ![c] = C]
    BY <1>1
  <1> HIDE DEF C
  <1>4. /\ claim' \in [Claim -> Claims] /\ claim'[c] = C
        /\ \A d \in Claim \ {c} : claim'[d] = claim[d]
    BY <1>1, <1>2, <1>3
  <1>5. claim[c] # NoClaim
    BY DEF NoClaim, Successions
  <1>6. Fades(c)
    BY <1>1, <1>2, <1>4, <1>5 DEF Fades, ClaimShape
  <1> QED
    BY <1>1, <1>4, <1>6, SameFades DEF ClaimStep

LEMMA CancelIsStep ==
  ASSUME Sound, NEW w \in Session, Cancel(w) \/ Complete(w)
  PROVE  Step(w)
  <1>1. /\ End(w) /\ account' = account /\ party' = party /\ invites' = invites
    BY DEF Cancel, Complete
  <1>2. tx[w].claims \subseteq Claim
    BY TxFacts DEF Sound
  <1>3. claim' \in [Claim -> Claims] /\ ClaimStep(w)
    <2>1. CASE Cancel(w)
      <3>1. PICK c \in tx[w].claims : MayCancel(w, c) /\ claim' = [claim EXCEPT ![c].status = "cancelling"]
        BY <2>1 DEF Cancel
      <3>2. <<claim[c].status, "cancelling">> \in Successions
        BY <3>1 DEF MayCancel, Successions
      <3> QED
        BY <1>2, <3>1, <3>2, StatusStep
    <2>2. CASE Complete(w)
      <3>1. PICK c \in tx[w].claims : MayComplete(w, c) /\ claim' = [claim EXCEPT ![c].status = "cancelled"]
        BY <2>2 DEF Complete
      <3>2. <<claim[c].status, "cancelled">> \in Successions
        BY <3>1 DEF MayComplete, Successions
      <3> QED
        BY <1>2, <3>1, <3>2, StatusStep
    <2> QED
      BY <2>1, <2>2
  <1>4. invites' \in [Party -> SUBSET Player] /\ InviteStep
    BY <1>1, InvitesStay
  <1> QED
    BY <1>1, <1>3, <1>4, AccountsStay, PartiesStay, EndStep

LEMMA StartIsStep ==
  ASSUME Sound, NEW w \in Session, Start(w)
  PROVE  Step(w)
  <1> DEFINE spent == UNION {claim[c].roster : c \in tx[w].claims}
             C(c) == [claim[c] EXCEPT !.status = IF c \in tx[w].claims THEN "completed" ELSE claim[c].status,
                                      !.changed = claim[c].changed \union (claim[c].roster \cap spent)]
  <1>1. /\ MayStart(w) /\ End(w) /\ account' = account /\ party' = party /\ invites' = invites
        /\ claim' = [c \in Claim |-> C(c)]
    BY DEF Start
  <1>2. tx[w].claims \subseteq Claim /\ claim \in [Claim -> Claims] /\ \A d \in Claim : ClaimShape(d)
    BY TxFacts DEF Sound, Typed, TablesSound
  <1>3. \A c \in Claim :
          /\ C(c) \in Claims /\ C(c).party = claim[c].party /\ C(c).requester = claim[c].requester
          /\ C(c).version = claim[c].version /\ C(c).roster = claim[c].roster
          /\ C(c).changed = claim[c].changed \union (claim[c].roster \cap spent)
          /\ C(c).expired = claim[c].expired
          /\ C(c).status = IF c \in tx[w].claims THEN "completed" ELSE claim[c].status
    <2> HIDE DEF spent
    <2> QED
      BY <1>2 DEF Claims
  <1>4. \A c \in Claim : claim[c] = NoClaim => C(c) = NoClaim
    <2> SUFFICES ASSUME NEW c \in Claim, claim[c] = NoClaim PROVE C(c) = NoClaim
      OBVIOUS
    <2>1. NoClaim.changed = {} /\ NoClaim.roster = {} /\ NoClaim.status = "none"
      BY DEF NoClaim
    <2>2. c \notin tx[w].claims
      BY <1>1, <2>1 DEF MayStart
    <2>3. \A r \in Claims : [r EXCEPT !.status = r.status, !.changed = r.changed] = r
      BY DEF Claims
    <2>4. claim[c].changed \union (claim[c].roster \cap spent) = claim[c].changed
      BY <2>1
    <2>5. C(c) = [claim[c] EXCEPT !.status = claim[c].status, !.changed = claim[c].changed]
      BY <2>2, <2>4
    <2> QED
      BY <1>2, <2>3, <2>5
  <1> HIDE DEF C
  <1>5. claim' \in [Claim -> Claims] /\ \A c \in Claim : claim'[c] = C(c)
    BY <1>1, <1>3
  <1>6. ASSUME NEW c \in Claim PROVE Fades(c)
    <2>1. CASE claim[c] = NoClaim
      BY <1>4, <1>5, <2>1 DEF Fades
    <2>2. CASE claim[c] # NoClaim
      <3>1. claim[c].changed \subseteq claim[c].roster
        BY <1>2, <2>2 DEF ClaimShape
      <3>2. claim'[c].status = claim[c].status \/ <<claim[c].status, claim'[c].status>> \in Successions
        BY <1>1, <1>3, <1>5 DEF MayStart, Successions
      <3>3. claim'[c].changed \subseteq claim[c].roster
        BY <1>3, <1>5, <3>1
      <3> QED
        BY <1>3, <1>5, <2>2, <3>2, <3>3 DEF Fades
    <2> QED
      BY <2>1, <2>2
  <1>7. ClaimStep(w)
    BY <1>6 DEF ClaimStep
  <1>8. invites' \in [Party -> SUBSET Player] /\ InviteStep
    BY <1>1, InvitesStay
  <1> QED
    BY <1>1, <1>5, <1>7, <1>8, AccountsStay, PartiesStay, EndStep

LEMMA ChangeLoadoutIsStep ==
  ASSUME Sound, NEW w \in Session, ChangeLoadout(w)
  PROVE  Step(w)
  <1>1. Ready(w, "loadout") /\ Write(party, {}, {tx[w].actor}) /\ End(w) /\ invites' = invites
    BY DEF ChangeLoadout
  <1>2. tx[w].actor \in Player
    BY <1>1, DeciderIs DEF AllOperations
  <1>3. /\ claim' \in [Claim -> Claims] /\ ClaimStep(w)
        /\ account' \in [Player -> {"guest", "linked", "gone"}]
        /\ \A p \in Player : account'[p] = IF p \in {} THEN "gone" ELSE account[p]
        /\ party' = party
    BY <1>1, <1>2, WriteHow
  <1>4. AccountStep(w)
    BY <1>3 DEF AccountStep
  <1>5. invites' \in [Party -> SUBSET Player] /\ InviteStep
    BY <1>1, <1>3, InvitesStay
  <1> QED
    BY <1>1, <1>3, <1>4, <1>5, PartiesStay, EndStep

LEMMA LinkIsStep ==
  ASSUME Sound, NEW w \in Session, Link(w)
  PROVE  Step(w)
  <1>1. /\ Ready(w, "link") /\ MayLink(w) /\ End(w)
        /\ account' = [account EXCEPT ![tx[w].actor] = "linked"]
        /\ party' = party /\ invites' = invites /\ claim' = claim
    BY DEF Link
  <1>2. tx[w].actor \in Player /\ account \in [Player -> {"guest", "linked", "gone"}]
    BY <1>1, DeciderIs DEF AllOperations, Typed
  <1>3. account[tx[w].actor] = "guest"
    BY <1>1 DEF MayLink
  <1>4. /\ account' \in [Player -> {"guest", "linked", "gone"}]
        /\ \A p \in Player : account'[p] = "gone" <=> account[p] = "gone"
    BY <1>1, <1>2, <1>3
  <1>5. AccountStep(w)
    BY <1>4 DEF AccountStep
  <1>6. invites' \in [Party -> SUBSET Player] /\ InviteStep
    BY <1>1, <1>4, InvitesStay
  <1> QED
    BY <1>1, <1>4, <1>5, <1>6, PartiesStay, ClaimsStay, EndStep

(***************************************************************************)
(* Accounts that go: into another account, or for good.                    *)
(***************************************************************************)
LEMMA MergerIs ==
  ASSUME Sound, NEW w \in Session, Ready(w, "merge"), MayMerge(w),
         NEW p, p = tx[w].actor, NEW q, q = tx[w].other
  PROVE  /\ p \in Player /\ q \in Player /\ q # p /\ owner[p] = w /\ owner[q] = w
         /\ account[p] # "gone" /\ account[q] # "gone"
         /\ PartyOf(p) # None => PartyOf(p) \in Party /\ p \in Members(PartyOf(p))
                                 /\ owner[PartyOf(p)] = w /\ NotQueued(PartyOf(p))
         /\ PartyOf(p) = None => Outsider(p)
         /\ (PartyOf(p) # None /\ PartyOf(q) = None) => Joins(w, q)
  <1>1. /\ Running(w) /\ tx[w].op = "merge" /\ p \in Player /\ owner[p] = w /\ account[p] # "gone"
        /\ TxShape(w) /\ TxLocks(w) /\ Typed /\ OneParty
    BY DeciderIs DEF AllOperations
  <1>2. /\ tx[w].stage = "involved" /\ account[q] # "gone"
        /\ \A z \in Party : owner[z] = w => NotQueued(z)
        /\ PartyOf(p) # None => owner[PartyOf(p)] = w
        /\ (PartyOf(p) # None /\ PartyOf(q) = None) => NotQueuedSolo(q)
    BY DEF MayMerge, Holds
  <1>3. q \in Player /\ q # p
    BY <1>1 DEF TxShape
  <1>4. owner[q] = w
    BY <1>1, <1>2 DEF TxLocks, Kept
  <1>5. PartyOf(p) # None => PartyOf(p) \in Party /\ p \in Members(PartyOf(p))
    BY <1>1, PartyOfIs
  <1>6. PartyOf(p) = None => Outsider(p)
    BY <1>1, PartyOfIs
  <1>7. PartyOf(q) = None => Outsider(q)
    BY <1>1, PartyOfIs
  <1> QED
    BY <1>1, <1>2, <1>3, <1>4, <1>5, <1>6, <1>7 DEF Joins

LEMMA AdoptedInvites ==
  ASSUME Sound, NEW p \in Player, NEW q \in Player, q # p, account[q] # "gone", invites' = Adopted(p, q),
         \A r \in Player : account'[r] = IF r \in {p} THEN "gone" ELSE account[r],
         \A y \in Party : party'[y].members = <<>> => party[y].members = <<>>
  PROVE  invites' \in [Party -> SUBSET Player] /\ InviteStep
  <1>1. /\ invites' = [y \in Party |-> invites'[y]]
        /\ \A y \in Party : invites'[y] = IF p \in invites[y] THEN (invites[y] \ {p}) \union {q} ELSE invites[y]
    BY DEF Adopted
  <1>2. \A y \in Party : invites[y] \subseteq Player
    BY DEF Sound, Typed
  <1>3. invites' \in [Party -> SUBSET Player]
    BY <1>1, <1>2
  <1>4. InviteStep
    BY <1>1, InvitesAre DEF InviteStep
  <1> QED
    BY <1>3, <1>4

LEMMA MergeIsStep ==
  ASSUME Sound, NEW w \in Session, Merge(w)
  PROVE  Step(w)
  <1> DEFINE p == tx[w].actor
             q == tx[w].other
             x == PartyOf(p)
             members == IF PartyOf(q) = x THEN OthersOf(x, p) ELSE Renamed(party[x].members, p, q)
             R == Changed(x, members, RenamedLeader(x, p, q))
             after == IF x = None THEN party ELSE [party EXCEPT ![x] = R]
  <1>1. /\ Ready(w, "merge") /\ MayMerge(w) /\ ~SplitParties(w) /\ End(w)
        /\ Write(after, {p}, {q}) /\ invites' = Adopted(p, q)
    BY DEF Merge
  <1>2. /\ p \in Player /\ q \in Player /\ q # p /\ owner[p] = w /\ owner[q] = w
        /\ account[p] # "gone" /\ account[q] # "gone"
        /\ x # None => x \in Party /\ p \in Members(x) /\ owner[x] = w /\ NotQueued(x)
        /\ x = None => Outsider(p)
        /\ (x # None /\ PartyOf(q) = None) => Joins(w, q)
    BY <1>1, MergerIs
  <1>3. x = None \/ PartyOf(q) = None \/ x = PartyOf(q)
    BY <1>1 DEF SplitParties
  <1>4. Typed /\ OneParty
    BY DEF Sound, TablesSound
  <1>5. PartyOf(q) = None => Outsider(q)
    BY <1>4, PartyOfIs
  <1>6. (PartyOf(q) = x /\ x # None) => q \in Members(x)
    BY <1>2, <1>4, PartyOfIs
  <1> HIDE DEF p, q, x
  <1>7. /\ claim' \in [Claim -> Claims] /\ ClaimStep(w)
        /\ account' \in [Player -> {"guest", "linked", "gone"}]
        /\ \A r \in Player : account'[r] = IF r \in {p} THEN "gone" ELSE account[r]
        /\ party' = after
    <2> HIDE DEF after
    <2>1. Write(after, {p}, {q}) /\ {p} \in SUBSET Player /\ {q} \in SUBSET Player
      BY <1>1, <1>2
    <2> QED
      BY <2>1, WriteHow
  <1>8. CASE x = None
    <2>1. party' = party
      BY <1>7, <1>8
    <2>2. ~Rostered(p)
      BY <1>2, <1>8, <2>1 DEF Rostered, Outsider, Members
    <2>3. AccountStep(w)
      BY <1>2, <1>7, <2>2, AccountGoes
    <2>4. invites' \in [Party -> SUBSET Player] /\ InviteStep
      BY <1>1, <1>2, <1>7, <2>1, AdoptedInvites
    <2> QED
      BY <1>1, <1>7, <2>1, <2>3, <2>4, PartiesStay, EndStep
  <1>9. CASE x # None
    <2>1. x \in Party /\ p \in Members(x) /\ owner[x] = w /\ NotQueued(x)
      BY <1>2, <1>9
    <2>2. /\ party[x].members \in Rosters /\ Members(x) = ToSet(party[x].members)
          /\ party[x].leader \in Members(x) /\ Len(party[x].members) <= MaxMembers /\ Exists(x)
          /\ Len(party[x].members) \in Nat
      <3>1. PartySound(x)
        BY <2>1 DEF Sound, TablesSound
      <3>2. Exists(x)
        BY <1>4, <2>1, PartyFacts
      <3>3. party[x].members \in Rosters /\ Members(x) = ToSet(party[x].members)
        BY <1>4, <2>1, PartyFacts DEF Members
      <3> QED
        BY <3>1, <3>2, <3>3, RosterFacts DEF PartySound
    <2>3. /\ members \in Rosters /\ Len(members) <= MaxMembers
          /\ q \in ToSet(members) /\ ToSet(members) = (Members(x) \ {p}) \union {q}
          /\ ToSet(members) \subseteq Members(x) \/ Joins(w, q)
      <3>1. CASE PartyOf(q) = x
        <4>1. members = OthersOf(x, p)
          BY <3>1
        <4>2. /\ members \in Rosters /\ Len(members) = Len(party[x].members) - 1
              /\ ToSet(members) = Members(x) \ {p}
          BY <1>4, <2>1, <4>1, Removal
        <4>3. q \in Members(x)
          BY <1>6, <1>9, <3>1
        <4> QED
          BY <1>2, <2>2, <4>2, <4>3 DEF MaxMembers
      <3>2. CASE PartyOf(q) # x
        <4>1. members = Renamed(party[x].members, p, q) /\ Outsider(q) /\ Joins(w, q)
          BY <1>2, <1>3, <1>5, <1>9, <3>2
        <4>2. q \notin ToSet(party[x].members) /\ p \in ToSet(party[x].members)
          BY <2>1, <2>2, <4>1 DEF Outsider
        <4>3. /\ members \in Rosters /\ Len(members) = Len(party[x].members)
              /\ ToSet(members) = (ToSet(party[x].members) \ {p}) \union {q}
          BY <1>2, <2>2, <4>1, <4>2, RosterRenamed
        <4> QED
          BY <2>2, <4>1, <4>3
      <3> QED
        BY <3>1, <3>2
    <2> HIDE DEF members
    <2>4. RenamedLeader(x, p, q) \in ToSet(members)
      BY <2>2, <2>3 DEF RenamedLeader, Leads
    <2>5. members # <<>>
      BY <2>3, RosterFacts
    <2>6. SoundRow(R) /\ R.members = members
      BY <1>4, <2>1, <2>3, <2>4, <2>5, ChangedRow
    <2> HIDE DEF R
    <2>7. \A n \in ToSet(R.members) \ Members(x) : Joins(w, n)
      BY <2>3, <2>6
    <2>8. party' = [party EXCEPT ![x] = R]
      BY <1>7, <1>9
    <2>9. /\ party' \in [Party -> Parties] /\ RosterStep(w)
          /\ party'[x] = R /\ \A y \in Party \ {x} : party'[y] = party[y]
      BY <2>1, <2>6, <2>7, <2>8, OneRow
    <2>10. ~Rostered(p)
      BY <1>2, <1>4, <2>1, <2>3, <2>6, <2>9 DEF Rostered, OneParty, Members
    <2>11. AccountStep(w)
      BY <1>2, <1>7, <2>10, AccountGoes
    <2>12. invites' \in [Party -> SUBSET Player] /\ InviteStep
      <3>1. \A y \in Party : party'[y].members = <<>> => party[y].members = <<>>
        BY <2>5, <2>6, <2>9
      <3> QED
        BY <1>1, <1>2, <1>7, <3>1, AdoptedInvites
    <2> QED
      BY <1>1, <1>7, <2>9, <2>11, <2>12, EndStep
  <1> QED
    BY <1>8, <1>9

LEMMA MergeSplitIsStep ==
  ASSUME Sound, NEW w \in Session, MergeSplit(w)
  PROVE  Step(w)
  <1> DEFINE p == tx[w].actor
             x == PartyOf(p)
             after == [party EXCEPT ![x] = PartyAfter(x, p)]
  <1>1. /\ Ready(w, "merge") /\ MayMerge(w) /\ SplitParties(w) /\ End(w)
        /\ Write(after, {p}, {tx[w].other}) /\ invites' = InvitesAfter(after, {p})
    BY DEF MergeSplit
  <1>2. x # None
    BY <1>1 DEF SplitParties
  <1>3. /\ x \in Party /\ p \in Members(x) /\ owner[x] = w /\ NotQueued(x) /\ owner[p] = w
        /\ tx[w].other \in Player
    BY <1>1, <1>2, MergerIs
  <1> QED
    BY <1>1, <1>3, DepartureIsStep

LEMMA DeleteIsStep ==
  ASSUME Sound, NEW w \in Session, Delete(w)
  PROVE  Step(w)
  <1> DEFINE p == tx[w].actor
             x == PartyOf(p)
             after == IF x = None THEN party ELSE [party EXCEPT ![x] = PartyAfter(x, p)]
  <1>1. /\ Ready(w, "delete") /\ MayDelete(w) /\ End(w)
        /\ Write(after, {p}, {}) /\ invites' = InvitesAfter(after, {p})
    BY DEF Delete
  <1>2. Typed /\ OneParty /\ p \in Player /\ owner[p] = w
    BY <1>1, DeciderIs DEF AllOperations
  <1>3. CASE x = None
    <2>1. Outsider(p)
      BY <1>2, <1>3, PartyOfIs
    <2>2. after = party /\ party \in [Party -> Parties]
      BY <1>2, <1>3 DEF Typed
    <2> HIDE DEF after
    <2>3. party' = party
      BY <1>1, <2>2 DEF Write
    <2>4. RosterStep(w) /\ ~Rostered(p)
      BY <2>1, <2>3 DEF RosterStep, Rostered, Outsider, Members
    <2> QED
      BY <1>1, <1>2, <2>2, <2>4, WrittenStep
  <1>4. CASE x # None
    <2>1. Current(w) /\ NotQueued(tx[w].hint) /\ tx[w].hint = x
      BY <1>1, <1>4 DEF MayDelete, MayLeave, Current
    <2>2. x \in Party /\ owner[x] = w /\ p \in Members(x) /\ NotQueued(x)
      BY <1>2, <2>1, CurrentIs
    <2>3. after = [party EXCEPT ![x] = PartyAfter(x, p)]
      BY <1>4
    <2> HIDE DEF after
    <2> QED
      BY <1>1, <1>2, <2>2, <2>3, DepartureIsStep
  <1> QED
    BY <1>3, <1>4

(***************************************************************************)
(* Time, and steps of others.                                              *)
(***************************************************************************)
LEMMA Elsewhere ==
  ASSUME Sound, owner' = owner, tx' = tx, calls' = calls
  PROVE  Around(None) /\ OwnStep(None)
  BY NoneIsNothing DEF Around, OwnStep

LEMMA ExpireClaimIsStep ==
  ASSUME Sound, ExpireClaim
  PROVE  Step(None)
  <1>1. PICK c \in Claim : Unsettled(c) /\ claim' = [claim EXCEPT ![c].expired = TRUE]
    BY DEF ExpireClaim
  <1>2. /\ account' = account /\ party' = party /\ invites' = invites
        /\ owner' = owner /\ tx' = tx /\ calls' = calls
    BY DEF ExpireClaim
  <1>3. claim \in [Claim -> Claims] /\ \A d \in Claim : ClaimShape(d)
    BY DEF Sound, Typed, TablesSound
  <1> DEFINE C == [claim[c] EXCEPT !.expired = TRUE]
  <1>4. /\ C \in Claims /\ C.status = claim[c].status /\ C.party = claim[c].party /\ C.requester = claim[c].requester
        /\ C.version = claim[c].version /\ C.roster = claim[c].roster /\ C.changed = claim[c].changed
        /\ C.expired = TRUE
    BY <1>3 DEF Claims
  <1>5. claim' = [claim EXCEPT ![c] = C]
    BY <1>1, <1>3
  <1> HIDE DEF C
  <1>6. /\ claim' \in [Claim -> Claims] /\ claim'[c] = C
        /\ \A d \in Claim \ {c} : claim'[d] = claim[d]
    BY <1>3, <1>4, <1>5
  <1>7. claim[c] # NoClaim
    BY <1>1 DEF Unsettled, NoClaim
  <1>8. Fades(c)
    BY <1>3, <1>4, <1>6, <1>7 DEF Fades, ClaimShape
  <1>9. ClaimStep(None)
    BY <1>3, <1>6, <1>8, SameFades DEF ClaimStep
  <1>10. AccountStep(None) /\ RosterStep(None) /\ InviteStep
    BY <1>2, AccountsStay, PartiesStay, InvitesStay
  <1>11. Around(None) /\ OwnStep(None)
    BY <1>2, Elsewhere
  <1>12. Typed'
    BY <1>2, <1>6 DEF Sound, Typed
  <1> QED
    BY <1>9, <1>10, <1>11, <1>12 DEF Step

LEMMA ExpireInviteIsStep ==
  ASSUME Sound, ExpireInvite
  PROVE  Step(None)
  <1>1. PICK x \in Party : \E p \in invites[x] : invites' = [invites EXCEPT ![x] = @ \ {p}]
    BY DEF ExpireInvite
  <1>2. /\ account' = account /\ party' = party /\ claim' = claim
        /\ owner' = owner /\ tx' = tx /\ calls' = calls
    BY DEF ExpireInvite
  <1>3. /\ invites' \in [Party -> SUBSET Player]
        /\ \A y \in Party : invites'[y] \subseteq invites[y]
    BY <1>1 DEF Sound, Typed
  <1>4. InviteStep
    BY <1>2, <1>3, InvitesAre DEF InviteStep
  <1>5. AccountStep(None) /\ RosterStep(None) /\ ClaimStep(None)
    BY <1>2, AccountsStay, PartiesStay, ClaimsStay
  <1>6. Around(None) /\ OwnStep(None)
    BY <1>2, Elsewhere
  <1>7. Typed'
    BY <1>2, <1>3 DEF Sound, Typed
  <1> QED
    BY <1>4, <1>5, <1>6, <1>7 DEF Step

LEMMA NothingIsStep ==
  ASSUME Sound, UNCHANGED vars
  PROVE  Step(None)
  <1>1. UNCHANGED tables /\ owner' = owner /\ tx' = tx /\ calls' = calls
    BY DEF vars, tables
  <1>2. Around(None) /\ OwnStep(None)
    BY <1>1, Elsewhere
  <1> QED
    BY <1>1, <1>2, QuietStep DEF Sound, Typed

LEMMA EveryStep ==
  ASSUME Sound, [Next]_vars
  PROVE  \E w \in Session \union {None} : Step(w)
  <1>1. ASSUME NEW w \in Session, Begin(w) \/ Lock(w) \/ BreakDeadlock(w) \/ TryAgain(w)
        PROVE  Step(w)
    BY <1>1, BeginStep, LockStep, BreakStep, TryAgainStep
  <1>2. ASSUME NEW w \in Session, Decide(w)
        PROVE  Step(w)
    <2>1. CASE Invite(w) \/ Revoke(w) \/ Accept(w) \/ Leave(w) \/ Disband(w) \/ Transfer(w)
      BY <2>1, InviteIsStep, RevokeIsStep, AcceptIsStep, LeaveIsStep, DisbandIsStep, TransferIsStep
    <2>2. CASE QueueSolo(w) \/ Snapshot(w) \/ Queue(w) \/ Cancel(w) \/ Complete(w) \/ Start(w)
      BY <2>2, QueueSoloIsStep, SnapshotStep, QueueIsStep, CancelIsStep, StartIsStep
    <2>3. CASE ChangeLoadout(w) \/ Link(w) \/ Involve(w)
      BY <2>3, ChangeLoadoutIsStep, LinkIsStep, InvolveStep
    <2>4. CASE Merge(w) \/ MergeSplit(w) \/ Delete(w) \/ Answer(w) \/ GiveUp(w)
      BY <2>4, MergeIsStep, MergeSplitIsStep, DeleteIsStep, AnswerStep
    <2> QED
      BY <1>2, <2>1, <2>2, <2>3, <2>4 DEF Decide
  <1>3. CASE ExpireClaim \/ ExpireInvite \/ UNCHANGED vars
    BY <1>3, ExpireClaimIsStep, ExpireInviteIsStep, NothingIsStep
  <1> QED
    BY <1>1, <1>2, <1>3 DEF Next

(***************************************************************************)
(* The tables at first.                                                    *)
(***************************************************************************)
LEMMA Founding ==
  ASSUME NEW f \in Founded
  PROVE  /\ \A x \in Party : f.rosters[x] \in Rosters /\ Len(f.rosters[x]) <= MaxMembers
         /\ \A x, y \in Party : x # y => ToSet(f.rosters[x]) \cap ToSet(f.rosters[y]) = {}
         /\ f.queued \subseteq Party /\ \A x \in f.queued : f.rosters[x] # <<>>
  <1>1. /\ f.rosters \in [Party -> Seq(Player)]
        /\ \A x \in Party :
             /\ IsInjective(f.rosters[x]) /\ Len(f.rosters[x]) <= MaxMembers
             /\ \A y \in Party \ {x} : ToSet(f.rosters[x]) \cap ToSet(f.rosters[y]) = {}
        /\ f.queued \subseteq {x \in Party : f.rosters[x] # <<>>}
    BY DurablePartyAssumption
  <1> QED
    BY <1>1 DEF Rosters

LEMMA JoinedRow ==
  ASSUME NEW s \in Rosters, Len(s) <= MaxMembers
  PROVE  /\ SoundRow(Joined(s)) /\ Joined(s).members = s
  <1>1. CASE s = <<>>
    BY <1>1, EmptyRow DEF Joined
  <1>2. CASE s # <<>>
    <2>1. Joined(s) = [members |-> s, leader |-> s[1], version |-> Len(s)]
      BY <1>2 DEF Joined
    <2>2. s[1] \in Player /\ s[1] \in ToSet(s) /\ Len(s) \in Nat
      BY <1>2, RosterFacts
    <2> QED
      BY <1>2, <2>1, <2>2 DEF SoundRow, Parties
  <1> QED
    BY <1>1, <1>2

LEMMA InitHolds ==
  ASSUME Init
  PROVE  Sound /\ Apart
  <1>1. PICK f \in Founded :
          /\ account = [p \in Player |-> IF p \in f.linked THEN "linked" ELSE "guest"]
          /\ party = [x \in Party |-> Joined(f.rosters[x])]
          /\ \E claimOf \in Injection(f.queued, Claim) :
               claim = [c \in Claim |->
                 IF \E x \in f.queued : claimOf[x] = c
                 THEN QueueClaim(CHOOSE x \in f.queued : claimOf[x] = c) ELSE NoClaim]
    BY DEF Init
  <1>2. PICK claimOf \in Injection(f.queued, Claim) :
          claim = [c \in Claim |->
            IF \E x \in f.queued : claimOf[x] = c
            THEN QueueClaim(CHOOSE x \in f.queued : claimOf[x] = c) ELSE NoClaim]
    BY <1>1
  <1>3. /\ invites = [x \in Party |-> ToSet(party[x].members) \cap {party[x].leader}]
        /\ owner = [r \in Row |-> None] /\ tx = [w \in Session |-> Idle] /\ calls = 0
    BY DEF Init
  <1>4. \A p \in Player : account[p] \in {"linked", "guest"}
    BY <1>1
  <1>5. \A x \in Party : SoundRow(party[x]) /\ party[x].members = f.rosters[x] /\ party[x] \in Parties
    BY <1>1, Founding, JoinedRow DEF SoundRow
  <1>6. \A x \in Party : Members(x) \subseteq Player /\ (Exists(x) <=> Members(x) # {})
    <2> TAKE x \in Party
    <2>1. party[x].members \in Rosters
      BY <1>5, Founding
    <2> QED
      BY <2>1, RosterFacts DEF Members, Exists
  <1>7. \A c \in Claim : claim[c] = NoClaim \/ \E x \in f.queued : claimOf[x] = c /\ claim[c] = QueueClaim(x)
    <2> SUFFICES ASSUME NEW c \in Claim, \E x \in f.queued : claimOf[x] = c
                 PROVE  \E x \in f.queued : claimOf[x] = c /\ claim[c] = QueueClaim(x)
      BY <1>2
    <2> DEFINE y == CHOOSE x \in f.queued : claimOf[x] = c
    <2>1. y \in f.queued /\ claimOf[y] = c
      OBVIOUS
    <2>2. claim[c] = QueueClaim(y)
      BY <1>2
    <2> QED
      BY <2>1, <2>2
  <1>8. \A x \in f.queued :
          LET C == QueueClaim(x) IN
          /\ x \in Party /\ Exists(x) /\ C \in Claims /\ C.status = "active" /\ C.changed = {}
          /\ C.party = x /\ C.roster = Members(x) /\ C.version = party[x].version /\ C.roster # {}
    <2> SUFFICES ASSUME NEW x \in f.queued, NEW C, C = QueueClaim(x)
                 PROVE  /\ x \in Party /\ Exists(x) /\ C \in Claims /\ C.status = "active" /\ C.changed = {}
                        /\ C.party = x /\ C.roster = Members(x) /\ C.version = party[x].version /\ C.roster # {}
      OBVIOUS
    <2>1. x \in Party /\ Exists(x) /\ Members(x) # {}
      BY <1>5, <1>6, Founding DEF Exists
    <2>2. party[x].leader \in Player \union {None} /\ party[x].version \in Nat
      BY <1>5, <2>1 DEF Parties
    <2>3. C = [status |-> "active", party |-> x, requester |-> party[x].leader, version |-> party[x].version,
               roster |-> Members(x), changed |-> {}, expired |-> FALSE]
      BY DEF QueueClaim, NewClaim, Members
    <2>4. C \in Claims
      BY <1>6, <2>1, <2>2, <2>3 DEF Claims
    <2> QED
      BY <2>1, <2>3, <2>4
  <1>9. Typed
    <2>1. account \in [Player -> {"guest", "linked", "gone"}]
      BY <1>1
    <2>2. party \in [Party -> Parties]
      BY <1>1, <1>5
    <2>3. invites \in [Party -> SUBSET Player]
      BY <1>3, <1>6 DEF Members
    <2>4. claim \in [Claim -> Claims]
      <3>1. NoClaim \in Claims
        BY DEF NoClaim, Claims
      <3>2. \A c \in Claim : claim[c] \in Claims
        BY <1>7, <1>8, <3>1
      <3> QED
        BY <1>2, <3>2
    <2>5. owner \in [Row -> Session \union {None}] /\ tx \in [Session -> Transactions]
      BY <1>3, IdleTx
    <2>6. calls \in 0..MaxCalls
      BY <1>3, DurablePartyAssumption
    <2> QED
      BY <2>1, <2>2, <2>3, <2>4, <2>5, <2>6 DEF Typed
  <1>10. \A w \in Session : tx[w] = Idle /\ ~Running(w)
    BY <1>3, IdleTx DEF Running
  <1>11. TxSound
    <2> SUFFICES ASSUME NEW w \in Session PROVE TxShape(w) /\ TxLocks(w) /\ TxReads(w) /\ TxClaims(w)
      BY DEF TxSound
    <2>1. tx[w] = Idle /\ ~Running(w) /\ tx[w].op = "none" /\ tx[w].stage = "none"
      BY <1>10, IdleTx
    <2> QED
      BY <2>1 DEF TxShape, TxLocks, TxReads, TxClaims
  <1>12. TablesSound
    <2>1. ASSUME NEW x \in Party PROVE PartySound(x)
      <3>1. SoundRow(party[x]) /\ invites[x] \subseteq Members(x)
        BY <1>3, <1>5 DEF Members
      <3>2. \A p \in Members(x) \union invites[x] : account[p] # "gone"
        BY <1>4, <1>6, <3>1
      <3> QED
        BY <1>6, <3>1, <3>2 DEF PartySound, SoundRow, Exists, Members
    <2>2. OneParty
      BY <1>5, Founding DEF OneParty, Members
    <2>3. ASSUME NEW c \in Claim PROVE ClaimShape(c)
      BY <1>7, <1>8, NoneIsNothing DEF ClaimShape
    <2> QED
      BY <2>1, <2>2, <2>3 DEF TablesSound
  <1>13. \A c \in Claim : Live(c) =>
           \E x \in f.queued : /\ claimOf[x] = c /\ x \in Party /\ Exists(x) /\ claim[c].party = x
                               /\ claim[c].roster = Members(x) /\ claim[c].version = party[x].version
    BY <1>7, <1>8 DEF Live, NoClaim
  <1>14. QueuedRosterIsFrozen
    BY <1>13 DEF QueuedRosterIsFrozen
  <1>15. OneLiveClaim
    <2> SUFFICES ASSUME NEW c \in Claim, NEW d \in Claim, c # d, Live(c), Live(d)
                 PROVE  claim[c].roster \cap claim[d].roster = {}
      BY DEF OneLiveClaim
    <2>1. PICK x \in f.queued : claimOf[x] = c /\ x \in Party /\ claim[c].roster = Members(x)
      BY <1>13
    <2>2. PICK y \in f.queued : claimOf[y] = d /\ y \in Party /\ claim[d].roster = Members(y)
      BY <1>13
    <2>3. x # y
      BY <2>1, <2>2
    <2> QED
      BY <1>12, <2>1, <2>2, <2>3 DEF TablesSound, OneParty
  <1>16. SoloApart
    BY <1>13, NoneIsNothing DEF SoloApart
  <1>17. \A w \in Session : FounderFree(w)
    BY <1>10 DEF FounderFree
  <1> QED
    BY <1>9, <1>11, <1>12, <1>14, <1>15, <1>16, <1>17 DEF Sound, Apart

(***************************************************************************)
(* What the invariant says of the properties.                              *)
(***************************************************************************)
LEMMA SoundRosters ==
  ASSUME Sound
  PROVE  RosterIsSound
  <1>1. TypeOK
    <2>1. \A x \in Party : /\ party[x].members \in Seq(Player)
                           /\ party[x].leader \in Player \union {None} /\ party[x].version \in Nat
      BY PartyFacts DEF Sound, Rosters
    <2>2. \A c \in Claim : claim[c].changed \subseteq claim[c].roster
      BY DEF Sound, TablesSound, ClaimShape, NoClaim
    <2> QED
      BY <2>1, <2>2 DEF Sound, Typed, Claims, TypeOK
  <1>2. ASSUME NEW x \in Party, Exists(x)
        PROVE  /\ party[x].leader \in Members(x)
               /\ Len(party[x].members) <= MaxMembers
               /\ Cardinality(Members(x)) = Len(party[x].members)
               /\ \A p \in Members(x) : account[p] # "gone"
               /\ \A y \in Party \ {x} : Members(x) \cap Members(y) = {}
    <2>1. PartySound(x) /\ OneParty /\ party[x].members \in Rosters
      BY PartyFacts DEF Sound, TablesSound
    <2>2. Cardinality(Members(x)) = Len(party[x].members)
      BY <2>1, RosterSize DEF Members
    <2> QED
      BY <1>2, <2>1, <2>2 DEF PartySound, OneParty
  <1>3. \A x \in Party : (~Exists(x) => invites[x] = {}) /\ \A p \in invites[x] : account[p] # "gone"
    BY InvitesAre DEF Exists
  <1> QED
    BY <1>1, <1>2, <1>3 DEF RosterIsSound

LEMMA SoundIsInductive == Sound /\ [Next]_vars => Sound'
  BY EveryStep, SoundKept

(* The tables and the transactions on them are always sound: the locks     *)
(* that partyActor and the operations take are enough for what they read   *)
(* before and write after.                                                 *)
THEOREM SoundAlways == Spec => []Sound
  <1>1. Init => Sound
    BY InitHolds
  <1> QED
    BY <1>1, SoundIsInductive, PTL DEF Spec

(* The types hold; a player is in one party, a party has one to three      *)
(* members who exist, one of whom leads it, and only existing parties have *)
(* invitations: whatever joins, departures, merges and deletions overlap.  *)
THEOREM RostersAreSound == Spec => []RosterIsSound
  <1>1. Sound => RosterIsSound
    BY SoundRosters
  <1> QED
    BY <1>1, SoundAlways, PTL

(* The roster and the version that a live claim names are the party's: no  *)
(* call gets between claimPartyQueue's reads and its claim, nor            *)
(* changes a party that is queued.                                         *)
THEOREM QueuedRostersAreFrozen == Spec => []QueuedRosterIsFrozen
  <1>1. Sound => QueuedRosterIsFrozen
    BY DEF Sound
  <1> QED
    BY <1>1, SoundAlways, PTL

(* Nobody is in two live claims, if no player who queues alone founds a    *)
(* party or takes over a guest meanwhile (what the code lets them do).     *)
THEOREM LiveClaimsAreApart ==
  ASSUME ~SoloMixes
  PROVE  Spec => []OneLiveClaim
  <1>1. Init => Sound /\ Apart
    BY InitHolds
  <1>2. (Sound /\ Apart) /\ [Next]_vars => (Sound /\ Apart)'
    BY EveryStep, SoundKept, ApartKept
  <1>3. Sound /\ Apart => OneLiveClaim
    BY DEF Apart
  <1> QED
    BY <1>1, <1>2, <1>3, PTL DEF Spec

(* What is being cancelled is never started, and what was started or       *)
(* cancelled stays so while its row exists: cancelPartyQueue,              *)
(* completePartyQueueCancellation and startMatch read the status again in  *)
(* the transaction that writes it.                                         *)
THEOREM ClaimsEndOnce == Spec => OneEnd
  <1>1. Sound /\ [Next]_vars => [EndsOnce]_vars
    BY EveryStep, EndsOnceKept
  <1>2. EndsOnce <=> (\A c \in Claim :
       /\ claim[c].status = "cancelling" => claim'[c].status # "completed"
       /\ claim[c].status \in {"cancelled", "completed"} => claim'[c].status \in {claim[c].status, "none"})
    BY DEF EndsOnce
  <1> QED
    BY <1>1, <1>2, SoundAlways, PTL DEF Spec, OneEnd
=============================================================================
