---------------------------- MODULE FilterIoProofs ----------------------------
(***************************************************************************)
(* The ring of the filter programs: order, once each, indices recovered and *)
(* a safe end, for any size of the ring and number of levels and threads.  *)
(*                                                                         *)
(* FInv adds to the properties what ties counters under different mutexes  *)
(* to each other: which slots of the ring are complete at which level and  *)
(* which relation each holds, which index each thread works on, and what   *)
(* each level has handled.  Indices less than a ring apart have different  *)
(* slots (SlotUnique).                                                     *)
(***************************************************************************)
EXTENDS FilterIo, FiniteSetTheorems, WellFoundedInduction, TLAPS

(* The least-number principle.                                             *)
LEMMA LeastNat ==
    ASSUME NEW T \in SUBSET Nat, T # {}
    PROVE  \E m \in T : \A n \in T : m <= n
  <1> DEFINE R == OpToRel(<, Nat)
  <1>1. IsWellFoundedOn(R, Nat) BY NatLessThanWellFounded
  <1>2. \A m, n \in Nat : <<n, m>> \in R <=> n < m BY DEF OpToRel
  <1> HIDE DEF R
  <1>3. PICK m \in T : \A n \in T : ~(<<n, m>> \in R) BY <1>1, WFMin
  <1>4. ASSUME NEW n \in T PROVE m <= n
    <2>1. m \in Nat /\ n \in Nat OBVIOUS
    <2>2. ~(n < m) BY <1>2, <1>3, <2>1
    <2>3. QED BY <2>1, <2>2
  <1>5. QED BY <1>4

(* Indices less than a ring apart have different slots.                    *)
LEMMA SlotUnique ==
    ASSUME NEW i \in Nat, NEW j \in Nat, i < j + Size, j < i + Size, i % Size = j % Size
    PROVE  i = j
  <1>1. Size \in Nat \ {0} BY FilterAssumption
  <1>2. \A n \in Nat : n = Size * (n \div Size) + (n % Size) /\ n \div Size \in Int /\ n % Size \in Int
    BY <1>1
  <1> DEFINE p == i \div Size
             q == j \div Size
             r == i % Size
  <1>3. p \in Int /\ q \in Int /\ r \in Int /\ i = Size * p + r /\ j = Size * q + r BY <1>2
  <1> HIDE DEF p, q, r
  <1>4. \A a, b \in Int : a < b => Size * a + Size <= Size * b
    BY <1>1
  <1>5. Size * p \in Int /\ Size * q \in Int BY <1>1, <1>3
  <1>6. ~(p < q)
    <2>1. p < q => Size * p + Size <= Size * q BY <1>3, <1>4
    <2>2. QED BY <1>1, <1>3, <1>5, <2>1
  <1>7. ~(q < p)
    <2>1. q < p => Size * q + Size <= Size * p BY <1>3, <1>4
    <2>2. QED BY <1>1, <1>3, <1>5, <2>1
  <1>8. QED BY <1>3, <1>6, <1>7

(* An index a ring later has the same slot.                                *)
LEMMA SlotPeriod ==
    ASSUME NEW n \in Nat
    PROVE  (n + Size) % Size = n % Size
  <1>1. Size \in Nat \ {0} BY FilterAssumption
  <1>2. \A m \in Nat : /\ m = Size * (m \div Size) + (m % Size)
                       /\ m \div Size \in Int /\ m % Size \in Int
                       /\ 0 <= m % Size /\ m % Size < Size
    BY <1>1
  <1>3. n + Size \in Nat BY <1>1
  <1> DEFINE p == (n + Size) \div Size
             q == n \div Size
             a == (n + Size) % Size
             b == n % Size
  <1>4. /\ p \in Int /\ q \in Int /\ a \in Int /\ b \in Int
        /\ 0 <= a /\ a < Size /\ 0 <= b /\ b < Size
        /\ n + Size = Size * p + a /\ n = Size * q + b
    BY <1>2, <1>3
  <1> HIDE DEF p, q, a, b
  <1>5. Size * (q + 1) = Size * q + Size /\ Size * p \in Int /\ Size * q \in Int
    BY <1>1, <1>4
  <1>6. \A c, d \in Int : c < d => Size * c + Size <= Size * d BY <1>1
  <1>7. ~(p < q + 1)
    <2>1. p < q + 1 => Size * p + Size <= Size * (q + 1) BY <1>4, <1>6
    <2>2. QED BY <1>1, <1>4, <1>5, <2>1
  <1>8. ~(q + 1 < p)
    <2>1. q + 1 < p => Size * (q + 1) + Size <= Size * p BY <1>4, <1>6
    <2>2. QED BY <1>1, <1>4, <1>5, <2>1
  <1>9. p = q + 1 BY <1>4, <1>7, <1>8
  <1>10. a = b BY <1>1, <1>4, <1>5, <1>9
  <1>11. QED BY <1>10 DEF a, b

LEMMA SlotType == \A j \in Nat : j % Size \in Slots
  BY FilterAssumption DEF Slots

(* complete() recovers the index from the slot.                            *)
LEMMA IndexFromSlot ==
    ASSUME NEW j \in Nat, NEW c \in Nat, c <= j, j < c + Size
    PROVE  AbsoluteIndex(j % Size, c) = j
  <1>1. Size \in Nat \ {0} BY FilterAssumption
  <1> DEFINE q == j \div Size
             i == j % Size
  <1>2. j = Size * q + i /\ q \in Int /\ i \in Int BY <1>1
  <1> HIDE DEF q, i
  <1>3. /\ Size * q <= c - i + Size - 1
        /\ c - i + Size - 1 < Size * q + Size
        /\ Size * q \in Int
    BY <1>1, <1>2
  <1>4. (c - i + Size - 1) \div Size = q
    BY <1>1, <1>2, <1>3
  <1>5. q * Size = Size * q BY <1>1, <1>2
  <1>6. QED BY <1>1, <1>2, <1>4, <1>5 DEF AbsoluteIndex, i

--------------------------------------------------------------------------------
(***************************************************************************)
(* The invariant.  A relation is known by its index, its rank among the    *)
(* active ones; the indices of one ring up to scheduled[0] are in flight,  *)
(* and x at the slot of such an index says how far it got.                 *)
(***************************************************************************)
Rank(a) == Cardinality({b \in Active : b < a})

Indices == 0..NRels

InFlight(j) == j < scheduled[0] /\ scheduled[0] <= j + Size

(* What PipelineOrder says between any two levels, closed ones included.   *)
CountersInv ==
    /\ scheduled \in [Level -> Indices]
    /\ completed \in [Level -> Indices \cup {SizeMax}]
    /\ closing \in 0..Levels + 1
    /\ \A k \in Level : k < closing => completed[k] = SizeMax /\ scheduled[k] = scheduled[0]
    /\ \A k \in Level : closing <= k => completed[k] <= scheduled[k]
    /\ \A k, l \in Level : k < l => scheduled[l] <= completed[k] /\ scheduled[l] <= scheduled[k]
    /\ scheduled[0] <= completed[Levels] + Size

(* The thread works on the relation with index j.                          *)
Holding(t) == pc[t] \in {"work", "complete"}

Holds(t, j) ==
    LET k == LevelOfThread(t) IN
    /\ completed[k] <= j /\ j < scheduled[k]
    /\ slot[t] = j % Size
    /\ x[slot[t]] = k - 1

(* x against the counters: a slot that level k has scheduled and not       *)
(* completed is in the hands of a thread of level k.                       *)
RingInv ==
    /\ x \in [Slots -> -1..Levels]
    /\ \A j \in Indices, k \in Level : InFlight(j) =>
         /\ j < completed[k] => x[j % Size] >= k
         /\ scheduled[k] <= j => x[j % Size] < k
         /\ j < scheduled[k] /\ x[j % Size] = k - 1 =>
              \E t \in Threads : LevelOfThread(t) = k /\ Holding(t) /\ slot[t] = j % Size

HoldInv ==
    /\ slot \in [Threads -> Slots \cup {NoSlot}]
    /\ \A t \in Threads : IF Holding(t) THEN \E j \in Indices : Holds(t, j)
                                        ELSE slot[t] = NoSlot
    /\ \A t, u \in Threads : t # u /\ Holding(t) /\ Holding(u) => slot[t] # slot[u]

WorkerPlaces == {"enter", "sync", "schedule", "bored", "work", "complete", "leave", "end"}
OwnerPlaces == (WorkerPlaces \ {"leave"}) \cup {"read", "drain", "drain_bored"}

Draining == pc[Owner] \in {"drain", "drain_bored", "end"}

Away == {"enter", "end", "drain", "drain_bored"}

Counted(k) == {t \in Threads : LevelOfThread(t) = k /\ pc[t] \notin Away}

CountInv == active = [k \in Level |-> Cardinality(Counted(k))]

(* A level's threads leave when the level before is closed and everything  *)
(* is taken, and they are gone when their level is closed.                 *)
ThreadsInv ==
    /\ pc \in [Threads -> WorkerPlaces \cup OwnerPlaces]
    /\ pc[Owner] \in OwnerPlaces
    /\ \A t \in Workers : pc[t] \in WorkerPlaces
    /\ pc[Owner] \notin {"enter", "sync"} => \A t \in Workers : pc[t] # "enter"
    /\ closing > 0 => Draining
    /\ \A t \in Workers :
         /\ pc[t] \in {"leave", "end"} =>
              LevelOf[t] <= closing /\ scheduled[LevelOf[t]] = scheduled[0] /\ Draining
         /\ LevelOf[t] < closing => pc[t] = "end"

(* The owner's relation has the index it is scheduled with.                *)
OwnerInv ==
    /\ nrels \in 0..NRels
    /\ Draining => nrels = NRels
    /\ pc[Owner] \in {"schedule", "bored", "work", "complete"} => nrels \in Active
    /\ IF Holding(Owner)
       THEN Rank(nrels) + 1 = scheduled[0] /\ completed[0] + 1 = scheduled[0]
       ELSE Rank(nrels) = scheduled[0] /\ (closing = 0 => completed[0] = scheduled[0])

(* The relations the owner has put in the ring: one ring up to Put.        *)
Put == IF pc[Owner] = "work" THEN scheduled[0] - 1 ELSE scheduled[0]

RelsInv ==
    /\ rels \in [Slots -> -1..NRels - 1]
    /\ \A j \in Indices : j < Put /\ Put <= j + Size =>
         rels[j % Size] \in Active /\ Rank(rels[j % Size]) = j
    /\ \A s \in Slots : Put <= s => rels[s] = -1

(* What a level has handled: what it has scheduled but for what is in work.*)
HandledByOwner == {a \in Active : a < nrels \/ (a = nrels /\ pc[Owner] = "complete")}

HandledBy(k) ==
    {a \in Active : /\ Rank(a) < scheduled[k]
                    /\ \A t \in Workers : LevelOf[t] = k /\ pc[t] = "work" => rels[slot[t]] # a}

HandledInv ==
    handled = [k \in Level |-> IF k = 0 THEN HandledByOwner ELSE HandledBy(k)]

FInv == /\ CountersInv /\ RingInv /\ HoldInv /\ ThreadsInv /\ CountInv
        /\ OwnerInv /\ RelsInv /\ HandledInv

--------------------------------------------------------------------------------
(* The constants, as the provers use them.                                 *)
LEMMA ConstantFacts ==
    /\ Levels \in Nat /\ Levels >= 1 /\ Size \in Nat /\ Size >= 1 /\ NRels \in Nat
    /\ SizeMax \in Nat /\ SizeMax > NRels + Size
    /\ 0 \in Level /\ Levels \in Level /\ Level \subseteq Nat
    /\ \A k \in Level : k <= Levels
    /\ Owner \in Threads /\ Workers \subseteq Threads /\ Owner \notin Workers
    /\ \A t \in Threads : t # Owner => t \in Workers
    /\ \A j \in Indices : j \in Nat /\ j % Size \in Slots
    /\ NoSlot \notin Slots
  BY FilterAssumption, SlotType DEF Level, Threads, Slots, Indices

LEMMA LevelFacts ==
    /\ LevelOfThread(Owner) = 0
    /\ \A t \in Workers : /\ LevelOfThread(t) = LevelOf[t]
                          /\ LevelOf[t] \in Level /\ LevelOf[t] >= 1
                          /\ LevelOf[t] - 1 \in Level
    /\ \A t \in Threads : LevelOfThread(t) \in Level
    /\ \A t \in Threads : LevelOfThread(t) = 0 <=> t = Owner
    /\ \A k \in Level : k # 0 => Prev(k) = k - 1 /\ k - 1 \in Level
    /\ Prev(0) = Levels
  <1>1. \A t \in Workers : LevelOf[t] \in 1..Levels BY FilterAssumption
  <1>2. QED BY <1>1, ConstantFacts DEF LevelOfThread, Level, Prev, Threads

LEMMA ThreadsFinite == IsFiniteSet(Threads)
  <1>1. IsFiniteSet(Workers) BY FilterAssumption
  <1>2. QED BY <1>1, FS_AddElement DEF Threads

LEMMA ActiveFacts ==
    /\ Active \subseteq 0..NRels - 1 /\ NRels \in Nat
    /\ \A e \in Active : e \in Int /\ 0 <= e /\ e < NRels
  <1>1. Active \subseteq 0..NRels - 1 /\ NRels \in Nat BY FilterAssumption
  <1>2. ASSUME NEW e \in Active PROVE e \in Int /\ 0 <= e /\ e < NRels
    <2>1. e \in 0..NRels - 1 BY <1>1
    <2>2. QED BY <1>1, <2>1
  <1>3. QED BY <1>1, <1>2

(* The rank of a relation among the active ones.                           *)
LEMMA RankType ==
    ASSUME NEW a \in 0..NRels
    PROVE  IsFiniteSet({b \in Active : b < a}) /\ Rank(a) \in Nat /\ Rank(a) <= a
  <1>1. /\ Active \subseteq 0..NRels - 1 /\ NRels \in Nat
        /\ \A e \in Active : e \in Int /\ 0 <= e /\ e < NRels
    BY ActiveFacts
  <1>2. {b \in Active : b < a} \subseteq 0..a - 1
    <2>1. ASSUME NEW e \in Active, e < a PROVE e \in 0..a - 1 BY <1>1, <2>1
    <2>2. QED BY <2>1
  <1>3. IsFiniteSet(0..a - 1) /\ Cardinality(0..a - 1) = a
    <2>1. 0 \in Int /\ a - 1 \in Int BY <1>1
    <2>2. IsFiniteSet(0..a - 1)
          /\ Cardinality(0..a - 1) = IF 0 > a - 1 THEN 0 ELSE a - 1 - 0 + 1
      BY <2>1, FS_Interval
    <2>3. QED BY <2>2
  <1>4. IsFiniteSet({b \in Active : b < a})
        /\ Cardinality({b \in Active : b < a}) <= Cardinality(0..a - 1)
    BY <1>2, <1>3, FS_Subset
  <1>5. Cardinality({b \in Active : b < a}) \in Nat BY <1>4, FS_CardinalityType
  <1>6. QED BY <1>3, <1>4, <1>5 DEF Rank

LEMMA RankStep ==
    ASSUME NEW a \in 0..NRels - 1
    PROVE  Rank(a + 1) = IF a \in Active THEN Rank(a) + 1 ELSE Rank(a)
  <1>1. /\ Active \subseteq 0..NRels - 1 /\ NRels \in Nat
        /\ \A e \in Active : e \in Int /\ 0 <= e /\ e < NRels
    BY ActiveFacts
  <1>2. a \in 0..NRels BY <1>1
  <1> DEFINE S == {b \in Active : b < a}
  <1>3. IsFiniteSet(S) BY <1>2, RankType
  <1>4. CASE a \in Active
    <2>1. {b \in Active : b < a + 1} = S \cup {a}
      <3>1. \A e \in Active : e < a + 1 <=> e < a \/ e = a BY <1>1
      <3>2. QED BY <1>4, <3>1
    <2>2. a \notin S BY <1>1
    <2>3. Cardinality(S \cup {a}) = Cardinality(S) + 1 BY <1>3, <2>2, FS_AddElement
    <2>4. QED BY <1>4, <2>1, <2>3 DEF Rank
  <1>5. CASE a \notin Active
    <2>1. {b \in Active : b < a + 1} = S
      <3>1. \A e \in Active : e < a + 1 <=> e < a BY <1>1, <1>5
      <3>2. QED BY <3>1
    <2>2. QED BY <1>5, <2>1 DEF Rank
  <1>6. QED BY <1>4, <1>5

LEMMA RankMono ==
    ASSUME NEW a \in 0..NRels, NEW b \in 0..NRels, a <= b
    PROVE  Rank(a) <= Rank(b)
  <1>1. /\ Active \subseteq 0..NRels - 1 /\ NRels \in Nat
        /\ \A e \in Active : e \in Int /\ 0 <= e /\ e < NRels
    BY ActiveFacts
  <1>2. {c \in Active : c < a} \subseteq {c \in Active : c < b}
    <2>1. \A e \in Active : e < a => e < b BY <1>1
    <2>2. QED BY <2>1
  <1>3. QED BY <1>2, RankType, FS_Subset DEF Rank

LEMMA RankStrict ==
    ASSUME NEW a \in Active, NEW b \in 0..NRels, a < b
    PROVE  Rank(a) < Rank(b)
  <1>1. /\ Active \subseteq 0..NRels - 1 /\ NRels \in Nat
        /\ \A e \in Active : e \in Int /\ 0 <= e /\ e < NRels
    BY ActiveFacts
  <1>2. a \in 0..NRels - 1 /\ a \in 0..NRels /\ a + 1 \in 0..NRels /\ a + 1 <= b BY <1>1
  <1>3. Rank(a + 1) = Rank(a) + 1 BY <1>2, RankStep
  <1>4. Rank(a + 1) <= Rank(b) BY <1>2, RankMono
  <1>5. Rank(a) \in Nat /\ Rank(b) \in Nat BY <1>2, RankType
  <1>6. QED BY <1>3, <1>4, <1>5

(* Active relations with the same rank are the same.                       *)
LEMMA RankUnique ==
    ASSUME NEW a \in Active, NEW b \in Active, Rank(a) = Rank(b)
    PROVE  a = b
  <1>1. /\ Active \subseteq 0..NRels - 1 /\ NRels \in Nat
        /\ \A e \in Active : e \in Int /\ 0 <= e /\ e < NRels
    BY ActiveFacts
  <1>2. a \in 0..NRels /\ b \in 0..NRels BY <1>1
  <1>3. Rank(a) \in Nat /\ Rank(b) \in Nat BY <1>2, RankType
  <1>4. a < b => Rank(a) < Rank(b) BY <1>2, RankStrict
  <1>5. b < a => Rank(b) < Rank(a) BY <1>2, RankStrict
  <1>6. QED BY <1>1, <1>2, <1>3, <1>4, <1>5

(* The catch-up loop stops at the first slot that level k has not          *)
(* completed.                                                              *)
LEMMA CatchUpStops ==
    ASSUME RingInv, NEW c \in Nat, NEW last \in Nat, c <= last, NEW k \in Level
    PROVE  /\ CatchUp(c, last, k) \in c..last
           /\ \A j \in Nat : c <= j /\ j < CatchUp(c, last, k) => x[j % Size] >= k
  <1> DEFINE T == {i \in c..last : i = last \/ x[i % Size] < k}
  <1>1. T \in SUBSET Nat /\ last \in T OBVIOUS
  <1>2. PICK m \in T : \A n \in T : m <= n BY <1>1, LeastNat
  <1>3. \A j \in Nat : x[j % Size] \in Int /\ k \in Int
    <2>1. x \in [Slots -> -1..Levels] /\ Levels \in Int /\ k \in Int
      BY ConstantFacts DEF RingInv
    <2>2. \A s \in Slots : x[s] \in Int BY <2>1
    <2>3. QED BY <2>1, <2>2, SlotType
  <1>4. \A j \in c..m - 1 : x[j % Size] >= k
    <2> SUFFICES ASSUME NEW j \in c..m - 1 PROVE x[j % Size] >= k OBVIOUS
    <2>1. j \in Nat /\ j \in c..last /\ j < m BY <1>1, <1>2
    <2>2. j \notin T BY <1>2, <2>1
    <2>3. ~(x[j % Size] < k) BY <2>1, <2>2
    <2>4. QED BY <1>3, <2>1, <2>3
  <1> DEFINE P(i) == (\A j \in c..i - 1 : x[j % Size] >= k) /\ (i = last \/ x[i % Size] < k)
  <1>5. m \in c..last /\ P(m) BY <1>2, <1>4
  <1>6. CatchUp(c, last, k) = CHOOSE i \in c..last : P(i) BY DEF CatchUp
  <1>7. CatchUp(c, last, k) \in c..last /\ P(CatchUp(c, last, k)) BY <1>5, <1>6
  <1>8. QED BY <1>7

--------------------------------------------------------------------------------
(* Facts that follow from the invariant.                                   *)
LEMMA CounterFacts ==
    ASSUME CountersInv
    PROVE  /\ closing \in Nat /\ closing <= Levels + 1
           /\ \A k \in Level :
                /\ scheduled[k] \in Nat /\ scheduled[k] <= NRels /\ scheduled[k] \in Indices
                /\ completed[k] \in Nat
                /\ completed[k] = SizeMax <=> k < closing
                /\ closing <= k => completed[k] \in Indices /\ completed[k] <= scheduled[k]
                /\ scheduled[k] <= scheduled[0]
                /\ scheduled[0] <= completed[k] + Size
  <1>1. closing \in Nat /\ closing <= Levels + 1 BY ConstantFacts DEF CountersInv
  <1> SUFFICES ASSUME NEW k \in Level
               PROVE  /\ scheduled[k] \in Nat /\ scheduled[k] <= NRels /\ scheduled[k] \in Indices
                      /\ completed[k] \in Nat
                      /\ completed[k] = SizeMax <=> k < closing
                      /\ closing <= k => completed[k] \in Indices /\ completed[k] <= scheduled[k]
                      /\ scheduled[k] <= scheduled[0]
                      /\ scheduled[0] <= completed[k] + Size
    BY <1>1
  <1>2. \A l \in Level : /\ scheduled[l] \in Nat /\ scheduled[l] <= NRels /\ scheduled[l] \in Indices
                         /\ completed[l] \in Nat
                         /\ completed[l] \in Indices \/ completed[l] = SizeMax
    BY ConstantFacts DEF CountersInv, Indices
  <1>3. completed[k] = SizeMax <=> k < closing
    <2>1. closing <= k => completed[k] <= scheduled[k] BY DEF CountersInv
    <2>2. k < closing => completed[k] = SizeMax BY DEF CountersInv
    <2>3. k \in Nat /\ SizeMax > NRels + Size /\ NRels \in Nat /\ Size \in Nat /\ SizeMax \in Nat
      BY ConstantFacts
    <2>4. QED BY <1>1, <1>2, <2>1, <2>2, <2>3
  <1>4. closing <= k => completed[k] \in Indices /\ completed[k] <= scheduled[k]
    <2>1. closing <= k => completed[k] <= scheduled[k] BY DEF CountersInv
    <2>2. SizeMax > NRels + Size /\ NRels \in Nat /\ Size \in Nat /\ SizeMax \in Nat
      BY ConstantFacts
    <2>3. QED BY <1>2, <2>1, <2>2
  <1>5. scheduled[k] <= scheduled[0]
    <2>1. k = 0 \/ 0 < k BY ConstantFacts
    <2>2. 0 \in Level BY ConstantFacts
    <2>3. QED BY <1>2, <2>1, <2>2 DEF CountersInv
  <1>6. scheduled[0] <= completed[k] + Size
    <2>1. /\ 0 \in Level /\ Levels \in Level /\ k <= Levels /\ k \in Nat /\ Levels \in Nat
          /\ SizeMax > NRels + Size /\ NRels \in Nat /\ Size \in Nat /\ SizeMax \in Nat
      BY ConstantFacts
    <2>2. scheduled[0] <= completed[Levels] + Size BY DEF CountersInv
    <2>3. CASE k < closing
      <3>1. completed[k] = SizeMax BY <1>3, <2>3
      <3>2. QED BY <1>2, <2>1, <3>1
    <2>4. CASE ~(k < closing)
      <3>1. closing <= Levels BY <1>1, <2>1, <2>4
      <3>2. completed[Levels] <= scheduled[Levels] BY <2>1, <3>1 DEF CountersInv
      <3>3. k < Levels => scheduled[Levels] <= completed[k] BY <2>1 DEF CountersInv
      <3>4. CASE k = Levels BY <2>2, <3>4
      <3>5. CASE k < Levels BY <1>2, <2>1, <2>2, <3>2, <3>3, <3>5
      <3>6. QED BY <2>1, <3>4, <3>5
    <2>5. QED BY <2>3, <2>4
  <1>7. QED BY <1>2, <1>3, <1>4, <1>5, <1>6

LEMMA SameSlot ==
    ASSUME CountersInv, NEW i \in Indices, NEW j \in Indices,
           InFlight(i), InFlight(j), i % Size = j % Size
    PROVE  i = j
  <1>1. i \in Nat /\ j \in Nat /\ Size \in Nat /\ 0 \in Level BY ConstantFacts
  <1>2. scheduled[0] \in Nat BY <1>1, CounterFacts
  <1>3. i < j + Size /\ j < i + Size BY <1>1, <1>2 DEF InFlight
  <1>4. QED BY <1>1, <1>3, SlotUnique

(* The threads of a level that can still do something find it open.        *)
LEMMA LevelIsOpen ==
    ASSUME ThreadsInv, CountersInv, NEW t \in Threads, pc[t] # "end", t = Owner => ~Draining
    PROVE  closing <= LevelOfThread(t)
  <1>1. closing \in Nat /\ LevelOfThread(t) \in Nat BY CounterFacts, LevelFacts, ConstantFacts
  <1>2. CASE t = Owner
    <2>1. ~(closing > 0) BY <1>2 DEF ThreadsInv
    <2>2. QED BY <1>1, <2>1
  <1>3. CASE t # Owner
    <2>1. t \in Workers /\ LevelOfThread(t) = LevelOf[t] BY <1>3, ConstantFacts, LevelFacts
    <2>2. ~(LevelOf[t] < closing) BY <2>1 DEF ThreadsInv
    <2>3. QED BY <1>1, <2>1, <2>2
  <1>4. QED BY <1>2, <1>3

(* The relation a thread works on is in flight, and its level is open.     *)
LEMMA HeldFacts ==
    ASSUME CountersInv, HoldInv, ThreadsInv, NEW t \in Threads, Holding(t)
    PROVE  /\ closing <= LevelOfThread(t)
           /\ \E j \in Indices : Holds(t, j) /\ InFlight(j)
  <1>1. closing <= LevelOfThread(t) BY LevelIsOpen DEF Holding, Draining
  <1>2. PICK j \in Indices : Holds(t, j) BY DEF HoldInv
  <1> DEFINE k == LevelOfThread(t)
  <1>3. k \in Level /\ 0 \in Level BY LevelFacts, ConstantFacts
  <1>4. completed[k] <= j /\ j < scheduled[k] BY <1>2 DEF Holds
  <1> HIDE DEF k
  <1>5. /\ scheduled[k] <= scheduled[0] /\ scheduled[0] <= completed[k] + Size
        /\ scheduled[k] \in Nat /\ completed[k] \in Nat /\ scheduled[0] \in Nat
    BY <1>3, CounterFacts
  <1>6. InFlight(j) BY <1>4, <1>5, ConstantFacts DEF InFlight
  <1>7. QED BY <1>1, <1>2, <1>6

(* The owner works on the last index it has scheduled.                     *)
LEMMA OwnerHolds ==
    ASSUME CountersInv, OwnerInv, Holding(Owner), NEW j \in Indices, Holds(Owner, j)
    PROVE  j + 1 = scheduled[0]
  <1>1. completed[0] <= j /\ j < scheduled[0] BY LevelFacts DEF Holds
  <1>2. completed[0] + 1 = scheduled[0] BY DEF OwnerInv
  <1>3. scheduled[0] \in Nat /\ completed[0] \in Nat /\ j \in Nat BY CounterFacts, ConstantFacts
  <1>4. QED BY <1>1, <1>2, <1>3

(* A worker's relation was put in its slot, and its rank is its index.     *)
LEMMA HeldRelation ==
    ASSUME CountersInv, HoldInv, OwnerInv, RelsInv, ThreadsInv,
           NEW t \in Workers, Holding(t), NEW j \in Indices, Holds(t, j), InFlight(j)
    PROVE  /\ j < Put /\ Put <= j + Size
           /\ rels[slot[t]] \in Active /\ Rank(rels[slot[t]]) = j
  <1>1. /\ scheduled[0] \in Nat /\ j \in Nat /\ Size \in Nat /\ t \in Threads /\ t # Owner
        /\ Owner \in Threads
    BY CounterFacts, ConstantFacts
  <1>2. slot[t] = j % Size BY DEF Holds
  <1>3. j < Put /\ Put <= j + Size
    <2>1. CASE pc[Owner] = "work"
      <3>1. Holding(Owner) BY <2>1 DEF Holding
      <3>2. PICK i \in Indices : Holds(Owner, i) BY <1>1, <3>1 DEF HoldInv
      <3>3. i + 1 = scheduled[0] BY <3>1, <3>2, OwnerHolds
      <3>4. slot[Owner] = i % Size BY <3>2 DEF Holds
      <3>5. slot[Owner] # slot[t] BY <1>1, <3>1 DEF HoldInv
      <3>6. i # j BY <1>2, <3>4, <3>5
      <3>7. i \in Nat BY ConstantFacts
      <3>8. QED BY <1>1, <2>1, <3>3, <3>6, <3>7 DEF InFlight, Put
    <2>2. CASE pc[Owner] # "work"
      BY <1>1, <2>2 DEF InFlight, Put
    <2>3. QED BY <2>1, <2>2
  <1>4. QED BY <1>2, <1>3 DEF RelsInv

--------------------------------------------------------------------------------
(* A step of thread t to where, which may wake sleepers.                   *)
Places == WorkerPlaces \cup OwnerPlaces

Moves(t, where) ==
    /\ pc' \in [Threads -> Places] /\ pc'[t] = where
    /\ \A u \in Threads \ {t} : \/ pc'[u] = pc[u]
                                \/ pc[u] = "bored" /\ pc'[u] = "schedule"
                                \/ pc[u] = "drain_bored" /\ pc'[u] = "drain"

LEMMA ToMoves ==
    ASSUME ThreadsInv, NEW t \in Threads, NEW where \in Places, To(t, where)
    PROVE  Moves(t, where)
  <1>1. pc \in [Threads -> Places] BY DEF ThreadsInv, Places
  <1>2. QED BY <1>1 DEF To, Moves

LEMMA BroadcastMoves ==
    ASSUME ThreadsInv, NEW t \in Threads, NEW where \in Places, NEW k \in Level,
           Broadcast(t, where, k)
    PROVE  Moves(t, where)
  <1>1. pc \in [Threads -> Places] BY DEF ThreadsInv, Places
  <1>2. "schedule" \in Places /\ "drain" \in Places
    BY DEF Places, WorkerPlaces, OwnerPlaces
  <1>3. pc' = [u \in Threads |->
             IF u = t THEN where
             ELSE IF u \notin Bored(k) THEN pc[u]
             ELSE IF pc[u] = "bored" THEN "schedule" ELSE "drain"]
    BY DEF Broadcast
  <1>4. pc' \in [Threads -> Places] /\ pc'[t] = where BY <1>1, <1>2, <1>3
  <1>5. ASSUME NEW u \in Threads \ {t}
        PROVE  \/ pc'[u] = pc[u]
               \/ pc[u] = "bored" /\ pc'[u] = "schedule"
               \/ pc[u] = "drain_bored" /\ pc'[u] = "drain"
    <2>1. u \in Bored(k) => pc[u] = "bored" \/ pc[u] = "drain_bored" BY DEF Bored
    <2>2. QED BY <1>3, <2>1
  <1>6. QED BY <1>4, <1>5 DEF Moves

(* The other threads stay where they are, but for being woken.             *)
LEMMA OthersStay ==
    ASSUME NEW t \in Threads, NEW where \in Places, Moves(t, where), NEW u \in Threads \ {t}
    PROVE  /\ pc'[u] = "enter" <=> pc[u] = "enter"
           /\ pc'[u] = "sync" <=> pc[u] = "sync"
           /\ pc'[u] = "read" <=> pc[u] = "read"
           /\ pc'[u] = "work" <=> pc[u] = "work"
           /\ pc'[u] = "complete" <=> pc[u] = "complete"
           /\ pc'[u] = "leave" <=> pc[u] = "leave"
           /\ pc'[u] = "end" <=> pc[u] = "end"
           /\ pc'[u] \in {"schedule", "bored"} <=> pc[u] \in {"schedule", "bored"}
           /\ pc'[u] \in {"drain", "drain_bored"} <=> pc[u] \in {"drain", "drain_bored"}
           /\ pc'[u] \in Away <=> pc[u] \in Away
           /\ Holding(u)' <=> Holding(u)
  <1>1. \/ pc'[u] = pc[u]
        \/ pc[u] = "bored" /\ pc'[u] = "schedule"
        \/ pc[u] = "drain_bored" /\ pc'[u] = "drain"
    BY DEF Moves
  <1>2. QED BY <1>1 DEF Away, Holding

LEMMA ThreadsKept ==
    ASSUME CountersInv, ThreadsInv, NEW t \in Threads, NEW where \in Places,
           Moves(t, where), closing' = closing,
           \A u \in Workers : u # t /\ pc[u] \in {"leave", "end"} =>
                scheduled'[LevelOf[u]] = scheduled'[0],
           t = Owner => /\ where \in OwnerPlaces
                        /\ Draining => where \in {"drain", "drain_bored", "end"}
                        /\ where \notin {"enter", "sync"} => pc[Owner] \notin {"enter", "sync"},
           t # Owner => /\ where \in WorkerPlaces /\ where # "enter" /\ pc[t] # "end"
                        /\ where \in {"leave", "end"} =>
                             /\ LevelOf[t] <= closing /\ Draining
                             /\ scheduled'[LevelOf[t]] = scheduled'[0]
    PROVE  ThreadsInv'
  <1>1. pc' \in [Threads -> WorkerPlaces \cup OwnerPlaces] /\ pc'[t] = where
    BY DEF Moves, Places
  <1>2. /\ Owner \in Threads /\ Owner \notin Workers /\ Workers \subseteq Threads
        /\ \A u \in Threads : u # Owner => u \in Workers
    BY ConstantFacts
  <1>3. pc'[Owner] \in OwnerPlaces
    <2>1. CASE t = Owner BY <1>1, <2>1
    <2>2. CASE t # Owner
      <3>1. \/ pc'[Owner] = pc[Owner]
            \/ pc[Owner] = "bored" /\ pc'[Owner] = "schedule"
            \/ pc[Owner] = "drain_bored" /\ pc'[Owner] = "drain"
        BY <1>2, <2>2 DEF Moves
      <3>2. QED BY <3>1 DEF ThreadsInv, OwnerPlaces, WorkerPlaces
    <2>3. QED BY <2>1, <2>2
  <1>4. ASSUME NEW u \in Workers PROVE pc'[u] \in WorkerPlaces
    <2>1. CASE t = u BY <1>1, <1>2, <2>1
    <2>2. CASE t # u
      <3>1. \/ pc'[u] = pc[u]
            \/ pc[u] = "bored" /\ pc'[u] = "schedule"
            \/ pc[u] = "drain_bored" /\ pc'[u] = "drain"
        BY <1>2, <2>2 DEF Moves
      <3>2. pc[u] \in WorkerPlaces BY DEF ThreadsInv
      <3>3. QED BY <3>1, <3>2 DEF WorkerPlaces
    <2>3. QED BY <2>1, <2>2
  <1>5. Draining => Draining'
    <2>1. CASE t = Owner BY <1>1, <2>1 DEF Draining
    <2>2. CASE t # Owner
      <3>1. Owner \in Threads \ {t} BY <1>2, <2>2
      <3>2. QED BY <3>1, OthersStay DEF Draining
    <2>3. QED BY <2>1, <2>2
  <1>6. pc'[Owner] \notin {"enter", "sync"} => pc[Owner] \notin {"enter", "sync"}
    <2>1. CASE t = Owner BY <1>1, <2>1
    <2>2. CASE t # Owner
      <3>1. Owner \in Threads \ {t} BY <1>2, <2>2
      <3>2. QED BY <3>1, OthersStay
    <2>3. QED BY <2>1, <2>2
  <1>7. ASSUME NEW u \in Workers, pc'[Owner] \notin {"enter", "sync"} PROVE pc'[u] # "enter"
    <2>1. pc[u] # "enter" BY <1>6, <1>7 DEF ThreadsInv
    <2>2. CASE u = t BY <1>1, <1>2, <2>2
    <2>3. CASE u # t
      <3>1. u \in Threads \ {t} BY <1>2, <2>3
      <3>2. QED BY <2>1, <3>1, OthersStay
    <2>4. QED BY <2>2, <2>3
  <1>8. closing' > 0 => Draining' BY <1>5 DEF ThreadsInv
  <1>9. ASSUME NEW u \in Workers
        PROVE  /\ pc'[u] \in {"leave", "end"} =>
                    LevelOf[u] <= closing' /\ scheduled'[LevelOf[u]] = scheduled'[0] /\ Draining'
               /\ LevelOf[u] < closing' => pc'[u] = "end"
    <2>1. /\ pc[u] \in {"leave", "end"} => LevelOf[u] <= closing /\ Draining
          /\ LevelOf[u] < closing => pc[u] = "end"
      BY DEF ThreadsInv
    <2>2. CASE u = t BY <1>1, <1>2, <1>5, <2>1, <2>2
    <2>3. CASE u # t
      <3>1. u \in Threads \ {t} BY <1>2, <2>3
      <3>2. /\ pc'[u] = "leave" <=> pc[u] = "leave"
            /\ pc'[u] = "end" <=> pc[u] = "end"
        BY <3>1, OthersStay
      <3>3. QED BY <1>5, <2>1, <2>3, <3>2
    <2>4. QED BY <2>2, <2>3
  <1>10. QED BY <1>1, <1>3, <1>4, <1>7, <1>8, <1>9 DEF ThreadsInv

(* active[k] changes when the thread's step takes it in or out.            *)
LEMMA CountKept ==
    ASSUME CountInv, NEW t \in Threads, NEW where \in Places, Moves(t, where),
           pc[t] \in Away <=> where \in Away, active' = active
    PROVE  CountInv'
  <1>1. \A u \in Threads : pc'[u] \in Away <=> pc[u] \in Away
    <2>1. pc'[t] \in Away <=> pc[t] \in Away BY DEF Moves
    <2>2. \A u \in Threads \ {t} : pc'[u] \in Away <=> pc[u] \in Away BY OthersStay
    <2>3. QED BY <2>1, <2>2
  <1>2. ASSUME NEW k \in Level PROVE Counted(k)' = Counted(k) BY <1>1 DEF Counted
  <1>3. QED BY <1>2 DEF CountInv

LEMMA CountIn ==
    ASSUME CountInv, NEW t \in Threads, NEW where \in Places, Moves(t, where),
           pc[t] \in Away, where \notin Away,
           active' = [active EXCEPT ![LevelOfThread(t)] = @ + 1]
    PROVE  CountInv'
  <1>1. \A u \in Threads \ {t} : pc'[u] \in Away <=> pc[u] \in Away BY OthersStay
  <1>2. pc'[t] \notin Away BY DEF Moves
  <1>3. ASSUME NEW k \in Level PROVE active'[k] = Cardinality(Counted(k)')
    <2>1. active[k] = Cardinality(Counted(k)) BY DEF CountInv
    <2>2. CASE k = LevelOfThread(t)
      <3>1. Counted(k)' = Counted(k) \cup {t} /\ t \notin Counted(k)
        BY <1>1, <1>2, <2>2 DEF Counted
      <3>2. IsFiniteSet(Counted(k))
        <4>1. Counted(k) \subseteq Threads BY DEF Counted
        <4>2. QED BY <4>1, ThreadsFinite, FS_Subset
      <3>3. Cardinality(Counted(k)') = Cardinality(Counted(k)) + 1
        BY <3>1, <3>2, FS_AddElement
      <3>4. active'[k] = active[k] + 1 BY <2>2 DEF CountInv
      <3>5. QED BY <2>1, <3>3, <3>4
    <2>3. CASE k # LevelOfThread(t)
      <3>1. Counted(k)' = Counted(k) BY <1>1, <2>3 DEF Counted
      <3>2. active'[k] = active[k] BY <2>3 DEF CountInv
      <3>3. QED BY <2>1, <3>1, <3>2
    <2>4. QED BY <2>2, <2>3
  <1>4. active' = [k \in Level |-> active'[k]]
    <2>1. active = [k \in Level |-> Cardinality(Counted(k))] BY DEF CountInv
    <2>2. QED BY <2>1
  <1>5. QED BY <1>3, <1>4 DEF CountInv

LEMMA CountOut ==
    ASSUME CountInv, NEW t \in Threads, NEW where \in Places, Moves(t, where),
           pc[t] \notin Away, where \in Away,
           active' = [active EXCEPT ![LevelOfThread(t)] = @ - 1]
    PROVE  CountInv'
  <1>1. \A u \in Threads \ {t} : pc'[u] \in Away <=> pc[u] \in Away BY OthersStay
  <1>2. pc'[t] \in Away BY DEF Moves
  <1>3. ASSUME NEW k \in Level PROVE active'[k] = Cardinality(Counted(k)')
    <2>1. active[k] = Cardinality(Counted(k)) BY DEF CountInv
    <2>2. CASE k = LevelOfThread(t)
      <3>1. Counted(k)' = Counted(k) \ {t} /\ t \in Counted(k)
        BY <1>1, <1>2, <2>2 DEF Counted
      <3>2. IsFiniteSet(Counted(k))
        <4>1. Counted(k) \subseteq Threads BY DEF Counted
        <4>2. QED BY <4>1, ThreadsFinite, FS_Subset
      <3>3. Cardinality(Counted(k)') = Cardinality(Counted(k)) - 1
        BY <3>1, <3>2, FS_RemoveElement
      <3>4. active'[k] = active[k] - 1 BY <2>2 DEF CountInv
      <3>5. QED BY <2>1, <3>3, <3>4
    <2>3. CASE k # LevelOfThread(t)
      <3>1. Counted(k)' = Counted(k) BY <1>1, <2>3 DEF Counted
      <3>2. active'[k] = active[k] BY <2>3 DEF CountInv
      <3>3. QED BY <2>1, <3>1, <3>2
    <2>4. QED BY <2>2, <2>3
  <1>4. active' = [k \in Level |-> active'[k]]
    <2>1. active = [k \in Level |-> Cardinality(Counted(k))] BY DEF CountInv
    <2>2. QED BY <2>1
  <1>5. QED BY <1>3, <1>4 DEF CountInv

--------------------------------------------------------------------------------
(* Steps that leave the counters, the ring and its relations alone.        *)
SameWork == \A t \in Threads : /\ pc'[t] = "work" <=> pc[t] = "work"
                               /\ pc'[t] = "complete" <=> pc[t] = "complete"

LEMMA MovesSameWork ==
    ASSUME NEW t \in Threads, NEW where \in Places, Moves(t, where), ~Holding(t),
           where \notin {"work", "complete"}
    PROVE  SameWork
  <1>1. pc'[t] = where BY DEF Moves
  <1>2. \A u \in Threads \ {t} : /\ pc'[u] = "work" <=> pc[u] = "work"
                                 /\ pc'[u] = "complete" <=> pc[u] = "complete"
    BY OthersStay
  <1>3. QED BY <1>1, <1>2 DEF SameWork, Holding

LEMMA QuietRing ==
    ASSUME CountersInv, RingInv, HoldInv, \A t \in Threads : Holding(t)' <=> Holding(t),
           UNCHANGED <<completed, scheduled, x, slot, closing>>
    PROVE  CountersInv' /\ RingInv' /\ HoldInv'
  <1>1. CountersInv' BY DEF CountersInv
  <1>2. \A j \in Indices : InFlight(j)' <=> InFlight(j) BY DEF InFlight
  <1>3. RingInv' BY <1>2 DEF RingInv
  <1>4. HoldInv'
    <2>1. ASSUME NEW t \in Threads
          PROVE  IF Holding(t)' THEN \E j \in Indices : Holds(t, j)' ELSE slot'[t] = NoSlot
      <3>1. \A j \in Indices : Holds(t, j)' <=> Holds(t, j) BY DEF Holds
      <3>2. QED BY <3>1 DEF HoldInv
    <2>2. QED BY <2>1 DEF HoldInv
  <1>5. QED BY <1>1, <1>3, <1>4

LEMMA QuietStep ==
    ASSUME CountersInv, RingInv, HoldInv, RelsInv, SameWork,
           UNCHANGED <<completed, scheduled, x, rels, slot, closing>>
    PROVE  CountersInv' /\ RingInv' /\ HoldInv' /\ RelsInv'
  <1>1. \A t \in Threads : Holding(t)' <=> Holding(t) BY DEF SameWork, Holding
  <1>2. CountersInv' /\ RingInv' /\ HoldInv' BY <1>1, QuietRing
  <1>3. Put' = Put
    <2>1. pc'[Owner] = "work" <=> pc[Owner] = "work" BY ConstantFacts DEF SameWork
    <2>2. QED BY <2>1 DEF Put
  <1>4. RelsInv' BY <1>3 DEF RelsInv
  <1>5. QED BY <1>2, <1>4

LEMMA QuietHandled ==
    ASSUME HandledInv, SameWork, UNCHANGED <<scheduled, rels, slot, nrels, handled>>
    PROVE  HandledInv'
  <1>1. /\ pc'[Owner] = "complete" <=> pc[Owner] = "complete"
        /\ \A t \in Workers : pc'[t] = "work" <=> pc[t] = "work"
    BY ConstantFacts DEF SameWork
  <1>2. HandledByOwner' = HandledByOwner BY <1>1 DEF HandledByOwner
  <1>3. \A k \in Level : HandledBy(k)' = HandledBy(k) BY <1>1 DEF HandledBy
  <1>4. QED BY <1>2, <1>3 DEF HandledInv

LEMMA QuietOwner ==
    ASSUME OwnerInv, SameWork, UNCHANGED <<completed, scheduled, nrels, closing>>,
           pc'[Owner] \in {"schedule", "bored"} => nrels \in Active,
           Draining' => nrels = NRels
    PROVE  OwnerInv'
  <1>1. /\ pc'[Owner] = "work" <=> pc[Owner] = "work"
        /\ pc'[Owner] = "complete" <=> pc[Owner] = "complete"
        /\ Holding(Owner)' <=> Holding(Owner)
    BY ConstantFacts DEF SameWork, Holding
  <1>2. QED BY <1>1 DEF OwnerInv, Draining

(* All of the invariant for a step that only moves a thread.               *)
LEMMA QuietMove ==
    ASSUME FInv, NEW t \in Threads, NEW where \in Places, Moves(t, where), ~Holding(t),
           where \notin {"work", "complete"},
           UNCHANGED <<completed, scheduled, x, rels, slot, closing, nrels, handled>>,
           CountInv',
           t = Owner => /\ where \in OwnerPlaces
                        /\ Draining => where \in {"drain", "drain_bored", "end"}
                        /\ where \notin {"enter", "sync"} => pc[Owner] \notin {"enter", "sync"}
                        /\ where \in {"schedule", "bored"} => nrels \in Active
                        /\ where \in {"drain", "drain_bored", "end"} => nrels = NRels,
           t # Owner => /\ where \in WorkerPlaces /\ where # "enter" /\ pc[t] # "end"
                        /\ where \in {"leave", "end"} =>
                             /\ LevelOf[t] <= closing /\ Draining
                             /\ scheduled[LevelOf[t]] = scheduled[0]
    PROVE  FInv'
  <1>1. SameWork BY MovesSameWork
  <1>2. CountersInv' /\ RingInv' /\ HoldInv' /\ RelsInv' BY <1>1, QuietStep DEF FInv
  <1>3. HandledInv' BY <1>1, QuietHandled DEF FInv
  <1>4. ThreadsInv'
    <2>1. \A u \in Workers : pc[u] \in {"leave", "end"} =>
              scheduled'[LevelOf[u]] = scheduled'[0]
      BY DEF FInv, ThreadsInv
    <2>2. QED BY <2>1, ThreadsKept DEF FInv
  <1>5. OwnerInv'
    <2>1. CASE t = Owner
      <3>1. pc'[Owner] = where BY <2>1 DEF Moves
      <3>2. QED BY <1>1, <2>1, <3>1, QuietOwner DEF FInv, Draining
    <2>2. CASE t # Owner
      <3>1. Owner \in Threads \ {t} BY <2>2, ConstantFacts
      <3>2. /\ pc'[Owner] \in {"schedule", "bored"} <=> pc[Owner] \in {"schedule", "bored"}
            /\ Draining' <=> Draining
        BY <3>1, OthersStay DEF Draining
      <3>3. QED BY <1>1, <3>2, QuietOwner DEF FInv, OwnerInv
    <2>3. QED BY <2>1, <2>2
  <1>6. QED BY <1>2, <1>3, <1>4, <1>5 DEF FInv

--------------------------------------------------------------------------------
(* The invariant holds initially.                                          *)
LEMMA FInitInv == Init => FInv
  <1> SUFFICES ASSUME Init PROVE FInv OBVIOUS
  <1>1. /\ completed = [k \in Level |-> 0] /\ scheduled = [k \in Level |-> 0]
        /\ x = [i \in Slots |-> 0] /\ active = [k \in Level |-> 0]
        /\ rels = [i \in Slots |-> -1] /\ nrels = 0 /\ closing = 0
        /\ pc = [t \in Threads |-> "enter"] /\ slot = [t \in Threads |-> NoSlot]
        /\ handled = [k \in Level |-> {}]
    BY DEF Init
  <1>2. CountersInv
    <2>1. \A k \in Level : completed[k] = 0 /\ scheduled[k] = 0 /\ k \in Nat BY <1>1, ConstantFacts
    <2>2. scheduled \in [Level -> Indices] /\ completed \in [Level -> Indices \cup {SizeMax}]
      BY <1>1, ConstantFacts DEF Indices
    <2>3. closing \in 0..Levels + 1 BY <1>1, ConstantFacts
    <2>4. 0 \in Level /\ Levels \in Level /\ Size \in Nat BY ConstantFacts
    <2>5. QED BY <1>1, <2>1, <2>2, <2>3, <2>4 DEF CountersInv
  <1>3. RingInv
    <2>1. x \in [Slots -> -1..Levels] BY <1>1, ConstantFacts
    <2>2. \A j \in Indices : ~InFlight(j) BY <1>1, ConstantFacts DEF InFlight
    <2>3. QED BY <2>1, <2>2 DEF RingInv
  <1>4. HoldInv BY <1>1 DEF HoldInv, Holding
  <1>5. ThreadsInv
    <2>1. pc \in [Threads -> WorkerPlaces \cup OwnerPlaces] BY <1>1 DEF WorkerPlaces
    <2>2. \A t \in Threads : pc[t] = "enter" BY <1>1
    <2>3. pc[Owner] \in OwnerPlaces BY <2>2, ConstantFacts DEF OwnerPlaces, WorkerPlaces
    <2>4. \A t \in Workers : pc[t] \in WorkerPlaces BY <2>2, ConstantFacts DEF WorkerPlaces
    <2>5. \A t \in Workers : LevelOf[t] \in Nat /\ LevelOf[t] >= 1 BY LevelFacts, ConstantFacts
    <2>6. pc[Owner] = "enter" /\ \A t \in Workers : pc[t] = "enter" BY <2>2, ConstantFacts
    <2>7. QED BY <1>1, <2>1, <2>3, <2>4, <2>5, <2>6 DEF ThreadsInv
  <1>6. CountInv
    <2>1. \A k \in Level : Counted(k) = {} BY <1>1 DEF Counted, Away
    <2>2. Cardinality({}) = 0 BY FS_EmptySet
    <2>3. QED BY <1>1, <2>1, <2>2 DEF CountInv
  <1>7. OwnerInv
    <2>1. Rank(0) = 0
      <3>1. 0 \in 0..NRels BY ConstantFacts
      <3>2. Rank(0) \in Nat /\ Rank(0) <= 0 BY <3>1, RankType
      <3>3. QED BY <3>2
    <2>2. pc[Owner] = "enter" /\ completed[0] = 0 /\ scheduled[0] = 0 BY <1>1, ConstantFacts
    <2>3. nrels \in 0..NRels BY <1>1, ConstantFacts
    <2>4. QED BY <1>1, <2>1, <2>2, <2>3 DEF OwnerInv, Draining, Holding
  <1>8. RelsInv
    <2>1. Put = 0 BY <1>1, ConstantFacts DEF Put
    <2>2. rels \in [Slots -> -1..NRels - 1] BY <1>1, ConstantFacts
    <2>3. \A j \in Indices : ~(j < Put) BY <2>1, ConstantFacts
    <2>4. \A s \in Slots : rels[s] = -1 BY <1>1
    <2>5. QED BY <2>2, <2>3, <2>4 DEF RelsInv
  <1>9. HandledInv
    <2>1. HandledByOwner = {}
      <3>1. \A a \in Active : ~(a < nrels) BY <1>1, ActiveFacts
      <3>2. pc[Owner] = "enter" BY <1>1, ConstantFacts
      <3>3. QED BY <3>1, <3>2 DEF HandledByOwner
    <2>2. \A k \in Level : HandledBy(k) = {}
      <3>1. \A a \in Active : a \in 0..NRels BY ActiveFacts
      <3>2. \A a \in Active : Rank(a) \in Nat BY <3>1, RankType
      <3>3. \A k \in Level : scheduled[k] = 0 BY <1>1
      <3>4. \A k \in Level, a \in Active : ~(Rank(a) < scheduled[k]) BY <3>2, <3>3
      <3>5. QED BY <3>4 DEF HandledBy
    <2>3. QED BY <1>1, <2>1, <2>2 DEF HandledInv
  <1>10. QED BY <1>2, <1>3, <1>4, <1>5, <1>6, <1>7, <1>8, <1>9 DEF FInv

--------------------------------------------------------------------------------
(* The steps that only move threads.                                       *)
LEMMA EnterInv ==
    ASSUME FInv, NEW t \in Threads, Enter(t)
    PROVE  FInv'
  <1>1. "sync" \in Places BY DEF Places, WorkerPlaces
  <1>2. Moves(t, "sync") BY <1>1, ToMoves DEF FInv, Enter
  <1>3. CountInv'
    <2>1. pc[t] \in Away /\ "sync" \notin Away BY DEF Enter, Away
    <2>2. active' = [active EXCEPT ![LevelOfThread(t)] = @ + 1] BY DEF Enter
    <2>3. QED BY <1>1, <1>2, <2>1, <2>2, CountIn DEF FInv
  <1>4. pc[t] = "enter" /\ ~Holding(t) BY DEF Enter, Holding
  <1>5. UNCHANGED <<completed, scheduled, x, rels, slot, closing, nrels, handled>> BY DEF Enter
  <1>6. t = Owner => ~Draining BY <1>4 DEF Draining
  <1>7. "sync" \in OwnerPlaces /\ "sync" \in WorkerPlaces BY DEF OwnerPlaces, WorkerPlaces
  <1>8. QED BY <1>1, <1>2, <1>3, <1>4, <1>5, <1>6, <1>7, QuietMove

LEMMA SyncPointInv ==
    ASSUME FInv, SyncPoint
    PROVE  FInv'
  <1>1. /\ \A t \in Threads : pc[t] = "sync"
        /\ pc' = [t \in Threads |-> IF t = Owner THEN "read" ELSE "schedule"]
        /\ UNCHANGED <<completed, scheduled, x, active, rels, nrels, closing, slot, handled>>
    BY DEF SyncPoint, bufVars
  <1>2. SameWork BY <1>1 DEF SameWork
  <1>3. CountersInv' /\ RingInv' /\ HoldInv' /\ RelsInv' BY <1>1, <1>2, QuietStep DEF FInv
  <1>4. HandledInv' BY <1>1, <1>2, QuietHandled DEF FInv
  <1>5. pc'[Owner] = "read" /\ \A t \in Workers : pc'[t] = "schedule" BY <1>1, ConstantFacts
  <1>6. OwnerInv' BY <1>1, <1>2, <1>5, QuietOwner DEF FInv, Draining
  <1>7. CountInv'
    <2>1. \A k \in Level : Counted(k)' = Counted(k) BY <1>1 DEF Counted, Away
    <2>2. QED BY <1>1, <2>1 DEF FInv, CountInv
  <1>8. ThreadsInv'
    <2>1. pc' \in [Threads -> WorkerPlaces \cup OwnerPlaces]
      BY <1>1 DEF WorkerPlaces, OwnerPlaces
    <2>2. pc'[Owner] \in OwnerPlaces BY <1>5 DEF OwnerPlaces
    <2>3. \A t \in Workers : pc'[t] \in WorkerPlaces BY <1>5 DEF WorkerPlaces
    <2>4. ~Draining /\ ~(closing > 0)
      <3>1. pc[Owner] = "sync" BY <1>1, ConstantFacts
      <3>2. ~Draining BY <3>1 DEF Draining
      <3>3. QED BY <3>2 DEF FInv, ThreadsInv
    <2>5. closing \in Nat BY CounterFacts DEF FInv
    <2>6. \A t \in Workers : ~(LevelOf[t] < closing)
      <3>1. \A t \in Workers : LevelOf[t] \in Nat BY LevelFacts, ConstantFacts
      <3>2. QED BY <2>4, <2>5, <3>1
    <2>7. QED BY <1>1, <1>5, <2>1, <2>2, <2>3, <2>4, <2>6 DEF ThreadsInv
  <1>9. QED BY <1>3, <1>4, <1>6, <1>7, <1>8 DEF FInv

(* A relation that is not active changes no rank.                          *)
LEMMA ReadRelationInv ==
    ASSUME FInv, ReadRelation
    PROVE  FInv'
  <1>1. /\ pc[Owner] = "read" /\ nrels < NRels /\ Owner \in Threads
        /\ UNCHANGED <<completed, scheduled, x, active, rels, closing, slot, handled>>
    BY ConstantFacts DEF ReadRelation, bufVars
  <1>2. CASE nrels \in Active
    <2>1. To(Owner, "schedule") /\ nrels' = nrels BY <1>2 DEF ReadRelation
    <2>2. "schedule" \in Places /\ "schedule" \in OwnerPlaces
      BY DEF Places, OwnerPlaces, WorkerPlaces
    <2>3. Moves(Owner, "schedule") BY <1>1, <2>1, <2>2, ToMoves DEF FInv
    <2>4. CountInv' BY <1>1, <2>2, <2>3, CountKept DEF FInv, Away
    <2>5. ~Holding(Owner) /\ ~Draining BY <1>1 DEF Holding, Draining
    <2>6. QED BY <1>1, <1>2, <2>1, <2>2, <2>3, <2>4, <2>5, QuietMove
  <1>3. CASE nrels \notin Active
    <2>1. nrels' = nrels + 1 /\ pc' = pc BY <1>3 DEF ReadRelation
    <2>2. SameWork BY <2>1 DEF SameWork
    <2>3. CountersInv' /\ RingInv' /\ HoldInv' /\ RelsInv' BY <1>1, <2>2, QuietStep DEF FInv
    <2>4. CountInv' BY <1>1, <2>1 DEF FInv, CountInv, Counted
    <2>5. ThreadsInv' BY <1>1, <2>1 DEF FInv, ThreadsInv, Draining
    <2>6. nrels \in 0..NRels - 1 /\ NRels \in Nat
      <3>1. nrels \in 0..NRels BY DEF FInv, OwnerInv
      <3>2. QED BY <1>1, <3>1, ConstantFacts
    <2>7. OwnerInv'
      <3>1. Rank(nrels + 1) = Rank(nrels) BY <1>3, <2>6, RankStep
      <3>2. nrels' \in 0..NRels BY <2>1, <2>6
      <3>3. ~Holding(Owner) /\ ~Holding(Owner)' /\ ~Draining' BY <1>1, <2>1 DEF Holding, Draining
      <3>4. Rank(nrels)' = Rank(nrels + 1) BY <2>1 DEF Rank
      <3>5. QED BY <1>1, <2>1, <3>1, <3>2, <3>3, <3>4 DEF FInv, OwnerInv
    <2>8. HandledInv'
      <3>1. \A a \in Active : a < nrels + 1 <=> a < nrels BY <1>3, <2>6, ActiveFacts
      <3>2. HandledByOwner' = HandledByOwner BY <1>1, <2>1, <3>1 DEF HandledByOwner
      <3>3. \A k \in Level : HandledBy(k)' = HandledBy(k) BY <1>1, <2>1 DEF HandledBy
      <3>4. QED BY <1>1, <3>2, <3>3 DEF FInv, HandledInv
    <2>9. QED BY <2>3, <2>4, <2>5, <2>7, <2>8 DEF FInv
  <1>4. QED BY <1>2, <1>3

LEMMA StartDrainInv ==
    ASSUME FInv, StartDrain
    PROVE  FInv'
  <1>1. /\ pc[Owner] = "read" /\ nrels = NRels /\ Owner \in Threads
        /\ To(Owner, "drain") /\ LevelOfThread(Owner) = 0
        /\ active' = [active EXCEPT ![0] = @ - 1]
        /\ UNCHANGED <<completed, scheduled, x, rels, slot, closing, nrels, handled>>
    BY ConstantFacts, LevelFacts DEF StartDrain
  <1>2. "drain" \in Places /\ "drain" \in OwnerPlaces BY DEF Places, OwnerPlaces
  <1>3. Moves(Owner, "drain") BY <1>1, <1>2, ToMoves DEF FInv
  <1>4. CountInv'
    <2>1. pc[Owner] \notin Away /\ "drain" \in Away BY <1>1 DEF Away
    <2>2. active' = [active EXCEPT ![LevelOfThread(Owner)] = @ - 1] BY <1>1
    <2>3. QED BY <1>1, <1>2, <1>3, <2>1, <2>2, CountOut DEF FInv
  <1>5. ~Holding(Owner) BY <1>1 DEF Holding
  <1>6. QED BY <1>1, <1>2, <1>3, <1>4, <1>5, QuietMove

LEMMA EndDrainInv ==
    ASSUME FInv, EndDrain
    PROVE  FInv'
  <1>1. /\ pc[Owner] = "drain" /\ Owner \in Threads /\ To(Owner, "end")
        /\ UNCHANGED <<completed, scheduled, x, active, rels, slot, closing, nrels, handled>>
    BY ConstantFacts DEF EndDrain, bufVars
  <1>2. "end" \in Places /\ "end" \in OwnerPlaces BY DEF Places, OwnerPlaces, WorkerPlaces
  <1>3. Moves(Owner, "end") BY <1>1, <1>2, ToMoves DEF FInv
  <1>4. CountInv' BY <1>1, <1>2, <1>3, CountKept DEF FInv, Away
  <1>5. ~Holding(Owner) /\ nrels = NRels BY <1>1 DEF Holding, FInv, OwnerInv, Draining
  <1>6. QED BY <1>1, <1>2, <1>3, <1>4, <1>5, QuietMove

LEMMA SpuriousWakeupInv ==
    ASSUME FInv, NEW t \in Threads, SpuriousWakeup(t)
    PROVE  FInv'
  <1>1. UNCHANGED <<completed, scheduled, x, active, rels, slot, closing, nrels, handled>>
    BY DEF SpuriousWakeup, bufVars
  <1>2. ~Holding(t) BY DEF SpuriousWakeup, Holding
  <1>3. CASE pc[t] = "bored"
    <2>1. To(t, "schedule") BY <1>3 DEF SpuriousWakeup
    <2>2. "schedule" \in Places /\ "schedule" \in OwnerPlaces /\ "schedule" \in WorkerPlaces
      BY DEF Places, OwnerPlaces, WorkerPlaces
    <2>3. Moves(t, "schedule") BY <2>1, <2>2, ToMoves DEF FInv
    <2>4. CountInv' BY <1>1, <1>3, <2>2, <2>3, CountKept DEF FInv, Away
    <2>5. t = Owner => nrels \in Active /\ ~Draining BY <1>3 DEF FInv, OwnerInv, Draining
    <2>6. QED BY <1>1, <1>2, <1>3, <2>2, <2>3, <2>4, <2>5, QuietMove
  <1>4. CASE pc[t] = "drain_bored"
    <2>1. To(t, "drain") BY <1>4 DEF SpuriousWakeup
    <2>2. "drain" \in Places /\ "drain" \in OwnerPlaces BY DEF Places, OwnerPlaces
    <2>3. Moves(t, "drain") BY <2>1, <2>2, ToMoves DEF FInv
    <2>4. CountInv' BY <1>1, <1>4, <2>2, <2>3, CountKept DEF FInv, Away
    <2>5. t = Owner
      <3>1. t \in Workers => pc[t] \in WorkerPlaces BY DEF FInv, ThreadsInv
      <3>2. QED BY <1>4, <3>1, ConstantFacts DEF WorkerPlaces
    <2>6. nrels = NRels /\ pc[Owner] \notin {"enter", "sync"}
      BY <1>4, <2>5 DEF FInv, OwnerInv, Draining
    <2>7. QED BY <1>1, <1>2, <2>2, <2>3, <2>4, <2>5, <2>6, QuietMove
  <1>5. QED BY <1>3, <1>4 DEF SpuriousWakeup

--------------------------------------------------------------------------------
(* schedule() with nothing to take.                                        *)
LEMMA ScheduleWaits ==
    ASSUME FInv, NEW t \in Threads, pc[t] = "schedule", To(t, "bored"),
           UNCHANGED <<completed, scheduled, x, active, rels, slot, closing, nrels, handled>>
    PROVE  FInv'
  <1>1. "bored" \in Places /\ "bored" \in OwnerPlaces /\ "bored" \in WorkerPlaces
    BY DEF Places, OwnerPlaces, WorkerPlaces
  <1>2. Moves(t, "bored") BY <1>1, ToMoves DEF FInv
  <1>3. CountInv' BY <1>1, <1>2, CountKept DEF FInv, Away
  <1>4. t = Owner => nrels \in Active /\ ~Draining BY DEF FInv, OwnerInv, Draining
  <1>5. ~Holding(t) BY DEF Holding
  <1>6. QED BY <1>1, <1>2, <1>3, <1>4, <1>5, QuietMove

LEMMA ScheduleLeaves ==
    ASSUME FInv, NEW t \in Threads, pc[t] = "schedule", To(t, "leave"),
           AllTaken(LevelOfThread(t)),
           UNCHANGED <<completed, scheduled, x, active, rels, slot, closing, nrels, handled>>
    PROVE  FInv'
  <1>1. "leave" \in Places /\ "leave" \in WorkerPlaces BY DEF Places, WorkerPlaces
  <1>2. Moves(t, "leave") BY <1>1, ToMoves DEF FInv
  <1>3. CountInv' BY <1>1, <1>2, CountKept DEF FInv, Away
  <1>4. CountersInv /\ ThreadsInv BY DEF FInv
  <1>5. ~Holding(t) /\ (t = Owner => ~Draining) BY DEF Holding, Draining
  <1>6. t # Owner
    <2> SUFFICES ASSUME t = Owner PROVE FALSE OBVIOUS
    <2>1. completed[Levels] = SizeMax BY LevelFacts DEF AllTaken
    <2>2. Levels < closing BY <1>4, <2>1, CounterFacts, ConstantFacts
    <2>3. closing > 0 BY <1>4, <2>2, CounterFacts, ConstantFacts
    <2>4. QED BY <1>4, <1>5, <2>3 DEF ThreadsInv
  <1>7. /\ t \in Workers /\ LevelOfThread(t) = LevelOf[t] /\ LevelOf[t] \in Level
        /\ LevelOf[t] # 0 /\ Prev(LevelOf[t]) = LevelOf[t] - 1 /\ LevelOf[t] - 1 \in Level
        /\ LevelOf[t] \in Nat
    BY <1>6, LevelFacts, ConstantFacts
  <1>8. /\ completed[LevelOf[t] - 1] = SizeMax
        /\ scheduled[LevelOf[t] - 1] = scheduled[LevelOf[t]]
    BY <1>7 DEF AllTaken
  <1>9. LevelOf[t] - 1 < closing BY <1>4, <1>7, <1>8, CounterFacts
  <1>10. scheduled[LevelOf[t]] = scheduled[0] BY <1>4, <1>7, <1>8, <1>9 DEF CountersInv
  <1>11. closing \in Nat BY <1>4, CounterFacts
  <1>12. LevelOf[t] <= closing /\ closing > 0 BY <1>7, <1>9, <1>11
  <1>13. Draining BY <1>4, <1>12 DEF ThreadsInv
  <1>14. QED BY <1>1, <1>2, <1>3, <1>5, <1>6, <1>10, <1>12, <1>13, QuietMove

(* The next index of an open level: the level before has completed it, and *)
(* nobody at this level has touched it.                                    *)
LEMMA NextIndex ==
    ASSUME FInv, NEW t \in Workers, pc[t] = "schedule",
           ~NothingToSchedule(LevelOf[t]), ~AllTaken(LevelOf[t])
    PROVE  /\ closing <= LevelOf[t]
           /\ \A l \in Level : l < LevelOf[t] =>
                /\ scheduled[LevelOf[t]] + 1 <= completed[l]
                /\ scheduled[LevelOf[t]] + 1 <= scheduled[l]
           /\ scheduled[LevelOf[t]] \in Indices /\ InFlight(scheduled[LevelOf[t]])
           /\ x[scheduled[LevelOf[t]] % Size] = LevelOf[t] - 1
           /\ rels[scheduled[LevelOf[t]] % Size] \in Active
           /\ Rank(rels[scheduled[LevelOf[t]] % Size]) = scheduled[LevelOf[t]]
  <1>1. CountersInv /\ RingInv /\ HoldInv /\ ThreadsInv /\ OwnerInv /\ RelsInv BY DEF FInv
  <1>2. PICK k \in Level : k = LevelOf[t] BY LevelFacts
  <1>3. PICK p \in Level : p = k - 1 BY <1>2, LevelFacts
  <1>4. /\ k \in Nat /\ p \in Nat /\ k >= 1 /\ p < k /\ Prev(k) = p /\ k # 0 /\ 0 \in Level
        /\ t \in Threads /\ LevelOfThread(t) = k
    BY <1>2, <1>3, LevelFacts, ConstantFacts
  <1>5. closing <= k
    <2>1. t # Owner BY ConstantFacts
    <2>2. QED BY <1>1, <1>4, <2>1, LevelIsOpen
  <1>6. PICK s \in Indices : s = scheduled[k] BY <1>1, CounterFacts
  <1>7. /\ s \in Nat /\ closing \in Nat /\ NRels \in Nat /\ SizeMax \in Nat /\ Size \in Nat
        /\ SizeMax > NRels + Size /\ s <= NRels
        /\ \A l \in Level : scheduled[l] \in Nat /\ completed[l] \in Nat /\ l \in Nat
    BY <1>1, CounterFacts, ConstantFacts DEF Indices
  <1>8. s + 1 <= completed[p]
    <2>1. s <= completed[p] BY <1>1, <1>4, <1>6 DEF CountersInv
    <2>2. s # completed[p] BY <1>2, <1>4, <1>6, <1>7 DEF NothingToSchedule
    <2>3. QED BY <1>7, <2>1, <2>2
  <1>9. s + 1 <= scheduled[p]
    <2>1. s <= scheduled[p] BY <1>1, <1>4, <1>6 DEF CountersInv
    <2>2. CASE p < closing
      <3>1. completed[p] = SizeMax BY <1>1, <2>2 DEF CountersInv
      <3>2. scheduled[p] # s BY <1>2, <1>4, <1>6, <3>1 DEF AllTaken
      <3>3. QED BY <1>7, <2>1, <3>2
    <2>3. CASE ~(p < closing)
      <3>1. closing <= p BY <1>4, <1>7, <2>3
      <3>2. completed[p] <= scheduled[p] BY <1>1, <3>1 DEF CountersInv
      <3>3. QED BY <1>7, <1>8, <3>2
    <2>4. QED BY <2>2, <2>3
  <1>10. ASSUME NEW l \in Level, l < k PROVE s + 1 <= completed[l] /\ s + 1 <= scheduled[l]
    <2>1. l = p \/ l < p BY <1>3, <1>4, <1>7, <1>10
    <2>2. CASE l = p BY <1>8, <1>9, <2>2
    <2>3. CASE l < p
      <3>1. scheduled[p] <= completed[l] /\ scheduled[p] <= scheduled[l]
        BY <1>1, <2>3 DEF CountersInv
      <3>2. QED BY <1>7, <1>9, <3>1
    <2>4. QED BY <2>1, <2>2, <2>3
  <1>11. InFlight(s)
    <2>1. s + 1 <= scheduled[0] BY <1>4, <1>10
    <2>2. scheduled[0] <= completed[k] + Size /\ completed[k] <= s
      BY <1>1, <1>5, <1>6, CounterFacts
    <2>3. QED BY <1>4, <1>7, <2>1, <2>2 DEF InFlight
  <1>12. x[s % Size] = k - 1
    <2>1. s < completed[p] /\ scheduled[k] <= s BY <1>6, <1>7, <1>8
    <2>2. x[s % Size] >= p /\ x[s % Size] < k BY <1>1, <1>11, <2>1 DEF RingInv
    <2>3. x[s % Size] \in Int
      <3>1. s % Size \in Slots /\ Levels \in Nat BY ConstantFacts
      <3>2. x[s % Size] \in -1..Levels BY <1>1, <3>1 DEF RingInv
      <3>3. QED BY <3>1, <3>2
    <2>4. QED BY <1>3, <1>4, <2>2, <2>3
  <1>13. s < Put /\ Put <= s + Size
    <2>1. CASE pc[Owner] = "work"
      <3>1. Holding(Owner) BY <2>1 DEF Holding
      <3>2. PICK i \in Indices : Holds(Owner, i) BY <1>1, <3>1, ConstantFacts DEF HoldInv
      <3>3. i + 1 = scheduled[0] /\ i \in Nat BY <1>1, <3>1, <3>2, OwnerHolds, ConstantFacts
      <3>4. x[i % Size] = 0 - 1 BY <3>2, LevelFacts DEF Holds
      <3>5. i # s BY <1>4, <1>12, <3>4
      <3>6. QED BY <1>4, <1>7, <1>11, <2>1, <3>3, <3>5 DEF InFlight, Put
    <2>2. CASE pc[Owner] # "work" BY <1>11, <2>2 DEF InFlight, Put
    <2>3. QED BY <2>1, <2>2
  <1>14. rels[s % Size] \in Active /\ Rank(rels[s % Size]) = s BY <1>1, <1>13 DEF RelsInv
  <1>15. QED BY <1>2, <1>5, <1>6, <1>10, <1>11, <1>12, <1>14

(* A worker takes the next index of its level.                             *)
LEMMA WorkerTakes ==
    ASSUME FInv, NEW t \in Workers, pc[t] = "schedule",
           ~NothingToSchedule(LevelOf[t]), ~AllTaken(LevelOf[t]),
           scheduled' = [scheduled EXCEPT ![LevelOf[t]] = scheduled[LevelOf[t]] + 1],
           slot' = [slot EXCEPT ![t] = scheduled[LevelOf[t]] % Size],
           To(t, "work"),
           UNCHANGED <<completed, x, active, rels, nrels, closing, handled>>
    PROVE  FInv'
  <1>1. /\ CountersInv /\ RingInv /\ HoldInv /\ ThreadsInv /\ CountInv /\ OwnerInv
        /\ RelsInv /\ HandledInv
    BY DEF FInv
  <1>2. PICK k \in Level : k = LevelOf[t] BY LevelFacts
  <1>3. PICK s \in Indices : s = scheduled[k] BY <1>1, CounterFacts
  <1>4. /\ closing <= k
        /\ \A l \in Level : l < k => s + 1 <= completed[l] /\ s + 1 <= scheduled[l]
        /\ InFlight(s) /\ x[s % Size] = k - 1
        /\ rels[s % Size] \in Active /\ Rank(rels[s % Size]) = s
    BY <1>2, <1>3, NextIndex
  <1>5. /\ k \in Nat /\ k >= 1 /\ k # 0 /\ 0 \in Level /\ Levels \in Level
        /\ t \in Threads /\ LevelOfThread(t) = k /\ t # Owner /\ Owner \in Threads
        /\ s % Size \in Slots /\ s \in Nat
    BY <1>2, LevelFacts, ConstantFacts
  <1>6. /\ closing \in Nat /\ NRels \in Nat /\ Size \in Nat
        /\ \A l \in Level : /\ scheduled[l] \in Nat /\ completed[l] \in Nat /\ l \in Nat
                            /\ scheduled[l] <= NRels
    BY <1>1, CounterFacts, ConstantFacts
  <1>7. \A l \in Level : scheduled'[l] = IF l = k THEN s + 1 ELSE scheduled[l]
    BY <1>1, <1>2, <1>3 DEF CountersInv
  <1>8. scheduled'[0] = scheduled[0] /\ scheduled'[k] = s + 1 /\ s + 1 <= scheduled[0]
    BY <1>4, <1>5, <1>7
  <1>9. CountersInv'
    <2>1. s + 1 \in Indices BY <1>5, <1>6, <1>8 DEF Indices
    <2>2. scheduled' \in [Level -> Indices] BY <1>1, <1>2, <1>3, <2>1 DEF CountersInv
    <2>3. \A l \in Level : l < closing => completed[l] = SizeMax /\ scheduled'[l] = scheduled'[0]
      BY <1>1, <1>4, <1>6, <1>7, <1>8 DEF CountersInv
    <2>4. \A l \in Level : closing <= l => completed[l] <= scheduled'[l]
      <3>1. \A l \in Level : closing <= l => completed[l] <= scheduled[l] BY <1>1 DEF CountersInv
      <3>2. QED BY <1>3, <1>6, <1>7, <3>1
    <2>5. ASSUME NEW l \in Level, NEW m \in Level, l < m
          PROVE  scheduled'[m] <= completed[l] /\ scheduled'[m] <= scheduled'[l]
      <3>1. scheduled[m] <= completed[l] /\ scheduled[m] <= scheduled[l]
        BY <1>1, <2>5 DEF CountersInv
      <3>2. CASE m = k
        <4>1. s + 1 <= completed[l] /\ s + 1 <= scheduled[l] BY <1>4, <2>5, <3>2
        <4>2. l # k BY <1>6, <2>5, <3>2
        <4>3. QED BY <1>7, <3>2, <4>1, <4>2
      <3>3. CASE m # k
        <4>1. scheduled'[m] = scheduled[m] BY <1>7, <3>3
        <4>2. scheduled[l] <= scheduled'[l] BY <1>3, <1>6, <1>7
        <4>3. scheduled'[l] \in Nat
          <5>1. CASE l = k BY <1>5, <1>7, <5>1
          <5>2. CASE l # k BY <1>6, <1>7, <5>2
          <5>3. QED BY <5>1, <5>2
        <4>4. QED BY <1>6, <3>1, <4>1, <4>2, <4>3
      <3>4. QED BY <3>2, <3>3
    <2>6. scheduled'[0] <= completed[Levels] + Size BY <1>1, <1>8 DEF CountersInv
    <2>7. QED BY <1>1, <2>2, <2>3, <2>4, <2>5, <2>6 DEF CountersInv
  <1>10. Moves(t, "work") /\ "work" \in Places
    <2>1. "work" \in Places BY DEF Places, WorkerPlaces
    <2>2. QED BY <1>1, <1>5, <2>1, ToMoves
  <1>11. /\ pc'[t] = "work" /\ Holding(t)' /\ ~Holding(t)
         /\ \A u \in Threads \ {t} : pc'[u] = pc[u] /\ slot'[u] = slot[u]
         /\ slot'[t] = s % Size
    <2>1. pc \in [Threads -> Places] /\ slot \in [Threads -> Slots \cup {NoSlot}]
      BY <1>1 DEF ThreadsInv, HoldInv, Places
    <2>2. pc'[t] = "work" BY <1>5, <2>1 DEF To
    <2>3. QED BY <1>2, <1>3, <1>5, <2>1, <2>2 DEF To, Holding
  <1>12. \A u \in Threads \ {t} : Holding(u)' <=> Holding(u) BY <1>11 DEF Holding
  <1>13. \A j \in Indices : InFlight(j)' <=> InFlight(j) BY <1>8 DEF InFlight
  <1>14. RingInv'
    <2>1. ASSUME NEW j \in Indices, NEW l \in Level, InFlight(j)
          PROVE  /\ j < completed[l] => x[j % Size] >= l
                 /\ scheduled'[l] <= j => x[j % Size] < l
                 /\ j < scheduled'[l] /\ x[j % Size] = l - 1 =>
                      \E u \in Threads : LevelOfThread(u) = l /\ Holding(u)' /\ slot'[u] = j % Size
      <3>1. /\ j < completed[l] => x[j % Size] >= l
            /\ scheduled[l] <= j => x[j % Size] < l
            /\ j < scheduled[l] /\ x[j % Size] = l - 1 =>
                 \E u \in Threads : LevelOfThread(u) = l /\ Holding(u) /\ slot[u] = j % Size
        BY <1>1, <2>1 DEF RingInv
      <3>2. j \in Nat BY ConstantFacts
      <3>3. scheduled'[l] <= j => x[j % Size] < l
        BY <1>3, <1>6, <1>7, <3>1, <3>2
      <3>4. ASSUME j < scheduled'[l], x[j % Size] = l - 1
            PROVE  \E u \in Threads : LevelOfThread(u) = l /\ Holding(u)' /\ slot'[u] = j % Size
        <4>1. CASE j < scheduled[l]
          <5>1. PICK u \in Threads : LevelOfThread(u) = l /\ Holding(u) /\ slot[u] = j % Size
            BY <3>1, <3>4, <4>1
          <5>2. u # t BY <1>11, <5>1
          <5>3. QED BY <1>11, <1>12, <5>1, <5>2
        <4>2. CASE ~(j < scheduled[l])
          <5>1. l = k /\ j = s BY <1>3, <1>5, <1>6, <1>7, <3>2, <3>4, <4>2
          <5>2. QED BY <1>5, <1>11, <5>1
        <4>3. QED BY <4>1, <4>2
      <3>5. QED BY <3>1, <3>3, <3>4
    <2>2. QED BY <1>1, <1>13, <2>1 DEF RingInv
  <1>15. HoldInv'
    <2>1. slot' \in [Threads -> Slots \cup {NoSlot}]
      BY <1>1, <1>2, <1>3, <1>5 DEF HoldInv
    <2>2. ASSUME NEW u \in Threads
          PROVE  IF Holding(u)' THEN \E j \in Indices : Holds(u, j)' ELSE slot'[u] = NoSlot
      <3>1. CASE u = t
        <4>1. completed[k] <= s BY <1>1, <1>3, <1>4 DEF CountersInv
        <4>2. Holds(t, s)' BY <1>4, <1>5, <1>8, <1>11, <4>1 DEF Holds
        <4>3. QED BY <1>11, <3>1, <4>2
      <3>2. CASE u # t
        <4>1. IF Holding(u) THEN \E j \in Indices : Holds(u, j) ELSE slot[u] = NoSlot
          BY <1>1 DEF HoldInv
        <4>2. ASSUME NEW j \in Indices, Holds(u, j) PROVE Holds(u, j)'
          <5>1. LevelOfThread(u) \in Level /\ j \in Nat BY LevelFacts, ConstantFacts
          <5>2. j < scheduled[LevelOfThread(u)] BY <4>2 DEF Holds
          <5>3. j < scheduled'[LevelOfThread(u)] BY <1>3, <1>6, <1>7, <5>1, <5>2
          <5>4. slot'[u] = slot[u] BY <1>11, <3>2
          <5>5. QED BY <4>2, <5>3, <5>4 DEF Holds
        <4>3. QED BY <1>11, <1>12, <3>2, <4>1, <4>2
      <3>3. QED BY <3>1, <3>2
    <2>3. ASSUME NEW u \in Threads \ {t}, Holding(u) PROVE slot[u] # s % Size
      <3>1. PICK j \in Indices : Holds(u, j) /\ InFlight(j) BY <1>1, <2>3, HeldFacts
      <3>2. slot[u] = j % Size /\ x[slot[u]] = LevelOfThread(u) - 1
            /\ j < scheduled[LevelOfThread(u)]
        BY <3>1 DEF Holds
      <3>3. SUFFICES ASSUME slot[u] = s % Size PROVE FALSE OBVIOUS
      <3>4. j = s BY <1>1, <1>4, <3>1, <3>2, <3>3, SameSlot
      <3>5. LevelOfThread(u) \in Nat BY LevelFacts, ConstantFacts
      <3>6. LevelOfThread(u) = k BY <1>4, <1>5, <3>2, <3>3, <3>5
      <3>7. QED BY <1>3, <1>5, <3>2, <3>4, <3>6
    <2>4. \A u, v \in Threads : u # v /\ Holding(u)' /\ Holding(v)' => slot'[u] # slot'[v]
      BY <1>1, <1>11, <1>12, <2>3 DEF HoldInv
    <2>5. QED BY <2>1, <2>2, <2>4 DEF HoldInv
  <1>16. ThreadsInv'
    <2>1. ASSUME NEW u \in Workers, pc[u] \in {"leave", "end"}
          PROVE  scheduled'[LevelOf[u]] = scheduled'[0]
      <3>1. scheduled[LevelOf[u]] = scheduled[0] /\ LevelOf[u] \in Level
        BY <1>1, <2>1, LevelFacts DEF ThreadsInv
      <3>2. LevelOf[u] # k BY <1>3, <1>5, <1>6, <1>8, <3>1
      <3>3. QED BY <1>7, <1>8, <3>1, <3>2
    <2>2. "work" \in WorkerPlaces BY DEF WorkerPlaces
    <2>3. QED BY <1>1, <1>5, <1>10, <2>1, <2>2, ThreadsKept
  <1>17. CountInv' BY <1>1, <1>5, <1>10, CountKept DEF Away
  <1>18. OwnerInv'
    <2>1. pc'[Owner] = pc[Owner] /\ (Holding(Owner)' <=> Holding(Owner)) /\ (Draining' <=> Draining)
      BY <1>5, <1>11, <1>12 DEF Draining
    <2>2. QED BY <1>1, <1>8, <2>1 DEF OwnerInv
  <1>19. RelsInv'
    <2>1. Put' = Put BY <1>5, <1>8, <1>11 DEF Put
    <2>2. QED BY <1>1, <2>1 DEF RelsInv
  <1>20. HandledInv'
    <2>1. pc'[Owner] = pc[Owner] BY <1>5, <1>11
    <2>2. Workers \subseteq Threads BY ConstantFacts
    <2>3. ASSUME NEW l \in Level, l # 0
          PROVE  HandledBy(l)' = HandledBy(l)
      <3>1. CASE l = k
        <4>1. ASSUME NEW a \in Active
              PROVE  Rank(a) < s + 1 /\ a # rels[s % Size] <=> Rank(a) < s
          <5>1. a \in 0..NRels BY ActiveFacts
          <5>2. Rank(a) \in Nat BY <5>1, RankType
          <5>3. Rank(a) = s => a = rels[s % Size] BY <1>4, RankUnique
          <5>4. QED BY <1>4, <1>5, <5>2, <5>3
        <4>2. ASSUME NEW a \in Active
              PROVE  (\A u \in Workers : LevelOf[u] = l /\ pc'[u] = "work" => rels[slot'[u]] # a)
                     <=> /\ \A u \in Workers : LevelOf[u] = l /\ pc[u] = "work" => rels[slot[u]] # a
                         /\ a # rels[s % Size]
          <5>1. \A u \in Workers : u # t => pc'[u] = pc[u] /\ slot'[u] = slot[u]
            BY <1>11, <2>2
          <5>2. LevelOf[t] = l /\ pc[t] # "work" BY <1>2, <3>1
          <5>3. QED BY <1>11, <5>1, <5>2
        <4>3. scheduled'[l] = s + 1 /\ scheduled[l] = s BY <1>3, <1>8, <3>1
        <4>4. QED BY <4>1, <4>2, <4>3 DEF HandledBy
      <3>2. CASE l # k
        <4>1. scheduled'[l] = scheduled[l] BY <1>7, <3>2
        <4>2. \A u \in Workers : LevelOf[u] = l => pc'[u] = pc[u] /\ slot'[u] = slot[u]
          BY <1>2, <1>11, <2>2, <3>2
        <4>3. QED BY <4>1, <4>2 DEF HandledBy
      <3>3. QED BY <3>1, <3>2
    <2>4. HandledByOwner' = HandledByOwner BY <2>1 DEF HandledByOwner
    <2>5. QED BY <1>1, <2>3, <2>4 DEF HandledInv
  <1>21. QED BY <1>9, <1>14, <1>15, <1>16, <1>17, <1>18, <1>19, <1>20 DEF FInv

(* The owner takes the next index of the ring: the last level has let go   *)
(* of the slot.                                                            *)
LEMMA OwnerTakes ==
    ASSUME FInv, pc[Owner] = "schedule", ~NothingToSchedule(0),
           scheduled' = [scheduled EXCEPT ![0] = scheduled[0] + 1],
           slot' = [slot EXCEPT ![Owner] = scheduled[0] % Size],
           x' = [x EXCEPT ![scheduled[0] % Size] = -1],
           To(Owner, "work"),
           UNCHANGED <<completed, active, rels, nrels, closing, handled>>
    PROVE  FInv'
  <1>1. /\ CountersInv /\ RingInv /\ HoldInv /\ ThreadsInv /\ CountInv /\ OwnerInv
        /\ RelsInv /\ HandledInv
    BY DEF FInv
  <1>2. PICK n \in Indices : n = scheduled[0] BY <1>1, CounterFacts, ConstantFacts
  <1>3. /\ 0 \in Level /\ Levels \in Level /\ Levels \in Nat /\ Owner \in Threads
        /\ LevelOfThread(Owner) = 0 /\ Size \in Nat /\ Size >= 1 /\ NRels \in Nat
        /\ n \in Nat /\ n % Size \in Slots /\ Prev(0) = Levels
    BY LevelFacts, ConstantFacts
  <1>4. ~Draining /\ ~Holding(Owner) BY DEF Draining, Holding
  <1>5. closing = 0
    <2>1. closing \in Nat BY <1>1, CounterFacts
    <2>2. ~(closing > 0) BY <1>1, <1>4 DEF ThreadsInv
    <2>3. QED BY <2>1, <2>2
  <1>6. /\ nrels \in Active /\ Rank(nrels) = n /\ completed[0] = n
    BY <1>1, <1>2, <1>4, <1>5 DEF OwnerInv
  <1>7. n + 1 <= NRels /\ n + 1 \in Indices
    <2>1. nrels \in 0..NRels /\ nrels < NRels BY <1>6, ActiveFacts
    <2>2. Rank(nrels) <= nrels BY <2>1, RankType
    <2>3. QED BY <1>3, <1>6, <2>1, <2>2 DEF Indices
  <1>8. \A k \in Level : /\ k \in Nat /\ scheduled[k] \in Nat /\ completed[k] \in Nat
                         /\ completed[k] <= scheduled[k] /\ scheduled[k] <= n
    <2>1. \A k \in Level : k \in Nat BY ConstantFacts
    <2>2. QED BY <1>1, <1>2, <1>5, <2>1, CounterFacts
  <1>9. \A k \in Level : n + 1 <= completed[k] + Size
    <2>1. n <= completed[Levels] + Size BY <1>1, <1>2 DEF CountersInv
    <2>2. n # Size + completed[Levels] BY <1>2, <1>3 DEF NothingToSchedule
    <2>3. n + 1 <= completed[Levels] + Size BY <1>3, <1>8, <2>1, <2>2
    <2>4. ASSUME NEW k \in Level PROVE completed[Levels] <= completed[k]
      <3>1. k = Levels \/ k < Levels BY <1>3, <1>8, ConstantFacts
      <3>2. k < Levels => scheduled[Levels] <= completed[k] BY <1>1, <1>3 DEF CountersInv
      <3>3. QED BY <1>3, <1>8, <3>1, <3>2
    <2>5. QED BY <1>3, <1>8, <2>3, <2>4
  <1>10. /\ \A k \in Level : scheduled'[k] = IF k = 0 THEN n + 1 ELSE scheduled[k]
         /\ scheduled'[0] = n + 1
    BY <1>1, <1>2, <1>3 DEF CountersInv
  <1>11. CountersInv'
    <2>1. scheduled' \in [Level -> Indices] BY <1>1, <1>2, <1>3, <1>7 DEF CountersInv
    <2>2. \A l \in Level : ~(l < closing) BY <1>5, <1>8
    <2>3. \A l \in Level : completed[l] <= scheduled'[l] BY <1>3, <1>8, <1>10
    <2>4. ASSUME NEW l \in Level, NEW m \in Level, l < m
          PROVE  scheduled'[m] <= completed[l] /\ scheduled'[m] <= scheduled'[l]
      <3>1. scheduled[m] <= completed[l] /\ scheduled[m] <= scheduled[l]
        BY <1>1, <2>4 DEF CountersInv
      <3>2. m # 0 BY <1>8, <2>4
      <3>3. scheduled'[m] = scheduled[m] BY <1>10, <3>2
      <3>4. CASE l = 0 BY <1>3, <1>8, <1>10, <3>1, <3>3, <3>4
      <3>5. CASE l # 0 BY <1>10, <3>1, <3>3, <3>5
      <3>6. QED BY <3>4, <3>5
    <2>5. scheduled'[0] <= completed[Levels] + Size BY <1>3, <1>9, <1>10
    <2>6. QED BY <1>1, <2>1, <2>2, <2>3, <2>4, <2>5 DEF CountersInv
  <1>12. Moves(Owner, "work") /\ "work" \in Places
    <2>1. "work" \in Places BY DEF Places, WorkerPlaces
    <2>2. QED BY <1>1, <1>3, <2>1, ToMoves
  <1>13. /\ pc'[Owner] = "work" /\ Holding(Owner)'
         /\ \A u \in Threads \ {Owner} : pc'[u] = pc[u] /\ slot'[u] = slot[u]
         /\ slot'[Owner] = n % Size
    <2>1. pc \in [Threads -> Places] /\ slot \in [Threads -> Slots \cup {NoSlot}]
      BY <1>1 DEF ThreadsInv, HoldInv, Places
    <2>2. pc'[Owner] = "work" BY <1>3, <2>1 DEF To
    <2>3. QED BY <1>2, <1>3, <2>1, <2>2 DEF To, Holding
  <1>14. \A u \in Threads \ {Owner} : Holding(u)' <=> Holding(u) BY <1>13 DEF Holding
  <1>15. /\ x' \in [Slots -> -1..Levels]
         /\ x'[n % Size] = -1
         /\ \A i \in Slots : i # n % Size => x'[i] = x[i]
    <2>1. x \in [Slots -> -1..Levels] /\ -1 \in -1..Levels BY <1>1, <1>3 DEF RingInv
    <2>2. QED BY <1>2, <1>3, <2>1
  (* Indices less than a ring behind n keep their slots.                   *)
  <1>16. ASSUME NEW j \in Indices, j < n, n < j + Size PROVE j % Size # n % Size
    <2>1. j \in Nat BY ConstantFacts
    <2>2. j # n /\ j < n + Size BY <1>3, <1>16, <2>1
    <2>3. QED BY <1>3, <1>16, <2>1, <2>2, SlotUnique
  <1>17. RingInv'
    <2>1. ASSUME NEW j \in Indices, NEW l \in Level, InFlight(j)'
          PROVE  /\ j < completed[l] => x'[j % Size] >= l
                 /\ scheduled'[l] <= j => x'[j % Size] < l
                 /\ j < scheduled'[l] /\ x'[j % Size] = l - 1 =>
                      \E u \in Threads : LevelOfThread(u) = l /\ Holding(u)' /\ slot'[u] = j % Size
      <3>1. j \in Nat /\ j % Size \in Slots BY ConstantFacts
      <3>2. j < n + 1 /\ n + 1 <= j + Size BY <1>10, <2>1 DEF InFlight
      <3>3. CASE j = n
        <4>1. ~(n < completed[l]) BY <1>3, <1>8
        <4>2. scheduled'[l] <= n => l # 0 BY <1>3, <1>10
        <4>3. l # 0 => -1 < l BY <1>8
        <4>4. n < scheduled'[l] => l = 0 BY <1>3, <1>8, <1>10
        <4>5. QED BY <1>3, <1>13, <1>15, <3>3, <4>1, <4>2, <4>3, <4>4
      <3>4. CASE j # n
        <4>1. j < n /\ n < j + Size BY <1>3, <3>1, <3>2, <3>4
        <4>2. j % Size # n % Size BY <1>16, <4>1
        <4>3. x'[j % Size] = x[j % Size] BY <1>15, <3>1, <4>2
        <4>4. InFlight(j)
          <5>1. n <= j + Size BY <1>3, <3>1, <4>1
          <5>2. QED BY <1>2, <4>1, <5>1 DEF InFlight
        <4>5. /\ j < completed[l] => x[j % Size] >= l
              /\ scheduled[l] <= j => x[j % Size] < l
              /\ j < scheduled[l] /\ x[j % Size] = l - 1 =>
                   \E u \in Threads : LevelOfThread(u) = l /\ Holding(u) /\ slot[u] = j % Size
          BY <1>1, <4>4 DEF RingInv
        <4>6. scheduled'[l] <= j => scheduled[l] <= j
          BY <1>2, <1>3, <1>8, <1>10, <3>1
        <4>7. ASSUME j < scheduled'[l], x'[j % Size] = l - 1
              PROVE  \E u \in Threads : LevelOfThread(u) = l /\ Holding(u)' /\ slot'[u] = j % Size
          <5>1. j < scheduled[l] BY <1>2, <1>10, <4>1, <4>7
          <5>2. PICK u \in Threads : LevelOfThread(u) = l /\ Holding(u) /\ slot[u] = j % Size
            BY <4>3, <4>5, <4>7, <5>1
          <5>3. u # Owner BY <1>4, <5>2
          <5>4. QED BY <1>13, <1>14, <5>2, <5>3
        <4>8. QED BY <4>3, <4>5, <4>6, <4>7
      <3>5. QED BY <3>3, <3>4
    <2>2. QED BY <1>15, <2>1 DEF RingInv
  <1>18. ASSUME NEW u \in Threads \ {Owner}, NEW j \in Indices, Holding(u), Holds(u, j)
         PROVE  Holds(u, j)' /\ slot[u] # n % Size
    <2>1. PICK k \in Level : k = LevelOfThread(u) BY LevelFacts
    <2>2. k # 0 BY <2>1, LevelFacts
    <2>3. completed[k] <= j /\ j < scheduled[k] /\ slot[u] = j % Size /\ x[slot[u]] = k - 1
      BY <1>18, <2>1 DEF Holds
    <2>4. j \in Nat /\ j % Size \in Slots BY ConstantFacts
    <2>5. j < n /\ n < j + Size
      <3>1. n + 1 <= completed[k] + Size BY <1>9
      <3>2. QED BY <1>3, <1>8, <2>3, <2>4, <3>1
    <2>6. j % Size # n % Size BY <1>16, <2>5
    <2>7. x'[slot[u]] = k - 1 /\ slot'[u] = slot[u] /\ scheduled'[k] = scheduled[k]
      BY <1>10, <1>13, <1>15, <2>2, <2>3, <2>4, <2>6
    <2>8. QED BY <2>1, <2>3, <2>6, <2>7 DEF Holds
  <1>19. HoldInv'
    <2>1. slot' \in [Threads -> Slots \cup {NoSlot}] BY <1>1, <1>2, <1>3 DEF HoldInv
    <2>2. ASSUME NEW u \in Threads
          PROVE  IF Holding(u)' THEN \E j \in Indices : Holds(u, j)' ELSE slot'[u] = NoSlot
      <3>1. CASE u = Owner
        <4>1. completed[0] <= n /\ n < n + 1 BY <1>3, <1>6
        <4>2. -1 = 0 - 1 OBVIOUS
        <4>3. Holds(Owner, n)' BY <1>3, <1>10, <1>13, <1>15, <4>1, <4>2 DEF Holds
        <4>4. QED BY <1>13, <3>1, <4>3
      <3>2. CASE u # Owner
        <4>1. IF Holding(u) THEN \E j \in Indices : Holds(u, j) ELSE slot[u] = NoSlot
          BY <1>1 DEF HoldInv
        <4>2. QED BY <1>13, <1>14, <1>18, <3>2, <4>1
      <3>3. QED BY <3>1, <3>2
    <2>3. ASSUME NEW u \in Threads \ {Owner}, Holding(u) PROVE slot[u] # n % Size
      <3>1. PICK j \in Indices : Holds(u, j) BY <1>1, <2>3 DEF HoldInv
      <3>2. QED BY <1>18, <2>3, <3>1
    <2>4. \A u, v \in Threads : u # v /\ Holding(u)' /\ Holding(v)' => slot'[u] # slot'[v]
      BY <1>1, <1>13, <1>14, <2>3 DEF HoldInv
    <2>5. QED BY <2>1, <2>2, <2>4 DEF HoldInv
  <1>20. ThreadsInv'
    <2>1. \A u \in Workers : pc[u] \notin {"leave", "end"} BY <1>1, <1>4 DEF ThreadsInv
    <2>2. "work" \in OwnerPlaces BY DEF WorkerPlaces, OwnerPlaces
    <2>3. QED BY <1>1, <1>3, <1>4, <1>12, <2>1, <2>2, ThreadsKept
  <1>21. CountInv' BY <1>1, <1>3, <1>12, CountKept DEF Away
  <1>22. OwnerInv'
    <2>1. ~Draining' BY <1>13 DEF Draining
    <2>2. Rank(nrels)' = Rank(nrels) BY DEF Rank
    <2>3. QED BY <1>1, <1>6, <1>10, <1>13, <2>1, <2>2 DEF OwnerInv
  <1>23. RelsInv'
    <2>1. Put' = Put BY <1>2, <1>3, <1>10, <1>13 DEF Put
    <2>2. QED BY <1>1, <2>1 DEF RelsInv
  <1>24. HandledInv'
    <2>1. pc'[Owner] # "complete" /\ pc[Owner] # "complete" BY <1>13
    <2>2. \A u \in Workers : pc'[u] = pc[u] /\ slot'[u] = slot[u] BY <1>13, ConstantFacts
    <2>3. \A l \in Level : l # 0 => scheduled'[l] = scheduled[l] BY <1>10
    <2>4. HandledByOwner' = HandledByOwner BY <2>1 DEF HandledByOwner
    <2>5. \A l \in Level : l # 0 => HandledBy(l)' = HandledBy(l) BY <2>2, <2>3 DEF HandledBy
    <2>6. QED BY <1>1, <2>4, <2>5 DEF HandledInv
  <1>25. QED BY <1>11, <1>17, <1>19, <1>20, <1>21, <1>22, <1>23, <1>24 DEF FInv

LEMMA ScheduleInv ==
    ASSUME FInv, NEW t \in Threads, Schedule(t)
    PROVE  FInv'
  <1> DEFINE k == LevelOfThread(t)
  <1>1. pc[t] = "schedule" /\ UNCHANGED <<rels, nrels, closing, handled>> BY DEF Schedule
  <1>2. CASE NothingToSchedule(k)
    <2>1. To(t, "bored") /\ UNCHANGED <<completed, scheduled, x, active, slot>>
      BY <1>2 DEF Schedule, bufVars
    <2>2. QED BY <1>1, <2>1, ScheduleWaits
  <1>3. CASE ~NothingToSchedule(k) /\ AllTaken(k)
    <2>1. To(t, "leave") /\ UNCHANGED <<completed, scheduled, x, active, slot>>
      BY <1>3 DEF Schedule, bufVars
    <2>2. QED BY <1>1, <1>3, <2>1, ScheduleLeaves
  <1>4. CASE ~NothingToSchedule(k) /\ ~AllTaken(k)
    <2>1. /\ scheduled' = [scheduled EXCEPT ![k] = scheduled[k] + 1]
          /\ slot' = [slot EXCEPT ![t] = scheduled[k] % Size]
          /\ x' = IF k = 0 THEN [x EXCEPT ![scheduled[k] % Size] = -1] ELSE x
          /\ To(t, "work") /\ UNCHANGED <<completed, active>>
      BY <1>4 DEF Schedule
    <2>2. CASE t = Owner
      <3>1. k = 0 BY <2>2, LevelFacts
      <3>2. QED BY <1>1, <1>4, <2>1, <2>2, <3>1, OwnerTakes
    <2>3. CASE t # Owner
      <3>1. t \in Workers /\ k = LevelOf[t] /\ k # 0 BY <2>3, LevelFacts, ConstantFacts
      <3>2. QED BY <1>1, <1>4, <2>1, <3>1, WorkerTakes
    <2>4. QED BY <2>2, <2>3
  <1>5. QED BY <1>2, <1>3, <1>4

--------------------------------------------------------------------------------
(* A worker applies its function.                                          *)
LEMMA WorkerWorks ==
    ASSUME FInv, NEW t \in Workers, Work(t)
    PROVE  FInv'
  <1>1. /\ CountersInv /\ RingInv /\ HoldInv /\ ThreadsInv /\ CountInv /\ OwnerInv
        /\ RelsInv /\ HandledInv
    BY DEF FInv
  <1>2. /\ t \in Threads /\ t # Owner /\ Owner \in Threads /\ Workers \subseteq Threads
        /\ LevelOfThread(t) = LevelOf[t] /\ LevelOf[t] \in Level /\ LevelOf[t] # 0
    BY LevelFacts, ConstantFacts
  <1>3. PICK k \in Level : k = LevelOf[t] BY <1>2
  <1>4. /\ pc[t] = "work" /\ rels' = rels /\ To(t, "complete")
        /\ handled' = [handled EXCEPT ![k] = @ \cup {rels[slot[t]]}]
        /\ UNCHANGED <<completed, scheduled, x, active, nrels, closing, slot>>
    BY <1>2, <1>3 DEF Work, bufVars
  <1>5. "complete" \in Places /\ "complete" \in WorkerPlaces BY DEF Places, WorkerPlaces
  <1>6. Moves(t, "complete") BY <1>1, <1>2, <1>4, <1>5, ToMoves
  <1>7. pc'[t] = "complete" /\ \A u \in Threads \ {t} : pc'[u] = pc[u]
    <2>1. pc \in [Threads -> Places] BY <1>1 DEF ThreadsInv, Places
    <2>2. QED BY <1>2, <1>4, <2>1 DEF To
  <1>8. CountersInv' /\ RingInv' /\ HoldInv'
    <2>1. \A u \in Threads : Holding(u)' <=> Holding(u) BY <1>4, <1>7 DEF Holding
    <2>2. QED BY <1>1, <1>4, <2>1, QuietRing
  <1>9. ThreadsInv'
    <2>1. \A u \in Workers : pc[u] \in {"leave", "end"} => scheduled'[LevelOf[u]] = scheduled'[0]
      BY <1>1, <1>4 DEF ThreadsInv
    <2>2. QED BY <1>1, <1>2, <1>4, <1>5, <1>6, <2>1, ThreadsKept
  <1>10. CountInv' BY <1>1, <1>2, <1>4, <1>5, <1>6, CountKept DEF Away
  <1>11. pc'[Owner] = pc[Owner] BY <1>2, <1>7
  <1>12. OwnerInv' BY <1>1, <1>4, <1>11 DEF OwnerInv, Draining, Holding, Rank
  <1>13. RelsInv'
    <2>1. Put' = Put BY <1>4, <1>11 DEF Put
    <2>2. QED BY <1>1, <1>4, <2>1 DEF RelsInv
  <1>14. HandledInv'
    <2>1. Holding(t) BY <1>4 DEF Holding
    <2>2. PICK j \in Indices : Holds(t, j) /\ InFlight(j) BY <1>1, <1>2, <2>1, HeldFacts
    <2>3. rels[slot[t]] \in Active /\ Rank(rels[slot[t]]) = j
      BY <1>1, <2>1, <2>2, HeldRelation
    <2>4. j < scheduled[k] /\ slot[t] = j % Size BY <1>2, <1>3, <2>2 DEF Holds
    <2>5. ASSUME NEW u \in Workers, u # t, pc[u] = "work" PROVE rels[slot[u]] # rels[slot[t]]
      <3>1. u \in Threads /\ Holding(u) BY <1>2, <2>5 DEF Holding
      <3>2. PICK i \in Indices : Holds(u, i) /\ InFlight(i) BY <1>1, <3>1, HeldFacts
      <3>3. Rank(rels[slot[u]]) = i BY <1>1, <3>1, <3>2, HeldRelation
      <3>4. slot[u] = i % Size BY <3>2 DEF Holds
      <3>5. slot[u] # slot[t] BY <1>1, <1>2, <2>1, <2>5, <3>1 DEF HoldInv
      <3>6. QED BY <2>3, <2>4, <3>3, <3>4, <3>5
    <2>6. HandledBy(k)' = HandledBy(k) \cup {rels[slot[t]]}
      <3>1. ASSUME NEW a \in Active
            PROVE  (\A u \in Workers : LevelOf[u] = k /\ pc'[u] = "work" => rels[slot[u]] # a)
                   <=> \/ \A u \in Workers : LevelOf[u] = k /\ pc[u] = "work" => rels[slot[u]] # a
                       \/ a = rels[slot[t]]
        <4>1. \A u \in Workers : u # t => pc'[u] = pc[u] BY <1>2, <1>7
        <4>2. QED BY <1>4, <1>7, <2>5, <4>1
      <3>2. QED BY <1>4, <2>3, <2>4, <3>1 DEF HandledBy
    <2>7. \A l \in Level : l # k => HandledBy(l)' = HandledBy(l)
      <3>1. \A u \in Workers : LevelOf[u] # k => pc'[u] = pc[u] BY <1>2, <1>3, <1>7
      <3>2. QED BY <1>4, <3>1 DEF HandledBy
    <2>8. HandledByOwner' = HandledByOwner BY <1>4, <1>11 DEF HandledByOwner
    <2>9. QED BY <1>1, <1>2, <1>3, <1>4, <2>6, <2>7, <2>8 DEF HandledInv
  <1>15. QED BY <1>8, <1>9, <1>10, <1>12, <1>13, <1>14 DEF FInv

(* The owner writes its relation into its slot.                            *)
LEMMA OwnerWorks ==
    ASSUME FInv, Work(Owner)
    PROVE  FInv'
  <1>1. /\ CountersInv /\ RingInv /\ HoldInv /\ ThreadsInv /\ CountInv /\ OwnerInv
        /\ RelsInv /\ HandledInv
    BY DEF FInv
  <1>2. /\ Owner \in Threads /\ Workers \subseteq Threads /\ Owner \notin Workers
        /\ LevelOfThread(Owner) = 0 /\ 0 \in Level /\ Size \in Nat /\ Size >= 1
    BY LevelFacts, ConstantFacts
  <1>3. /\ pc[Owner] = "work" /\ rels' = [rels EXCEPT ![slot[Owner]] = nrels]
        /\ To(Owner, "complete")
        /\ handled' = [handled EXCEPT ![0] = @ \cup {rels'[slot[Owner]]}]
        /\ UNCHANGED <<completed, scheduled, x, active, nrels, closing, slot>>
    BY <1>2 DEF Work, bufVars
  <1>4. Holding(Owner) /\ ~Draining BY <1>3 DEF Holding, Draining
  <1>5. PICK i \in Indices : Holds(Owner, i) BY <1>1, <1>2, <1>4 DEF HoldInv
  <1>6. i + 1 = scheduled[0] /\ i \in Nat /\ slot[Owner] = i % Size /\ i % Size \in Slots
    <2>1. i + 1 = scheduled[0] BY <1>1, <1>4, <1>5, OwnerHolds
    <2>2. QED BY <1>5, <2>1, ConstantFacts DEF Holds
  <1>7. nrels \in Active /\ Rank(nrels) = i /\ nrels \in -1..NRels - 1
    <2>1. nrels \in Active /\ Rank(nrels) + 1 = scheduled[0] BY <1>1, <1>3, <1>4 DEF OwnerInv
    <2>2. nrels \in 0..NRels /\ nrels \in -1..NRels - 1 BY <2>1, ActiveFacts
    <2>3. Rank(nrels) \in Nat BY <2>2, RankType
    <2>4. QED BY <1>6, <2>1, <2>2, <2>3
  <1>8. /\ rels' \in [Slots -> -1..NRels - 1] /\ rels'[i % Size] = nrels
        /\ \A s \in Slots : s # i % Size => rels'[s] = rels[s]
    <2>1. rels \in [Slots -> -1..NRels - 1] BY <1>1 DEF RelsInv
    <2>2. QED BY <1>3, <1>6, <1>7, <2>1
  <1>9. "complete" \in Places /\ "complete" \in OwnerPlaces
    BY DEF Places, WorkerPlaces, OwnerPlaces
  <1>10. Moves(Owner, "complete") BY <1>1, <1>2, <1>3, <1>9, ToMoves
  <1>11. pc'[Owner] = "complete" /\ \A u \in Threads \ {Owner} : pc'[u] = pc[u]
    <2>1. pc \in [Threads -> Places] BY <1>1 DEF ThreadsInv, Places
    <2>2. QED BY <1>2, <1>3, <2>1 DEF To
  <1>12. CountersInv' /\ RingInv' /\ HoldInv'
    <2>1. \A u \in Threads : Holding(u)' <=> Holding(u) BY <1>3, <1>11 DEF Holding
    <2>2. QED BY <1>1, <1>3, <2>1, QuietRing
  <1>13. ThreadsInv'
    <2>1. \A u \in Workers : pc[u] \in {"leave", "end"} => scheduled'[LevelOf[u]] = scheduled'[0]
      BY <1>1, <1>3 DEF ThreadsInv
    <2>2. QED BY <1>1, <1>2, <1>3, <1>4, <1>9, <1>10, <2>1, ThreadsKept
  <1>14. CountInv' BY <1>1, <1>2, <1>3, <1>9, <1>10, CountKept DEF Away
  <1>15. OwnerInv'
    <2>1. Holding(Owner)' /\ ~Draining' BY <1>11 DEF Holding, Draining
    <2>2. QED BY <1>1, <1>3, <1>4, <1>7, <2>1 DEF OwnerInv, Rank
  <1>16. RelsInv'
    <2>1. Put = i /\ Put' = i + 1 BY <1>3, <1>6, <1>11 DEF Put
    <2>2. ASSUME NEW j \in Indices, j < i + 1, i + 1 <= j + Size
          PROVE  rels'[j % Size] \in Active /\ Rank(rels'[j % Size]) = j
      <3>1. j \in Nat /\ j % Size \in Slots BY ConstantFacts
      <3>2. CASE j = i BY <1>7, <1>8, <3>2
      <3>3. CASE j # i
        <4>1. j < i /\ i < j + Size /\ i <= j + Size /\ j < i + Size
          BY <1>2, <1>6, <2>2, <3>1, <3>3
        <4>2. j % Size # i % Size BY <1>6, <3>1, <3>3, <4>1, SlotUnique
        <4>3. rels[j % Size] \in Active /\ Rank(rels[j % Size]) = j
          BY <1>1, <2>1, <4>1 DEF RelsInv
        <4>4. QED BY <1>8, <3>1, <4>2, <4>3
      <3>4. QED BY <3>2, <3>3
    <2>3. ASSUME NEW s \in Slots, i + 1 <= s PROVE rels'[s] = -1
      <3>1. i % Size <= i BY <1>2, <1>6
      <3>2. s \in Nat /\ i % Size \in Nat BY <1>2, <1>6 DEF Slots
      <3>3. s # i % Size /\ i <= s BY <1>6, <2>3, <3>1, <3>2
      <3>4. rels[s] = -1 BY <1>1, <2>1, <3>3 DEF RelsInv
      <3>5. QED BY <1>8, <3>3, <3>4
    <2>4. QED BY <1>8, <2>1, <2>2, <2>3 DEF RelsInv
  <1>17. HandledInv'
    <2>1. HandledByOwner' = HandledByOwner \cup {nrels}
      BY <1>3, <1>7, <1>11 DEF HandledByOwner
    <2>2. ASSUME NEW u \in Workers, pc[u] = "work" PROVE rels'[slot[u]] = rels[slot[u]]
      <3>1. u \in Threads /\ u # Owner /\ Holding(u) BY <1>2, <2>2 DEF Holding
      <3>2. slot[u] # slot[Owner] BY <1>1, <1>2, <1>4, <3>1 DEF HoldInv
      <3>3. PICK j \in Indices : Holds(u, j) BY <1>1, <3>1 DEF HoldInv
      <3>4. slot[u] \in Slots BY <3>3, ConstantFacts DEF Holds
      <3>5. QED BY <1>6, <1>8, <3>2, <3>4
    <2>3. \A u \in Workers : pc'[u] = pc[u] BY <1>2, <1>11
    <2>4. \A l \in Level : HandledBy(l)' = HandledBy(l) BY <1>3, <2>2, <2>3 DEF HandledBy
    <2>5. rels'[slot[Owner]] = nrels BY <1>6, <1>8
    <2>6. QED BY <1>1, <1>2, <1>3, <2>1, <2>4, <2>5 DEF HandledInv
  <1>18. QED BY <1>12, <1>13, <1>14, <1>15, <1>16, <1>17 DEF FInv

--------------------------------------------------------------------------------
(* completed[k] moves up, to scheduled[k] at most.                         *)
LEMMA CompletedAdvances ==
    ASSUME CountersInv, NEW k \in Level, closing <= k, NEW d \in Nat,
           completed[k] <= d, d <= scheduled[k],
           completed' = [completed EXCEPT ![k] = d], UNCHANGED <<scheduled, closing>>
    PROVE  CountersInv' /\ \A l \in Level : completed'[l] = IF l = k THEN d ELSE completed[l]
  <1>1. /\ closing \in Nat /\ Size \in Nat /\ NRels \in Nat /\ Levels \in Level /\ 0 \in Level
        /\ \A l \in Level : /\ scheduled[l] \in Nat /\ completed[l] \in Nat /\ l \in Nat
                            /\ scheduled[l] <= NRels
    BY CounterFacts, ConstantFacts
  <1>2. \A l \in Level : completed'[l] = IF l = k THEN d ELSE completed[l] BY DEF CountersInv
  <1>3. d \in Indices BY <1>1 DEF Indices
  <1>4. completed' \in [Level -> Indices \cup {SizeMax}] BY <1>3 DEF CountersInv
  <1>5. \A l \in Level : l < closing => completed'[l] = SizeMax /\ scheduled[l] = scheduled[0]
    <2>1. \A l \in Level : l < closing => l # k BY <1>1
    <2>2. QED BY <1>2, <2>1 DEF CountersInv
  <1>6. \A l \in Level : closing <= l => completed'[l] <= scheduled[l]
    BY <1>2 DEF CountersInv
  <1>7. ASSUME NEW l \in Level, NEW m \in Level, l < m PROVE scheduled[m] <= completed'[l]
    <2>1. scheduled[m] <= completed[l] BY <1>7 DEF CountersInv
    <2>2. CASE l = k BY <1>1, <1>2, <2>1, <2>2
    <2>3. CASE l # k BY <1>2, <2>1, <2>3
    <2>4. QED BY <2>2, <2>3
  <1>8. scheduled[0] <= completed'[Levels] + Size
    <2>1. scheduled[0] <= completed[Levels] + Size BY DEF CountersInv
    <2>2. CASE k = Levels BY <1>1, <1>2, <2>1, <2>2
    <2>3. CASE k # Levels BY <1>1, <1>2, <2>1, <2>3
    <2>4. QED BY <2>2, <2>3
  <1>9. QED BY <1>2, <1>4, <1>5, <1>6, <1>7, <1>8 DEF CountersInv

(* A level's completion of index j.                                        *)
LEMMA CompletedAfterFacts ==
    ASSUME CountersInv, RingInv, NEW k \in Level, closing <= k, NEW j \in Nat,
           completed[k] <= j, j < scheduled[k]
    PROVE  /\ CompletedAfter(k, j) \in Nat
           /\ completed[k] <= CompletedAfter(k, j) /\ CompletedAfter(k, j) <= scheduled[k]
           /\ completed[k] = j => CompletedAfter(k, j) = j + 1
           /\ \A i \in Nat : completed[k] <= i /\ i < CompletedAfter(k, j)
                               => i = j \/ x[i % Size] >= k
  <1>1. completed[k] \in Nat /\ scheduled[k] \in Nat BY CounterFacts
  <1>2. PICK c \in completed[k]..j :
             /\ c = CatchUp(completed[k], j, k)
             /\ \A i \in Nat : completed[k] <= i /\ i < c => x[i % Size] >= k
    BY <1>1, CatchUpStops
  <1>3. CompletedAfter(k, j) = IF c = j THEN j + 1 ELSE c BY <1>2 DEF CompletedAfter
  <1>4. c \in Nat /\ completed[k] <= c /\ c <= j BY <1>1, <1>2
  <1>5. CASE c = j
    <2>1. CompletedAfter(k, j) = j + 1 BY <1>3, <1>5
    <2>2. \A i \in Nat : completed[k] <= i /\ i < j + 1 => i = j \/ i < c BY <1>4, <1>5
    <2>3. QED BY <1>1, <1>2, <2>1, <2>2
  <1>6. CASE c # j
    <2>1. CompletedAfter(k, j) = c BY <1>3, <1>6
    <2>2. completed[k] # j /\ c <= scheduled[k] BY <1>1, <1>4, <1>6
    <2>3. QED BY <1>2, <1>4, <2>1, <2>2
  <1>7. QED BY <1>5, <1>6

(* complete(): the thread's own slot and the ones other threads have left  *)
(* complete are passed, and no slot that a thread still holds.             *)
LEMMA CompleteInv ==
    ASSUME FInv, NEW t \in Threads, Complete(t)
    PROVE  FInv'
  <1>1. /\ CountersInv /\ RingInv /\ HoldInv /\ ThreadsInv /\ CountInv /\ OwnerInv
        /\ RelsInv /\ HandledInv
    BY DEF FInv
  <1>2. PICK k \in Level : k = LevelOfThread(t) BY LevelFacts
  <1>3. pc[t] = "complete" /\ Holding(t) BY DEF Complete, Holding
  <1>4. closing <= k BY <1>1, <1>2, <1>3, HeldFacts
  <1>5. PICK j \in Indices : Holds(t, j) /\ InFlight(j) BY <1>1, <1>3, HeldFacts
  <1>6. completed[k] <= j /\ j < scheduled[k] /\ slot[t] = j % Size /\ x[slot[t]] = k - 1
    BY <1>2, <1>5 DEF Holds
  <1>7. /\ Size \in Nat /\ Size >= 1 /\ 0 \in Level /\ Levels \in Level /\ Owner \in Threads
        /\ j \in Nat /\ j % Size \in Slots /\ Workers \subseteq Threads /\ Levels \in Nat
        /\ \A l \in Level : l \in Nat /\ l <= Levels
    BY ConstantFacts
  <1>8. \A l \in Level : scheduled[l] \in Nat /\ completed[l] \in Nat BY <1>1, CounterFacts
  <1>9. AbsoluteIndex(slot[t], completed[k]) = j
    <2>1. scheduled[0] <= completed[k] + Size BY <1>1, CounterFacts
    <2>2. j < scheduled[0] BY <1>5 DEF InFlight
    <2>3. j < completed[k] + Size BY <1>7, <1>8, <2>1, <2>2
    <2>4. QED BY <1>6, <1>7, <1>8, <2>3, IndexFromSlot
  <1>10. PICK d \in Nat : d = CompletedAfter(k, j)
    BY <1>1, <1>4, <1>6, <1>7, CompletedAfterFacts
  <1>11. /\ completed[k] <= d /\ d <= scheduled[k] /\ (completed[k] = j => d = j + 1)
         /\ \A i \in Nat : completed[k] <= i /\ i < d => i = j \/ x[i % Size] >= k
    BY <1>1, <1>4, <1>6, <1>7, <1>10, CompletedAfterFacts
  <1>12. PICK where \in Places : where = IF t = Owner THEN "read" ELSE "schedule"
    BY DEF Places, WorkerPlaces, OwnerPlaces
  <1>13. /\ completed' = [completed EXCEPT ![k] = d]
         /\ x' = [x EXCEPT ![slot[t]] = @ + 1]
         /\ Broadcast(t, where, k)
         /\ nrels' = IF t = Owner THEN nrels + 1 ELSE nrels
         /\ slot' = [slot EXCEPT ![t] = NoSlot]
         /\ UNCHANGED <<scheduled, active, rels, closing, handled>>
    BY <1>2, <1>9, <1>10, <1>12 DEF Complete
  <1>14. Moves(t, where) BY <1>1, <1>13, BroadcastMoves
  <1>15. CountersInv' /\ \A l \in Level : completed'[l] = IF l = k THEN d ELSE completed[l]
    BY <1>1, <1>4, <1>11, <1>13, CompletedAdvances
  <1>16. /\ x' \in [Slots -> -1..Levels] /\ x'[j % Size] = k
         /\ \A i \in Slots : i # j % Size => x'[i] = x[i]
    <2>1. x \in [Slots -> -1..Levels] BY <1>1 DEF RingInv
    <2>2. k - 1 + 1 = k /\ k \in -1..Levels BY <1>7
    <2>3. QED BY <1>6, <1>7, <1>13, <2>1, <2>2
  <1>17. /\ ~Holding(t)' /\ slot'[t] = NoSlot
         /\ \A u \in Threads \ {t} : (Holding(u)' <=> Holding(u)) /\ slot'[u] = slot[u]
         /\ \A u \in Threads \ {t} : pc'[u] = "work" <=> pc[u] = "work"
         /\ pc'[t] = where /\ where # "work"
    <2>1. slot \in [Threads -> Slots \cup {NoSlot}] BY <1>1 DEF HoldInv
    <2>2. pc'[t] = where BY <1>14 DEF Moves
    <2>3. where # "work" /\ where # "complete" BY <1>12
    <2>4. ~Holding(t)' BY <2>2, <2>3 DEF Holding
    <2>5. \A u \in Threads \ {t} : /\ Holding(u)' <=> Holding(u)
                                   /\ pc'[u] = "work" <=> pc[u] = "work"
      BY <1>14, OthersStay
    <2>6. QED BY <1>13, <2>1, <2>2, <2>3, <2>4, <2>5
  <1>18. RingInv'
    <2>1. ASSUME NEW i \in Indices, NEW l \in Level, InFlight(i)
          PROVE  /\ i < completed'[l] => x'[i % Size] >= l
                 /\ scheduled[l] <= i => x'[i % Size] < l
                 /\ i < scheduled[l] /\ x'[i % Size] = l - 1 =>
                      \E u \in Threads : LevelOfThread(u) = l /\ Holding(u)' /\ slot'[u] = i % Size
      <3>1. i \in Nat /\ i % Size \in Slots BY ConstantFacts
      <3>2. /\ i < completed[l] => x[i % Size] >= l
            /\ scheduled[l] <= i => x[i % Size] < l
            /\ i < scheduled[l] /\ x[i % Size] = l - 1 =>
                 \E u \in Threads : LevelOfThread(u) = l /\ Holding(u) /\ slot[u] = i % Size
        BY <1>1, <2>1 DEF RingInv
      <3>3. CASE i = j
        <4>1. x'[i % Size] = k /\ x[i % Size] = k - 1 BY <1>6, <1>16, <3>3
        <4>2. i < completed'[l] => k >= l
          <5>1. CASE l = k BY <1>7, <5>1
          <5>2. CASE l # k
            <6>1. i < completed[l] => k - 1 >= l BY <3>2, <4>1
            <6>2. QED BY <1>7, <1>15, <5>2, <6>1
          <5>3. QED BY <5>1, <5>2
        <4>3. scheduled[l] <= i => k < l
          <5>1. l < k => scheduled[k] <= scheduled[l] BY <1>1 DEF CountersInv
          <5>2. QED BY <1>6, <1>7, <1>8, <3>3, <5>1
        <4>4. ~(i < scheduled[l] /\ k = l - 1)
          <5>1. k < l => scheduled[l] <= completed[k] BY <1>1 DEF CountersInv
          <5>2. QED BY <1>6, <1>7, <1>8, <3>3, <5>1
        <4>5. QED BY <4>1, <4>2, <4>3, <4>4
      <3>4. CASE i # j
        <4>1. i % Size # j % Size BY <1>1, <1>5, <2>1, <3>4, SameSlot
        <4>2. x'[i % Size] = x[i % Size] BY <1>16, <3>1, <4>1
        <4>3. i < completed'[l] => x[i % Size] >= l
          <5>1. CASE l = k
            <6>1. i < completed[k] \/ completed[k] <= i BY <1>8, <3>1
            <6>2. completed'[l] = d BY <1>15, <5>1
            <6>3. QED BY <1>11, <3>1, <3>2, <3>4, <5>1, <6>1, <6>2
          <5>2. CASE l # k BY <1>15, <3>2, <5>2
          <5>3. QED BY <5>1, <5>2
        <4>4. ASSUME i < scheduled[l], x[i % Size] = l - 1
              PROVE  \E u \in Threads : LevelOfThread(u) = l /\ Holding(u)' /\ slot'[u] = i % Size
          <5>1. PICK u \in Threads : LevelOfThread(u) = l /\ Holding(u) /\ slot[u] = i % Size
            BY <3>2, <4>4
          <5>2. u # t BY <1>6, <4>1, <5>1
          <5>3. QED BY <1>17, <5>1, <5>2
        <4>5. QED BY <3>2, <4>2, <4>3, <4>4
      <3>5. QED BY <3>3, <3>4
    <2>2. \A i \in Indices : InFlight(i)' <=> InFlight(i) BY <1>13 DEF InFlight
    <2>3. QED BY <1>13, <1>16, <2>1, <2>2 DEF RingInv
  <1>19. HoldInv'
    <2>1. slot' \in [Threads -> Slots \cup {NoSlot}] BY <1>1, <1>13 DEF HoldInv
    <2>2. ASSUME NEW u \in Threads \ {t}, NEW i \in Indices, Holding(u), Holds(u, i), InFlight(i)
          PROVE  Holds(u, i)'
      <3>1. PICK l \in Level : l = LevelOfThread(u) BY LevelFacts
      <3>2. completed[l] <= i /\ i < scheduled[l] /\ slot[u] = i % Size /\ x[slot[u]] = l - 1
        BY <2>2, <3>1 DEF Holds
      <3>3. slot[u] # slot[t] BY <1>1, <1>3, <2>2 DEF HoldInv
      <3>4. i \in Nat /\ i % Size \in Slots BY ConstantFacts
      <3>5. x'[slot[u]] = l - 1 BY <1>6, <1>16, <3>2, <3>3, <3>4
      <3>6. completed'[l] <= i
        <4>1. CASE l = k
          <5>1. i # j BY <1>6, <3>2, <3>3
          <5>2. ~(x[i % Size] >= k) BY <1>7, <3>2, <4>1
          <5>3. ~(i < d) BY <1>11, <3>2, <3>4, <4>1, <5>1, <5>2
          <5>4. QED BY <1>15, <3>4, <4>1, <5>3
        <4>2. CASE l # k BY <1>15, <3>2, <4>2
        <4>3. QED BY <4>1, <4>2
      <3>7. slot'[u] = slot[u] /\ scheduled' = scheduled BY <1>13, <1>17
      <3>8. QED BY <3>1, <3>2, <3>5, <3>6, <3>7 DEF Holds
    <2>3. ASSUME NEW u \in Threads
          PROVE  IF Holding(u)' THEN \E i \in Indices : Holds(u, i)' ELSE slot'[u] = NoSlot
      <3>1. CASE u = t BY <1>17, <3>1
      <3>2. CASE u # t
        <4>1. Holding(u) => \E i \in Indices : Holds(u, i) /\ InFlight(i) BY <1>1, HeldFacts
        <4>2. ~Holding(u) => slot[u] = NoSlot BY <1>1 DEF HoldInv
        <4>3. QED BY <1>17, <2>2, <3>2, <4>1, <4>2
      <3>3. QED BY <3>1, <3>2
    <2>4. \A u, v \in Threads : u # v /\ Holding(u)' /\ Holding(v)' => slot'[u] # slot'[v]
      BY <1>1, <1>17 DEF HoldInv
    <2>5. QED BY <2>1, <2>3, <2>4 DEF HoldInv
  <1>20. t = Owner => ~Draining BY <1>3 DEF Draining
  <1>21. ThreadsInv'
    <2>1. \A u \in Workers : pc[u] \in {"leave", "end"} => scheduled'[LevelOf[u]] = scheduled'[0]
      BY <1>1, <1>13 DEF ThreadsInv
    <2>2. "read" \in OwnerPlaces /\ "schedule" \in WorkerPlaces BY DEF OwnerPlaces, WorkerPlaces
    <2>3. closing' = closing BY <1>13
    <2>4. QED BY <1>1, <1>3, <1>12, <1>14, <1>20, <2>1, <2>2, <2>3, ThreadsKept
  <1>22. CountInv'
    <2>1. pc[t] \notin Away /\ where \notin Away BY <1>3, <1>12 DEF Away
    <2>2. active' = active BY <1>13
    <2>3. QED BY <1>1, <1>14, <2>1, <2>2, CountKept
  <1>23. CASE t = Owner
    <2>1. k = 0 /\ pc'[Owner] = "read" /\ nrels' = nrels + 1
      BY <1>2, <1>12, <1>13, <1>17, <1>23, LevelFacts
    <2>2. /\ nrels \in Active /\ Rank(nrels) + 1 = scheduled[0]
          /\ completed[0] + 1 = scheduled[0]
      BY <1>1, <1>3, <1>23 DEF OwnerInv
    <2>3. nrels \in 0..NRels - 1 /\ NRels \in Nat BY <2>2, ActiveFacts
    <2>4. OwnerInv'
      <3>1. Rank(nrels + 1) = scheduled[0] BY <2>2, <2>3, RankStep
      <3>2. nrels' \in 0..NRels BY <2>1, <2>3
      <3>3. ~Holding(Owner)' /\ ~Draining' BY <2>1 DEF Holding, Draining
      <3>4. completed'[0] = scheduled[0]
        <4>1. completed[0] = j BY <1>6, <1>7, <1>8, <2>1, <2>2
        <4>2. d = j + 1 BY <1>11, <2>1, <4>1
        <4>3. QED BY <1>7, <1>15, <2>1, <2>2, <4>1, <4>2
      <3>5. Rank(nrels)' = Rank(nrels + 1) BY <2>1 DEF Rank
      <3>6. QED BY <1>13, <2>1, <3>1, <3>2, <3>3, <3>4, <3>5 DEF OwnerInv
    <2>5. RelsInv'
      <3>1. Put' = Put BY <1>3, <1>13, <1>23, <2>1 DEF Put
      <3>2. QED BY <1>1, <1>13, <3>1 DEF RelsInv
    <2>6. HandledInv'
      <3>1. HandledByOwner' = HandledByOwner
        <4>1. \A a \in Active : a < nrels + 1 <=> a < nrels \/ a = nrels BY <2>3, ActiveFacts
        <4>2. QED BY <1>3, <1>23, <2>1, <4>1 DEF HandledByOwner
      <3>2. \A u \in Workers : slot'[u] = slot[u] /\ (pc'[u] = "work" <=> pc[u] = "work")
        BY <1>17, <1>23, ConstantFacts
      <3>3. \A l \in Level : HandledBy(l)' = HandledBy(l) BY <1>13, <3>2 DEF HandledBy
      <3>4. QED BY <1>1, <1>13, <3>1, <3>3 DEF HandledInv
    <2>7. QED BY <1>15, <1>18, <1>19, <1>21, <1>22, <2>4, <2>5, <2>6 DEF FInv
  <1>24. CASE t # Owner
    <2>1. k # 0 /\ nrels' = nrels BY <1>2, <1>13, <1>24, LevelFacts
    <2>2. completed'[0] = completed[0] BY <1>7, <1>15, <2>1
    <2>3. Owner \in Threads \ {t} BY <1>7, <1>24
    <2>4. /\ pc'[Owner] = "work" <=> pc[Owner] = "work"
          /\ pc'[Owner] = "complete" <=> pc[Owner] = "complete"
          /\ pc'[Owner] \in {"schedule", "bored"} <=> pc[Owner] \in {"schedule", "bored"}
          /\ pc'[Owner] \in {"drain", "drain_bored"} <=> pc[Owner] \in {"drain", "drain_bored"}
          /\ pc'[Owner] = "end" <=> pc[Owner] = "end"
      BY <1>14, <2>3, OthersStay
    <2>5. OwnerInv'
      <3>1. (Draining' <=> Draining) /\ (Holding(Owner)' <=> Holding(Owner))
        BY <2>4 DEF Draining, Holding
      <3>2. Rank(nrels)' = Rank(nrels) BY <2>1 DEF Rank
      <3>3. QED BY <1>1, <1>13, <2>1, <2>2, <2>4, <3>1, <3>2 DEF OwnerInv
    <2>6. RelsInv'
      <3>1. Put' = Put BY <1>13, <2>4 DEF Put
      <3>2. QED BY <1>1, <1>13, <3>1 DEF RelsInv
    <2>7. HandledInv'
      <3>1. HandledByOwner' = HandledByOwner BY <2>1, <2>4 DEF HandledByOwner
      <3>2. \A u \in Workers : /\ pc'[u] = "work" <=> pc[u] = "work"
                               /\ pc[u] = "work" => slot'[u] = slot[u]
        BY <1>3, <1>7, <1>17
      <3>3. \A l \in Level : HandledBy(l)' = HandledBy(l) BY <1>13, <3>2 DEF HandledBy
      <3>4. QED BY <1>1, <1>13, <3>1, <3>3 DEF HandledInv
    <2>8. QED BY <1>15, <1>18, <1>19, <1>21, <1>22, <2>5, <2>6, <2>7 DEF FInv
  <1>25. QED BY <1>23, <1>24

(* The last look of a thread that leaves its level.                        *)
LEMMA LeaveInv ==
    ASSUME FInv, NEW t \in Threads, Leave(t)
    PROVE  FInv'
  <1>1. /\ CountersInv /\ RingInv /\ HoldInv /\ ThreadsInv /\ CountInv /\ OwnerInv
        /\ RelsInv /\ HandledInv
    BY DEF FInv
  <1>2. PICK k \in Level : k = LevelOfThread(t) BY LevelFacts
  <1>3. pc[t] = "leave" /\ ~Holding(t) BY DEF Leave, Holding
  <1>4. t # Owner /\ t \in Workers /\ k = LevelOf[t] /\ k # 0
    <2>1. t # Owner BY <1>1, <1>3 DEF ThreadsInv, OwnerPlaces, WorkerPlaces
    <2>2. QED BY <1>2, <2>1, LevelFacts, ConstantFacts
  <1>5. closing <= k BY <1>1, <1>2, <1>3, <1>4, LevelIsOpen
  <1>6. /\ 0 \in Level /\ Owner \in Threads /\ Workers \subseteq Threads
        /\ \A l \in Level : l \in Nat /\ scheduled[l] \in Nat /\ completed[l] \in Nat
        /\ completed[k] <= scheduled[k]
    BY <1>1, <1>5, CounterFacts, ConstantFacts
  <1>7. PICK d \in Nat : /\ d = CatchUp(completed[k], scheduled[k], k)
                         /\ completed[k] <= d /\ d <= scheduled[k]
                         /\ \A i \in Nat : completed[k] <= i /\ i < d => x[i % Size] >= k
    <2>1. /\ CatchUp(completed[k], scheduled[k], k) \in completed[k]..scheduled[k]
          /\ \A i \in Nat : completed[k] <= i /\ i < CatchUp(completed[k], scheduled[k], k)
                              => x[i % Size] >= k
      BY <1>1, <1>6, CatchUpStops
    <2>2. CatchUp(completed[k], scheduled[k], k) \in Nat BY <1>6, <2>1
    <2>3. QED BY <1>6, <2>1, <2>2
  <1>8. "end" \in Places /\ "end" \in WorkerPlaces BY DEF Places, WorkerPlaces
  <1>9. /\ completed' = [completed EXCEPT ![k] = d]
        /\ active' = [active EXCEPT ![LevelOfThread(t)] = @ - 1]
        /\ Broadcast(t, "end", k)
        /\ UNCHANGED <<scheduled, x, rels, nrels, closing, slot, handled>>
    <2>1. completed' = [completed EXCEPT ![k] = CatchUp(completed[k], scheduled[k], k)]
      BY <1>2 DEF Leave
    <2>2. QED BY <1>2, <1>7, <2>1 DEF Leave
  <1>10. Moves(t, "end") BY <1>1, <1>8, <1>9, BroadcastMoves
  <1>11. CountersInv' /\ \A l \in Level : completed'[l] = IF l = k THEN d ELSE completed[l]
    BY <1>1, <1>5, <1>7, <1>9, CompletedAdvances
  <1>12. SameWork BY <1>3, <1>8, <1>10, MovesSameWork
  <1>13. \A u \in Threads : Holding(u)' <=> Holding(u) BY <1>12 DEF SameWork, Holding
  <1>14. RingInv'
    <2>1. ASSUME NEW i \in Indices, NEW l \in Level, InFlight(i), i < completed'[l]
          PROVE  x[i % Size] >= l
      <3>1. i \in Nat BY ConstantFacts
      <3>2. i < completed[l] => x[i % Size] >= l BY <1>1, <2>1 DEF RingInv
      <3>3. CASE l = k
        <4>1. i < completed[k] \/ completed[k] <= i BY <1>6, <3>1
        <4>2. completed'[l] = d BY <1>11, <3>3
        <4>3. QED BY <1>7, <2>1, <3>1, <3>2, <3>3, <4>1, <4>2
      <3>4. CASE l # k BY <1>11, <2>1, <3>2, <3>4
      <3>5. QED BY <3>3, <3>4
    <2>2. \A i \in Indices : InFlight(i)' <=> InFlight(i) BY <1>9 DEF InFlight
    <2>3. QED BY <1>1, <1>9, <1>13, <2>1, <2>2 DEF RingInv
  <1>15. HoldInv'
    <2>1. ASSUME NEW u \in Threads, NEW i \in Indices, Holds(u, i) PROVE Holds(u, i)'
      <3>1. PICK l \in Level : l = LevelOfThread(u) BY LevelFacts
      <3>2. completed[l] <= i /\ i < scheduled[l] /\ slot[u] = i % Size /\ x[slot[u]] = l - 1
        BY <2>1, <3>1 DEF Holds
      <3>3. i \in Nat BY ConstantFacts
      <3>4. completed'[l] <= i
        <4>1. CASE l = k
          <5>1. ~(x[i % Size] >= k) BY <1>6, <3>2, <4>1
          <5>2. ~(i < d) BY <1>7, <3>2, <3>3, <4>1, <5>1
          <5>3. QED BY <1>11, <3>3, <4>1, <5>2
        <4>2. CASE l # k BY <1>11, <3>2, <4>2
        <4>3. QED BY <4>1, <4>2
      <3>5. QED BY <1>9, <3>1, <3>2, <3>4 DEF Holds
    <2>2. ASSUME NEW u \in Threads
          PROVE  IF Holding(u)' THEN \E i \in Indices : Holds(u, i)' ELSE slot'[u] = NoSlot
      <3>1. IF Holding(u) THEN \E i \in Indices : Holds(u, i) ELSE slot[u] = NoSlot
        BY <1>1 DEF HoldInv
      <3>2. QED BY <1>9, <1>13, <2>1, <3>1
    <2>3. QED BY <1>1, <1>9, <1>13, <2>2 DEF HoldInv
  <1>16. ThreadsInv'
    <2>1. \A u \in Workers : pc[u] \in {"leave", "end"} => scheduled'[LevelOf[u]] = scheduled'[0]
      BY <1>1, <1>9 DEF ThreadsInv
    <2>2. LevelOf[t] <= closing /\ Draining BY <1>1, <1>3, <1>4 DEF ThreadsInv
    <2>3. closing' = closing BY <1>9
    <2>4. scheduled'[LevelOf[t]] = scheduled'[0] BY <1>3, <1>4, <2>1
    <2>5. QED BY <1>1, <1>3, <1>4, <1>8, <1>10, <2>1, <2>2, <2>3, <2>4, ThreadsKept
  <1>17. CountInv'
    <2>1. pc[t] \notin Away /\ "end" \in Away BY <1>3 DEF Away
    <2>2. QED BY <1>1, <1>8, <1>9, <1>10, <2>1, CountOut
  <1>18. OwnerInv'
    <2>1. completed'[0] = completed[0] BY <1>4, <1>6, <1>11
    <2>2. Owner \in Threads \ {t} BY <1>4, <1>6
    <2>3. /\ pc'[Owner] = "work" <=> pc[Owner] = "work"
          /\ pc'[Owner] = "complete" <=> pc[Owner] = "complete"
          /\ pc'[Owner] \in {"schedule", "bored"} <=> pc[Owner] \in {"schedule", "bored"}
          /\ pc'[Owner] \in {"drain", "drain_bored"} <=> pc[Owner] \in {"drain", "drain_bored"}
          /\ pc'[Owner] = "end" <=> pc[Owner] = "end"
      BY <1>8, <1>10, <2>2, OthersStay
    <2>4. (Draining' <=> Draining) /\ (Holding(Owner)' <=> Holding(Owner))
      BY <2>3 DEF Draining, Holding
    <2>5. Rank(nrels)' = Rank(nrels) BY <1>9 DEF Rank
    <2>6. QED BY <1>1, <1>9, <2>1, <2>3, <2>4, <2>5 DEF OwnerInv
  <1>19. RelsInv'
    <2>1. Put' = Put BY <1>6, <1>9, <1>12 DEF Put, SameWork
    <2>2. QED BY <1>1, <1>9, <2>1 DEF RelsInv
  <1>20. HandledInv' BY <1>1, <1>9, <1>12, QuietHandled
  <1>21. QED BY <1>11, <1>14, <1>15, <1>16, <1>17, <1>18, <1>19, <1>20 DEF FInv

(* A level without a thread in it has taken everything and finished it.    *)
LEMMA EmptyLevel ==
    ASSUME FInv, pc[Owner] = "drain", closing \in Level, ~(active[closing] > 0)
    PROVE  /\ \A t \in Threads : LevelOfThread(t) = closing => ~Holding(t)
           /\ \A t \in Workers : LevelOf[t] = closing => pc[t] = "end"
           /\ scheduled[closing] = scheduled[0]
           /\ \A j \in Indices : InFlight(j) => x[j % Size] >= closing
  <1>1. CountersInv /\ RingInv /\ ThreadsInv /\ CountInv BY DEF FInv
  <1>2. Counted(closing) = {}
    <2>1. active[closing] = Cardinality(Counted(closing)) BY <1>1 DEF CountInv
    <2>2. Counted(closing) \subseteq Threads BY DEF Counted
    <2>3. IsFiniteSet(Counted(closing)) BY <2>2, ThreadsFinite, FS_Subset
    <2>4. Cardinality(Counted(closing)) \in Nat BY <2>3, FS_CardinalityType
    <2>5. Cardinality(Counted(closing)) = 0 BY <2>1, <2>4
    <2>6. QED BY <2>3, <2>5, FS_EmptySet
  <1>3. \A t \in Threads : LevelOfThread(t) = closing => ~Holding(t) /\ pc[t] \in Away
    BY <1>2 DEF Counted, Holding, Away
  <1>4. ASSUME NEW t \in Workers, LevelOf[t] = closing PROVE pc[t] = "end"
    <2>1. t \in Threads /\ LevelOfThread(t) = closing BY <1>4, LevelFacts, ConstantFacts
    <2>2. pc[t] \in WorkerPlaces /\ pc[t] # "enter" BY <1>1 DEF ThreadsInv
    <2>3. pc[t] \in Away BY <1>3, <2>1
    <2>4. QED BY <2>2, <2>3 DEF WorkerPlaces, Away
  <1>5. scheduled[closing] = scheduled[0]
    <2>1. CASE closing = 0 BY <2>1
    <2>2. CASE closing # 0
      <3>1. closing \in 1..Levels BY <2>2, ConstantFacts DEF Level
      <3>2. PICK t \in Workers : LevelOf[t] = closing BY <3>1, FilterAssumption
      <3>3. pc[t] = "end" BY <1>4, <3>2
      <3>4. QED BY <1>1, <3>2, <3>3 DEF ThreadsInv
    <2>3. QED BY <2>1, <2>2
  <1>6. ASSUME NEW j \in Indices, InFlight(j) PROVE x[j % Size] >= closing
    <2>1. j \in Nat /\ j % Size \in Slots /\ Levels \in Nat /\ closing \in Nat BY ConstantFacts
    <2>2. x[j % Size] \in -1..Levels BY <1>1, <2>1 DEF RingInv
    <2>3. x[j % Size] \in Int /\ x[j % Size] >= -1 BY <2>1, <2>2
    <2>4. x[j % Size] >= closing - 1
      <3>1. CASE closing = 0 BY <2>3, <3>1
      <3>2. CASE closing # 0
        <4>1. PICK p \in Level : p = closing - 1 BY <3>2, LevelFacts
        <4>2. p < closing /\ p \in Nat BY <2>1, <4>1, ConstantFacts
        <4>3. completed[p] = SizeMax BY <1>1, <4>2 DEF CountersInv
        <4>4. j < SizeMax /\ j <= NRels
          <5>1. SizeMax \in Nat /\ NRels \in Nat /\ Size \in Nat /\ SizeMax > NRels + Size
            BY ConstantFacts
          <5>2. QED BY <2>1, <5>1 DEF Indices
        <4>5. x[j % Size] >= p BY <1>1, <1>6, <4>3, <4>4 DEF RingInv
        <4>6. QED BY <4>1, <4>5
      <3>3. QED BY <3>1, <3>2
    <2>5. x[j % Size] # closing - 1
      <3>1. j < scheduled[closing] BY <1>5, <1>6 DEF InFlight
      <3>2. x[j % Size] = closing - 1 =>
              \E t \in Threads : LevelOfThread(t) = closing /\ Holding(t) /\ slot[t] = j % Size
        BY <1>1, <1>6, <3>1 DEF RingInv
      <3>3. QED BY <1>3, <3>2
    <2>6. QED BY <2>1, <2>3, <2>4, <2>5
  <1>7. QED BY <1>3, <1>4, <1>5, <1>6

LEMMA DrainInv ==
    ASSUME FInv, Drain
    PROVE  FInv'
  <1>1. /\ CountersInv /\ RingInv /\ HoldInv /\ ThreadsInv /\ CountInv /\ OwnerInv
        /\ RelsInv /\ HandledInv
    BY DEF FInv
  <1>2. /\ pc[Owner] = "drain" /\ Draining /\ ~Holding(Owner)
        /\ UNCHANGED <<scheduled, x, active, rels, nrels, slot, handled>>
    BY DEF Drain, Draining, Holding
  <1>3. /\ Owner \in Threads /\ Owner \notin Workers /\ Workers \subseteq Threads
        /\ 0 \in Level /\ Levels \in Level /\ Levels \in Nat /\ Size \in Nat /\ NRels \in Nat
        /\ SizeMax \in Nat /\ SizeMax > NRels + Size /\ Level \subseteq Nat
    BY ConstantFacts
  <1>4. closing \in Level /\ closing \in Nat
    <2>1. closing \in Nat BY <1>1, CounterFacts
    <2>2. closing <= Levels BY DEF Drain
    <2>3. QED BY <1>3, <2>1, <2>2 DEF Level
  <1>5. nrels = NRels BY <1>1, <1>2 DEF OwnerInv
  <1>6. CASE active[closing] > 0
    <2>1. To(Owner, "drain_bored") /\ UNCHANGED <<completed, closing>> BY <1>6 DEF Drain
    <2>2. "drain_bored" \in Places /\ "drain_bored" \in OwnerPlaces BY DEF Places, OwnerPlaces
    <2>3. Moves(Owner, "drain_bored") BY <1>1, <1>3, <2>1, <2>2, ToMoves
    <2>4. CountInv' BY <1>1, <1>2, <1>3, <2>2, <2>3, CountKept DEF Away
    <2>5. QED BY <1>2, <1>3, <1>5, <2>1, <2>2, <2>3, <2>4, QuietMove
  <1>7. CASE ~(active[closing] > 0)
    <2>1. /\ completed' = [completed EXCEPT ![closing] = SizeMax]
          /\ Broadcast(Owner, "drain", closing) /\ closing' = closing + 1
      BY <1>7 DEF Drain
    <2>2. /\ \A t \in Threads : LevelOfThread(t) = closing => ~Holding(t)
          /\ \A t \in Workers : LevelOf[t] = closing => pc[t] = "end"
          /\ scheduled[closing] = scheduled[0]
          /\ \A j \in Indices : InFlight(j) => x[j % Size] >= closing
      BY <1>2, <1>4, <1>7, EmptyLevel
    <2>3. "drain" \in Places /\ "drain" \in OwnerPlaces BY DEF Places, OwnerPlaces
    <2>4. Moves(Owner, "drain") BY <1>1, <1>3, <1>4, <2>1, <2>3, BroadcastMoves
    <2>5. SameWork BY <1>2, <1>3, <2>3, <2>4, MovesSameWork
    <2>6. \A u \in Threads : Holding(u)' <=> Holding(u) BY <2>5 DEF SameWork, Holding
    <2>7. pc'[Owner] = "drain" /\ Draining' /\ ~Holding(Owner)'
      BY <1>2, <1>3, <2>4, <2>6 DEF Moves, Draining
    <2>8. \A l \in Level : completed'[l] = IF l = closing THEN SizeMax ELSE completed[l]
      BY <1>1, <2>1 DEF CountersInv
    <2>9. \A l \in Level : /\ l \in Nat /\ scheduled[l] \in Nat /\ completed[l] \in Nat
                           /\ scheduled[l] <= NRels
      BY <1>1, <1>3, CounterFacts
    <2>10. CountersInv'
      <3>1. completed' \in [Level -> Indices \cup {SizeMax}] BY <1>1, <2>1 DEF CountersInv
      <3>2. closing' \in 0..Levels + 1
        <4>1. closing <= Levels BY DEF Drain
        <4>2. QED BY <1>3, <1>4, <2>1, <4>1
      <3>3. ASSUME NEW l \in Level, l < closing'
            PROVE  completed'[l] = SizeMax /\ scheduled[l] = scheduled[0]
        <4>1. l = closing \/ l < closing BY <1>4, <2>1, <2>9, <3>3
        <4>2. QED BY <1>1, <2>2, <2>8, <4>1 DEF CountersInv
      <3>4. ASSUME NEW l \in Level, closing' <= l PROVE completed'[l] <= scheduled[l]
        <4>1. l # closing /\ closing <= l BY <1>4, <2>1, <2>9, <3>4
        <4>2. QED BY <1>1, <2>8, <4>1 DEF CountersInv
      <3>5. ASSUME NEW l \in Level, NEW m \in Level, l < m
            PROVE  scheduled[m] <= completed'[l] /\ scheduled[m] <= scheduled[l]
        <4>1. scheduled[m] <= completed[l] /\ scheduled[m] <= scheduled[l]
          BY <1>1, <3>5 DEF CountersInv
        <4>2. scheduled[m] <= SizeMax BY <1>3, <2>9
        <4>3. QED BY <2>8, <4>1, <4>2
      <3>6. scheduled[0] <= completed'[Levels] + Size
        <4>1. scheduled[0] <= completed[Levels] + Size BY <1>1 DEF CountersInv
        <4>2. scheduled[0] <= SizeMax + Size BY <1>3, <2>9
        <4>3. QED BY <1>3, <2>8, <4>1, <4>2
      <3>7. scheduled' \in [Level -> Indices] /\ scheduled' = scheduled
        BY <1>1, <1>2 DEF CountersInv
      <3>8. QED BY <3>1, <3>2, <3>3, <3>4, <3>5, <3>6, <3>7 DEF CountersInv
    <2>11. RingInv'
      <3>1. ASSUME NEW j \in Indices, NEW l \in Level, InFlight(j), j < completed'[l]
            PROVE  x[j % Size] >= l
        <4>1. CASE l = closing BY <2>2, <3>1, <4>1
        <4>2. CASE l # closing BY <1>1, <2>8, <3>1, <4>2 DEF RingInv
        <4>3. QED BY <4>1, <4>2
      <3>2. \A j \in Indices : InFlight(j)' <=> InFlight(j) BY <1>2 DEF InFlight
      <3>3. QED BY <1>1, <1>2, <2>6, <3>1, <3>2 DEF RingInv
    <2>12. HoldInv'
      <3>1. ASSUME NEW u \in Threads
            PROVE  IF Holding(u)' THEN \E j \in Indices : Holds(u, j)' ELSE slot'[u] = NoSlot
        <4>1. IF Holding(u) THEN \E j \in Indices : Holds(u, j) ELSE slot[u] = NoSlot
          BY <1>1 DEF HoldInv
        <4>2. Holding(u) => LevelOfThread(u) # closing /\ LevelOfThread(u) \in Level
          BY <2>2, LevelFacts
        <4>3. Holding(u) => completed'[LevelOfThread(u)] = completed[LevelOfThread(u)]
          BY <2>8, <4>2
        <4>4. \A j \in Indices : Holding(u) /\ Holds(u, j) => Holds(u, j)'
          BY <1>2, <4>3 DEF Holds
        <4>5. QED BY <1>2, <2>6, <4>1, <4>4
      <3>2. QED BY <1>1, <1>2, <2>6, <3>1 DEF HoldInv
    <2>13. ThreadsInv'
      <3>1. pc' \in [Threads -> WorkerPlaces \cup OwnerPlaces] BY <2>4 DEF Moves, Places
      <3>2. ASSUME NEW u \in Workers
            PROVE  /\ pc'[u] \in WorkerPlaces /\ pc'[u] # "enter"
                   /\ pc'[u] \in {"leave", "end"} =>
                        LevelOf[u] <= closing' /\ scheduled[LevelOf[u]] = scheduled[0]
                   /\ LevelOf[u] < closing' => pc'[u] = "end"
        <4>1. u \in Threads \ {Owner} BY <1>3
        <4>2. /\ pc'[u] = "leave" <=> pc[u] = "leave"
              /\ pc'[u] = "end" <=> pc[u] = "end"
              /\ pc'[u] = "enter" <=> pc[u] = "enter"
          BY <1>3, <2>3, <2>4, <4>1, OthersStay
        <4>3. \/ pc'[u] = pc[u]
              \/ pc[u] = "bored" /\ pc'[u] = "schedule"
              \/ pc[u] = "drain_bored" /\ pc'[u] = "drain"
          BY <2>4, <4>1 DEF Moves
        <4>4. /\ pc[u] \in WorkerPlaces /\ pc[u] # "enter"
              /\ pc[u] \in {"leave", "end"} =>
                   LevelOf[u] <= closing /\ scheduled[LevelOf[u]] = scheduled[0]
              /\ LevelOf[u] < closing => pc[u] = "end"
          BY <1>1, <1>2 DEF ThreadsInv
        <4>5. pc'[u] \in WorkerPlaces BY <4>3, <4>4 DEF WorkerPlaces
        <4>6. LevelOf[u] \in Nat BY <1>3, LevelFacts
        <4>7. LevelOf[u] < closing' => LevelOf[u] < closing \/ LevelOf[u] = closing
          BY <1>4, <2>1, <4>6
        <4>8. LevelOf[u] <= closing => LevelOf[u] <= closing' BY <1>4, <2>1, <4>6
        <4>9. QED BY <2>2, <4>2, <4>4, <4>5, <4>7, <4>8
      <3>3. QED BY <1>2, <2>3, <2>7, <3>1, <3>2 DEF ThreadsInv
    <2>14. CountInv'
      <3>1. pc[Owner] \in Away /\ "drain" \in Away BY <1>2 DEF Away
      <3>2. QED BY <1>1, <1>2, <1>3, <2>3, <2>4, <3>1, CountKept
    <2>15. OwnerInv'
      <3>1. closing' # 0 BY <1>4, <2>1
      <3>2. Rank(nrels)' = Rank(nrels) BY <1>2 DEF Rank
      <3>3. QED BY <1>1, <1>2, <1>5, <2>7, <3>1, <3>2 DEF OwnerInv
    <2>16. RelsInv'
      <3>1. Put' = Put BY <1>2, <2>7 DEF Put
      <3>2. QED BY <1>1, <1>2, <3>1 DEF RelsInv
    <2>17. HandledInv' BY <1>1, <1>2, <2>5, QuietHandled
    <2>18. QED BY <2>10, <2>11, <2>12, <2>13, <2>14, <2>15, <2>16, <2>17 DEF FInv
  <1>8. QED BY <1>6, <1>7

LEMMA FNextInv == FInv /\ [Next]_vars => FInv'
  <1> SUFFICES ASSUME FInv, [Next]_vars PROVE FInv' OBVIOUS
  <1>1. CASE UNCHANGED vars
    <2>1. UNCHANGED <<completed, scheduled, x, active, rels, nrels, closing, pc, slot, handled>>
      BY <1>1 DEF vars, bufVars
    <2>2. SameWork BY <2>1 DEF SameWork
    <2>3. CountersInv' /\ RingInv' /\ HoldInv' /\ RelsInv' BY <2>1, <2>2, QuietStep DEF FInv
    <2>4. HandledInv' BY <2>1, <2>2, QuietHandled DEF FInv
    <2>5. ThreadsInv' BY <2>1 DEF FInv, ThreadsInv, Draining
    <2>6. CountInv' BY <2>1 DEF FInv, CountInv, Counted
    <2>7. OwnerInv' BY <2>1 DEF FInv, OwnerInv, Draining, Holding, Rank
    <2>8. QED BY <2>3, <2>4, <2>5, <2>6, <2>7 DEF FInv
  <1>2. ASSUME NEW t \in Threads, ThreadStep(t) PROVE FInv'
    <2>1. CASE Enter(t) BY <2>1, EnterInv
    <2>2. CASE Schedule(t) BY <2>2, ScheduleInv
    <2>3. CASE Work(t)
      <3>1. CASE t = Owner BY <2>3, <3>1, OwnerWorks
      <3>2. CASE t # Owner BY <2>3, <3>2, WorkerWorks, ConstantFacts
      <3>3. QED BY <3>1, <3>2
    <2>4. CASE Complete(t) BY <2>4, CompleteInv
    <2>5. CASE Leave(t) BY <2>5, LeaveInv
    <2>6. QED BY <1>2, <2>1, <2>2, <2>3, <2>4, <2>5 DEF ThreadStep
  <1>3. ASSUME NEW t \in Threads, SpuriousWakeup(t) PROVE FInv' BY <1>3, SpuriousWakeupInv
  <1>4. CASE OwnerStep
    BY <1>4, SyncPointInv, ReadRelationInv, StartDrainInv, DrainInv, EndDrainInv DEF OwnerStep
  <1>5. CASE Ended BY <1>1, <1>5 DEF Ended
  <1>6. QED BY <1>1, <1>2, <1>3, <1>4, <1>5 DEF Next

LEMMA FInvHolds == Spec => []FInv
  BY FInitInv, FNextInv, PTL DEF Spec

--------------------------------------------------------------------------------
LEMMA FInvPipelineOrder == FInv => PipelineOrder
  <1> SUFFICES ASSUME FInv PROVE PipelineOrder OBVIOUS
  <1>1. /\ CountersInv /\ RingInv /\ HoldInv /\ ThreadsInv /\ CountInv /\ OwnerInv
        /\ RelsInv /\ HandledInv
    BY DEF FInv
  <1>2. completed \in [Level -> 0..NRels \cup {SizeMax}] /\ scheduled \in [Level -> 0..NRels]
        /\ closing \in 0..Levels + 1
    BY <1>1 DEF CountersInv, Indices
  <1>3. active \in [Level -> 0..Cardinality(Threads)]
    <2>1. ASSUME NEW k \in Level PROVE Cardinality(Counted(k)) \in 0..Cardinality(Threads)
      <3>1. Counted(k) \subseteq Threads BY DEF Counted
      <3>2. IsFiniteSet(Counted(k)) /\ Cardinality(Counted(k)) <= Cardinality(Threads)
        BY <3>1, ThreadsFinite, FS_Subset
      <3>3. Cardinality(Counted(k)) \in Nat /\ Cardinality(Threads) \in Nat
        BY <3>2, ThreadsFinite, FS_CardinalityType
      <3>4. QED BY <3>2, <3>3
    <2>2. QED BY <1>1, <2>1 DEF CountInv
  <1>4. handled \in [Level -> SUBSET (-1..NRels - 1)]
    <2>1. Active \subseteq -1..NRels - 1 BY ActiveFacts
    <2>2. HandledByOwner \in SUBSET (-1..NRels - 1) BY <2>1 DEF HandledByOwner
    <2>3. \A k \in Level : HandledBy(k) \in SUBSET (-1..NRels - 1) BY <2>1 DEF HandledBy
    <2>4. QED BY <1>1, <2>2, <2>3 DEF HandledInv
  <1>5. FilterTypeOK BY <1>1, <1>2, <1>3, <1>4 DEF FilterTypeOK, RingInv, HoldInv, OwnerInv, RelsInv
  <1>6. ASSUME NEW k \in Level, completed[k] # SizeMax PROVE completed[k] <= scheduled[k]
    <2>1. ~(k < closing) /\ closing \in Nat /\ k \in Nat
      BY <1>1, <1>6, CounterFacts, ConstantFacts
    <2>2. closing <= k BY <2>1
    <2>3. QED BY <1>1, <2>2 DEF CountersInv
  <1>7. ASSUME NEW k \in 1..Levels
        PROVE  scheduled[k] <= completed[k - 1] /\ scheduled[k] <= scheduled[k - 1]
    <2>1. k \in Level /\ k - 1 \in Level /\ k - 1 < k BY ConstantFacts DEF Level
    <2>2. QED BY <1>1, <2>1 DEF CountersInv
  <1>8. QED BY <1>1, <1>5, <1>6, <1>7 DEF PipelineOrder, CountersInv

LEMMA FInvOnceAndInOrder == FInv => OnceAndInOrder
  <1> SUFFICES ASSUME FInv PROVE OnceAndInOrder OBVIOUS
  <1>1. /\ CountersInv /\ RingInv /\ HoldInv /\ ThreadsInv /\ CountInv /\ OwnerInv
        /\ RelsInv /\ HandledInv
    BY DEF FInv
  <1>2. /\ Size \in Nat /\ Size >= 1 /\ 0 \in Level /\ Levels \in Level /\ Levels # 0
        /\ Owner \in Threads /\ Workers \subseteq Threads /\ NoSlot \notin Slots
        /\ Level \subseteq Nat
    BY ConstantFacts
  <1>3. ASSUME NEW t \in Threads, pc[t] = "work", NEW u \in Threads \ {t}
        PROVE  slot[u] # slot[t]
    <2>1. Holding(t) BY <1>3 DEF Holding
    <2>2. PICK j \in Indices : Holds(t, j) BY <1>1, <2>1 DEF HoldInv
    <2>3. slot[t] \in Slots BY <2>2, ConstantFacts DEF Holds
    <2>4. CASE Holding(u) BY <1>1, <2>1, <2>4 DEF HoldInv
    <2>5. CASE ~Holding(u)
      <3>1. slot[u] = NoSlot BY <1>1, <2>5 DEF HoldInv
      <3>2. QED BY <1>2, <2>3, <3>1
    <2>6. QED BY <2>4, <2>5
  <1>4. \A l \in Level : scheduled[l] \in Nat /\ completed[l] \in Nat BY <1>1, CounterFacts
  (* The slot the owner overwrites: empty, or handled by the last level.   *)
  <1>5. ASSUME pc[Owner] = "work"
        PROVE  rels[slot[Owner]] = -1 \/ rels[slot[Owner]] \in handled[Levels]
    <2>1. Holding(Owner) /\ ~Draining BY <1>5 DEF Holding, Draining
    <2>2. PICK i \in Indices : Holds(Owner, i) BY <1>1, <1>2, <2>1 DEF HoldInv
    <2>3. i + 1 = scheduled[0] /\ i \in Nat /\ slot[Owner] = i % Size /\ i % Size \in Slots
      <3>1. i + 1 = scheduled[0] BY <1>1, <2>1, <2>2, OwnerHolds
      <3>2. QED BY <2>2, <3>1, ConstantFacts DEF Holds
    <2>4. Put = i BY <1>5, <2>3 DEF Put
    <2>5. CASE i < Size
      <3>1. i % Size = i BY <1>2, <2>3, <2>5
      <3>2. Put <= i % Size BY <2>3, <2>4, <3>1
      <3>3. QED BY <1>1, <2>3, <3>2 DEF RelsInv
    <2>6. CASE ~(i < Size)
      <3>1. PICK j \in Indices : j = i - Size
        <4>1. NRels \in Nat /\ i \in 0..NRels BY ConstantFacts DEF Indices
        <4>2. i - Size \in 0..NRels BY <1>2, <2>3, <2>6, <4>1
        <4>3. QED BY <4>2 DEF Indices
      <3>2. j \in Nat /\ j < i /\ i <= j + Size /\ j + 1 + Size = scheduled[0]
        BY <1>2, <2>3, <2>6, <3>1
      <3>3. j % Size = i % Size
        <4>1. i = j + Size BY <1>2, <2>3, <3>1
        <4>2. QED BY <3>2, <4>1, SlotPeriod
      <3>4. rels[slot[Owner]] \in Active /\ Rank(rels[slot[Owner]]) = j
        BY <1>1, <2>3, <2>4, <3>2, <3>3 DEF RelsInv
      <3>5. j < completed[Levels]
        <4>1. scheduled[0] <= completed[Levels] + Size BY <1>1 DEF CountersInv
        <4>2. QED BY <1>2, <1>4, <3>2, <4>1
      <3>6. closing = 0
        <4>1. closing \in Nat /\ ~(closing > 0) BY <1>1, <2>1, CounterFacts DEF ThreadsInv
        <4>2. QED BY <4>1
      <3>7. completed[Levels] <= scheduled[Levels]
        <4>1. closing <= Levels BY <1>2, <3>6
        <4>2. QED BY <1>1, <1>2, <4>1 DEF CountersInv
      <3>8. j < scheduled[Levels] BY <1>2, <1>4, <3>2, <3>5, <3>7
      <3>9. ASSUME NEW u \in Workers, LevelOf[u] = Levels, pc[u] = "work"
            PROVE  rels[slot[u]] # rels[slot[Owner]]
        <4>1. u \in Threads /\ Holding(u) BY <1>2, <3>9 DEF Holding
        <4>2. PICK m \in Indices : Holds(u, m) /\ InFlight(m) BY <1>1, <4>1, HeldFacts
        <4>3. Rank(rels[slot[u]]) = m BY <1>1, <4>1, <4>2, HeldRelation
        <4>4. completed[Levels] <= m /\ m \in Nat
          BY <3>9, <4>2, LevelFacts, ConstantFacts DEF Holds
        <4>5. m # j BY <1>2, <1>4, <3>2, <3>5, <4>4
        <4>6. QED BY <3>4, <4>3, <4>5
      <3>10. rels[slot[Owner]] \in HandledBy(Levels) BY <3>4, <3>8, <3>9 DEF HandledBy
      <3>11. handled[Levels] = HandledBy(Levels) BY <1>1, <1>2 DEF HandledInv
      <3>12. QED BY <3>10, <3>11
    <2>7. QED BY <2>5, <2>6
  (* A worker's relation.                                                  *)
  <1>6. ASSUME NEW t \in Workers, pc[t] = "work"
        PROVE  rels[slot[t]] \in handled[LevelOf[t] - 1] \ handled[LevelOf[t]]
    <2>1. PICK k \in Level : k = LevelOf[t] BY LevelFacts
    <2>2. PICK p \in Level : p = k - 1 BY <2>1, LevelFacts
    <2>3. k # 0 /\ k \in Nat /\ p \in Nat /\ p < k /\ LevelOfThread(t) = k /\ t \in Threads
      BY <1>2, <2>1, <2>2, LevelFacts
    <2>4. Holding(t) BY <1>6 DEF Holding
    <2>5. PICK j \in Indices : Holds(t, j) /\ InFlight(j) BY <1>1, <2>3, <2>4, HeldFacts
    <2>6. /\ j < Put /\ rels[slot[t]] \in Active /\ Rank(rels[slot[t]]) = j
      BY <1>1, <2>4, <2>5, HeldRelation
    <2>7. j < scheduled[k] /\ slot[t] = j % Size /\ x[slot[t]] = k - 1 /\ j \in Nat
      BY <2>3, <2>5, ConstantFacts DEF Holds
    <2>8. rels[slot[t]] \notin handled[k]
      <3>1. handled[k] = HandledBy(k) BY <1>1, <2>3 DEF HandledInv
      <3>2. QED BY <1>6, <2>1, <3>1 DEF HandledBy
    <2>9. rels[slot[t]] \in handled[p]
      <3>1. CASE p = 0
        <4>1. PICK a \in Active : a = rels[slot[t]] BY <2>6
        <4>2. a \in 0..NRels /\ nrels \in 0..NRels BY <1>1, ActiveFacts DEF OwnerInv
        <4>3. Rank(a) = j /\ Rank(nrels) \in Nat BY <2>6, <4>1, <4>2, RankType
        <4>4. nrels < a => nrels \notin Active \/ Rank(nrels) < Rank(a) BY <4>2, RankStrict
        <4>5. nrels <= a => Rank(nrels) <= Rank(a) BY <4>2, RankMono
        <4>6. CASE pc[Owner] = "complete"
          <5>1. nrels \in Active /\ Rank(nrels) + 1 = scheduled[0]
            BY <1>1, <4>6 DEF OwnerInv, Holding
          <5>2. j < scheduled[0] BY <2>5 DEF InFlight
          <5>3. ~(nrels < a) BY <1>4, <2>7, <4>3, <4>4, <5>1, <5>2
          <5>4. a < nrels \/ a = nrels BY <4>2, <5>3
          <5>5. QED BY <1>1, <3>1, <4>1, <4>6, <5>4 DEF HandledInv, HandledByOwner
        <4>7. CASE pc[Owner] # "complete"
          <5>1. Rank(nrels) = Put
            <6>1. CASE pc[Owner] = "work"
              <7>1. Rank(nrels) + 1 = scheduled[0] BY <1>1, <6>1 DEF OwnerInv, Holding
              <7>2. QED BY <4>3, <6>1, <7>1 DEF Put
            <6>2. CASE pc[Owner] # "work"
              <7>1. Rank(nrels) = scheduled[0] BY <1>1, <4>7, <6>2 DEF OwnerInv, Holding
              <7>2. QED BY <6>2, <7>1 DEF Put
            <6>3. QED BY <6>1, <6>2
          <5>2. ~(nrels <= a) BY <2>6, <2>7, <4>3, <4>5, <5>1
          <5>3. a < nrels BY <4>2, <5>2
          <5>4. QED BY <1>1, <3>1, <4>1, <5>3 DEF HandledInv, HandledByOwner
        <4>8. QED BY <4>6, <4>7
      <3>2. CASE p # 0
        <4>1. handled[p] = HandledBy(p) BY <1>1, <3>2 DEF HandledInv
        <4>2. scheduled[k] <= scheduled[p] BY <1>1, <2>3 DEF CountersInv
        <4>3. j < scheduled[p] BY <1>4, <2>7, <4>2
        <4>4. ASSUME NEW u \in Workers, LevelOf[u] = p, pc[u] = "work"
              PROVE  rels[slot[u]] # rels[slot[t]]
          <5>1. u \in Threads /\ Holding(u) /\ LevelOfThread(u) = p
            BY <1>2, <4>4, LevelFacts DEF Holding
          <5>2. PICK m \in Indices : Holds(u, m) /\ InFlight(m) BY <1>1, <5>1, HeldFacts
          <5>3. Rank(rels[slot[u]]) = m BY <1>1, <5>1, <5>2, HeldRelation
          <5>4. slot[u] = m % Size BY <5>2 DEF Holds
          <5>5. u # t BY <2>1, <2>3, <4>4
          <5>6. slot[u] # slot[t] BY <1>1, <2>3, <2>4, <5>1, <5>5 DEF HoldInv
          <5>7. QED BY <2>6, <2>7, <5>3, <5>4, <5>6
        <4>5. QED BY <2>6, <4>1, <4>3, <4>4 DEF HandledBy
      <3>3. QED BY <3>1, <3>2
    <2>10. QED BY <2>1, <2>2, <2>8, <2>9
  <1>7. QED BY <1>3, <1>5, <1>6, LevelFacts, ConstantFacts DEF OnceAndInOrder

LEMMA FInvIndexRecovered == FInv => IndexRecovered
  <1> SUFFICES ASSUME FInv, NEW t \in Threads, pc[t] = "complete"
               PROVE  /\ AbsoluteIndex(slot[t], completed[LevelOfThread(t)])
                           = Rank(rels[slot[t]])
                      /\ x[slot[t]] = LevelOfThread(t) - 1
    BY DEF IndexRecovered, Rank
  <1>1. CountersInv /\ HoldInv /\ ThreadsInv /\ OwnerInv /\ RelsInv BY DEF FInv
  <1>2. Holding(t) BY DEF Holding
  <1>3. PICK k \in Level : k = LevelOfThread(t) BY LevelFacts
  <1>4. PICK j \in Indices : Holds(t, j) /\ InFlight(j) BY <1>1, <1>2, HeldFacts
  <1>5. completed[k] <= j /\ slot[t] = j % Size /\ x[slot[t]] = k - 1 BY <1>3, <1>4 DEF Holds
  <1>6. /\ j \in Nat /\ Size \in Nat /\ Size >= 1 /\ completed[k] \in Nat /\ scheduled[0] \in Nat
        /\ scheduled[0] <= completed[k] + Size
    BY <1>1, CounterFacts, ConstantFacts
  <1>7. j < scheduled[0] /\ scheduled[0] <= j + Size BY <1>4 DEF InFlight
  <1>8. AbsoluteIndex(slot[t], completed[k]) = j
    <2>1. j < completed[k] + Size BY <1>6, <1>7
    <2>2. QED BY <1>5, <1>6, <2>1, IndexFromSlot
  <1>9. Rank(rels[slot[t]]) = j
    <2>1. CASE t = Owner
      <3>1. Put = scheduled[0] BY <2>1 DEF Put
      <3>2. QED BY <1>1, <1>5, <1>7, <3>1 DEF RelsInv
    <2>2. CASE t # Owner BY <1>1, <1>2, <1>4, <2>2, HeldRelation, ConstantFacts
    <2>3. QED BY <2>1, <2>2
  <1>10. QED BY <1>3, <1>5, <1>8, <1>9

LEMMA FInvClosedMeansHandled == FInv => ClosedMeansHandled
  <1> SUFFICES ASSUME FInv, NEW k \in Level, completed[k] = SizeMax
               PROVE  /\ handled[k] = Active
                      /\ \A t \in Workers : LevelOf[t] = k => pc[t] = "end"
    BY DEF ClosedMeansHandled
  <1>1. CountersInv /\ ThreadsInv /\ OwnerInv /\ HandledInv BY DEF FInv
  <1>2. k < closing /\ closing \in Nat /\ k \in Nat BY <1>1, CounterFacts, ConstantFacts
  <1>3. \A t \in Workers : LevelOf[t] = k => pc[t] = "end" BY <1>1, <1>2 DEF ThreadsInv
  <1>4. Draining /\ nrels = NRels
    <2>1. closing > 0 BY <1>2
    <2>2. QED BY <1>1, <2>1 DEF ThreadsInv, OwnerInv
  <1>5. Rank(NRels) = scheduled[0]
    <2>1. ~Holding(Owner) BY <1>4 DEF Draining, Holding
    <2>2. QED BY <1>1, <1>4, <2>1 DEF OwnerInv
  <1>6. CASE k = 0
    <2>1. HandledByOwner = Active BY <1>4, ActiveFacts DEF HandledByOwner
    <2>2. QED BY <1>1, <1>3, <1>6, <2>1 DEF HandledInv
  <1>7. CASE k # 0
    <2>1. scheduled[k] = scheduled[0] BY <1>1, <1>2 DEF CountersInv
    <2>2. ASSUME NEW a \in Active PROVE Rank(a) < scheduled[k]
      <3>1. a < NRels /\ NRels \in 0..NRels BY ActiveFacts
      <3>2. QED BY <1>5, <2>1, <3>1, RankStrict
    <2>3. \A t \in Workers : ~(LevelOf[t] = k /\ pc[t] = "work") BY <1>3
    <2>4. HandledBy(k) = Active BY <2>2, <2>3 DEF HandledBy
    <2>5. handled[k] = HandledBy(k) BY <1>1, <1>7 DEF HandledInv
    <2>6. QED BY <1>3, <2>4, <2>5
  <1>8. QED BY <1>6, <1>7

(* The counters keep the order that the comment next to them states, for   *)
(* any number of levels and threads, and the variables their types.        *)
THEOREM PipelineIsOrdered == Spec => []PipelineOrder
  BY FInvHolds, FInvPipelineOrder, PTL

(* schedule() hands a level each relation once, after the level before it, *)
(* and gives the owner no slot whose relation is still needed.             *)
THEOREM RelationsOnceAndInOrder == Spec => []OnceAndInOrder
  BY FInvHolds, FInvOnceAndInOrder, PTL

(* complete() recovers the index of the relation from its slot.            *)
THEOREM IndicesAreRecovered == Spec => []IndexRecovered
  BY FInvHolds, FInvIndexRecovered, PTL

(* drain() closes a level only when its threads are gone and have handled  *)
(* every active relation.                                                  *)
THEOREM ClosedLevelsAreDone == Spec => []ClosedMeansHandled
  BY FInvHolds, FInvClosedMeansHandled, PTL
===============================================================================
