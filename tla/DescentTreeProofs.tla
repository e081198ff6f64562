-------------------------- MODULE DescentTreeProofs --------------------------
(***************************************************************************)
(* Proofs about the special-q tree of DescentTree, for any number of       *)
(* subjobs, relations, special-q's and attempts.                           *)
(*                                                                         *)
(* The functions that go up the tree (NowDone, Failing, UnfinishedBelow,   *)
(* Above) exist because a parent is older than its children, by the        *)
(* least-number principle.  PlaceInv, the inductive invariant, says where  *)
(* each node is and that what is unfinished hangs below nodes that wait    *)
(* for it; LoopInv, SplitInv and CountInv are proved on top of it.         *)
(***************************************************************************)
EXTENDS DescentTree, FiniteSetTheorems, SequenceTheorems, WellFoundedInduction, TLAPS

(* The least-number principle.                                             *)
LEMMA LeastNat ==
    ASSUME NEW T \in SUBSET Nat, T # {}
    PROVE  \E m \in T : \A n \in T : m <= n
  <1> DEFINE R == OpToRel(<, Nat)
  <1>1. IsWellFoundedOn(R, Nat) BY NatLessThanWellFounded
  <1>2. \A m, n \in Nat : <<n, m>> \in R <=> n < m BY DEF OpToRel
  <1> HIDE DEF R
  <1>3. PICK m \in T : \A n \in T : ~(<<n, m>> \in R) BY <1>1, WFMin
  <1>4. ASSUME NEW n \in T PROVE m <= n
    <2>1. m \in Nat /\ n \in Nat OBVIOUS
    <2>2. ~(n < m) BY <1>2, <1>3, <2>1
    <2>3. QED BY <2>1, <2>2
  <1>5. QED BY <1>4

(***************************************************************************)
(* A parent is older than its children, so that a function that goes up    *)
(* the tree exists: base[m], and what the parent has if m is in Cont.      *)
(***************************************************************************)
Older(par, c) == c \in Nat /\ \A m \in 1..c : par[m] \in 0..m - 1

Upward(f, c, par, base, Cont) ==
    /\ f \in [0..c -> SUBSET (0..c)]
    /\ \A m \in 0..c : /\ m \in Cont => f[m] = base[m] \cup f[par[m]]
                       /\ m \notin Cont => f[m] = base[m]

LEMMA UpwardFunction ==
    ASSUME NEW c, NEW par, Older(par, c),
           NEW base, base \in [0..c -> SUBSET (0..c)], NEW Cont, Cont \in SUBSET (1..c)
    PROVE  \E f : Upward(f, c, par, base, Cont)
  <1> USE DEF Older, Upward
  <1> DEFINE Fs == [0..c -> SUBSET (0..c)]
             Eq(f, m) == /\ m \in Cont => f[m] = base[m] \cup f[par[m]]
                         /\ m \notin Cont => f[m] = base[m]
             T == {k \in 0..c : ~\E f \in Fs : \A m \in 0..k : Eq(f, m)}
  <1>1. ASSUME T = {} PROVE \E f \in Fs : \A m \in 0..c : Eq(f, m)
    <2>1. c \in 0..c /\ c \notin T
      <3> HIDE DEF T
      <3> QED BY <1>1
    <2>2. QED BY <2>1
  <1>2. SUFFICES ASSUME T # {} PROVE FALSE BY <1>1
  <1>3. PICK k \in T : \A n \in T : k <= n
    <2>1. T \in SUBSET Nat OBVIOUS
    <2> HIDE DEF T
    <2>2. QED BY <1>2, <2>1, LeastNat
  <1>4. k \in 0..c OBVIOUS
  <1>5. CASE k = 0
    <2>1. \A m \in 0..k : Eq(base, m)
      <3>1. \A m \in 0..k : m = 0 BY <1>5
      <3>2. 0 \notin Cont OBVIOUS
      <3>3. QED BY <3>1, <3>2
    <2>2. QED BY <1>3, <2>1
  <1>6. CASE k # 0
    <2>1. k - 1 \in 0..c /\ k - 1 \notin T
      <3> HIDE DEF T
      <3> QED BY <1>3, <1>4, <1>6
    <2>2. PICK f \in Fs : \A m \in 0..k - 1 : Eq(f, m) BY <2>1
    <2>3. par[k] \in 0..k - 1 BY <1>4, <1>6
    <2> DEFINE v == IF k \in Cont THEN base[k] \cup f[par[k]] ELSE base[k]
               g == [f EXCEPT ![k] = v]
    <2>4. v \in SUBSET (0..c)
      <3>1. par[k] \in 0..c BY <1>4, <2>3
      <3>2. QED BY <1>4, <3>1
    <2>5. g \in Fs BY <2>4
    <2>6. g[k] = v /\ \A m \in 0..k - 1 : g[m] = f[m] BY <1>4
    <2> HIDE DEF g
    <2>7. ASSUME NEW m \in 0..k PROVE Eq(g, m)
      <3>1. CASE m = k BY <2>3, <2>6, <3>1
      <3>2. CASE m # k
        <4>1. m \in 0..k - 1 BY <1>4, <3>2
        <4>2. Eq(f, m) BY <2>2, <4>1
        <4>3. m # 0 => par[m] \in 0..k - 1
          <5>1. m # 0 => m \in 1..c BY <1>4
          <5>2. m # 0 => par[m] \in 0..m - 1 BY <5>1
          <5>3. QED BY <1>4, <4>1, <5>2
        <4>4. QED BY <2>6, <4>1, <4>2, <4>3
      <3>3. QED BY <3>1, <3>2
    <2>8. QED BY <2>5, <2>7
  <1>7. QED BY <1>5, <1>6

TreeShape == created \in Nat /\ parent \in [Nodes -> Nodes] /\ Older(parent, created)

(* What done_node_unlocked() visits above m.                               *)
UpStops(m) == ~({c \in Children(parent[m]) : Unfinished(c)} \subseteq {m})

LEMMA NowDoneUp ==
    ASSUME TreeShape, NEW n \in Nodes
    PROVE  \E up : /\ NowDone(n) = up[n]
                   /\ up[Forest] = {}
                   /\ \A m \in Nodes \ {Forest} :
                        up[m] = {m} \cup (IF UpStops(m) THEN {} ELSE up[parent[m]])
  <1> DEFINE base == [m \in 0..created |-> IF m = 0 THEN {} ELSE {m}]
             Cont == {m \in 1..created : ~UpStops(m)}
  <1>1. created \in Nat /\ Nodes = 0..created BY DEF TreeShape, Nodes
  <1>2. PICK f : Upward(f, created, parent, base, Cont)
    <2>1. base \in [0..created -> SUBSET (0..created)] BY <1>1
    <2>2. Cont \in SUBSET (1..created) OBVIOUS
    <2>3. Older(parent, created) BY DEF TreeShape
    <2> HIDE DEF base, Cont
    <2>4. QED BY <2>1, <2>2, <2>3, UpwardFunction
  <1> DEFINE E(g) == [m \in Nodes |-> IF m = Forest THEN {}
                 ELSE {m} \cup (IF {c \in Children(parent[m]) : Unfinished(c)} \subseteq {m}
                         THEN g[parent[m]] ELSE {})]
  <1>3. f = E(f)
    <2>1. ASSUME NEW m \in Nodes PROVE f[m] = E(f)[m]
      <3>1. CASE m = 0 BY <1>1, <1>2, <3>1 DEF Forest, Upward
      <3>2. CASE m # 0
        <4>1. m \in 1..created BY <1>1, <3>2
        <4>2. f[m] = {m} \cup (IF UpStops(m) THEN {} ELSE f[parent[m]]) BY <1>1, <1>2, <4>1 DEF Upward
        <4>3. QED BY <3>2, <4>2 DEF Forest, UpStops
      <3>3. QED BY <3>1, <3>2
    <2>2. QED BY <1>1, <1>2, <2>1 DEF Upward
  <1> DEFINE up == CHOOSE g : g = E(g)
  <1>4. up = E(up) BY <1>3
  <1>5. NowDone(n) = up[n] BY DEF NowDone
  <1> HIDE DEF up
  <1>6. up[Forest] = {} BY <1>1, <1>4 DEF Forest
  <1>7. ASSUME NEW m \in Nodes \ {Forest}
        PROVE  up[m] = {m} \cup (IF UpStops(m) THEN {} ELSE up[parent[m]])
    BY <1>4 DEF UpStops
  <1>8. QED BY <1>5, <1>6, <1>7

(* What abandon_node_unlocked() visits above m.                            *)
LEMMA FailingUp ==
    ASSUME TreeShape, NEW n \in Nodes
    PROVE  \E f : /\ Failing(n) = f[n]
                  /\ \A m \in Nodes :
                       f[m] = IF status[m] = ABANDONED THEN {}
                              ELSE {m} \cup (IF m = Forest \/ MayRetry(m) THEN {} ELSE f[parent[m]])
  <1> DEFINE base == [m \in 0..created |-> IF status[m] = ABANDONED THEN {} ELSE {m}]
             Cont == {m \in 1..created : status[m] # ABANDONED /\ ~MayRetry(m)}
  <1>1. created \in Nat /\ Nodes = 0..created BY DEF TreeShape, Nodes
  <1>2. PICK f : Upward(f, created, parent, base, Cont)
    <2>1. base \in [0..created -> SUBSET (0..created)] BY <1>1
    <2>2. Cont \in SUBSET (1..created) OBVIOUS
    <2>3. Older(parent, created) BY DEF TreeShape
    <2> HIDE DEF base, Cont
    <2>4. QED BY <2>1, <2>2, <2>3, UpwardFunction
  <1> DEFINE E(g) == [m \in Nodes |->
          IF status[m] = ABANDONED THEN {}
          ELSE {m} \cup (IF m = Forest \/ MayRetry(m) THEN {} ELSE g[parent[m]])]
  <1>3. f = E(f)
    <2>1. ASSUME NEW m \in Nodes PROVE f[m] = E(f)[m]
      <3>1. CASE m = 0 BY <1>1, <1>2, <3>1 DEF Forest, Upward
      <3>2. CASE m # 0
        <4>1. m \in 1..created BY <1>1, <3>2
        <4>2. QED BY <1>1, <1>2, <3>2, <4>1 DEF Upward, Forest
      <3>3. QED BY <3>1, <3>2
    <2>2. QED BY <1>1, <1>2, <2>1 DEF Upward
  <1> DEFINE up == CHOOSE g : g = E(g)
  <1>4. up = E(up) BY <1>3
  <1>5. Failing(n) = up[n] BY DEF Failing
  <1> HIDE DEF up
  <1>6. ASSUME NEW m \in Nodes
        PROVE  up[m] = IF status[m] = ABANDONED THEN {}
                       ELSE {m} \cup (IF m = Forest \/ MayRetry(m) THEN {} ELSE up[parent[m]])
    BY <1>4
  <1>7. QED BY <1>5, <1>6

(* What is abandoned below F: a node with something left to do, if its     *)
(* parent is in F or is abandoned with it.                                 *)
LEMMA BelowIs ==
    ASSUME TreeShape, NEW F
    PROVE  \A m \in Nodes : m \in UnfinishedBelow(F) <=>
               m # Forest /\ Unfinished(m) /\ (parent[m] \in F \cup UnfinishedBelow(F))
  <1> DEFINE base == [m \in 0..created |->
                        IF m # 0 /\ Unfinished(m) /\ parent[m] \in F THEN {0} ELSE {}]
             Cont == {m \in 1..created : Unfinished(m)}
  <1>1. created \in Nat /\ Nodes = 0..created BY DEF TreeShape, Nodes
  <1>2. PICK f : Upward(f, created, parent, base, Cont)
    <2>1. base \in [0..created -> SUBSET (0..created)] BY <1>1
    <2>2. Cont \in SUBSET (1..created) OBVIOUS
    <2>3. Older(parent, created) BY DEF TreeShape
    <2> HIDE DEF base, Cont
    <2>4. QED BY <2>1, <2>2, <2>3, UpwardFunction
  <1> DEFINE E(g) == [m \in Nodes |->
          /\ m # Forest
          /\ Unfinished(m)
          /\ parent[m] \in F \/ g[parent[m]]]
             h == [m \in Nodes |-> f[m] # {}]
  <1>3. h = E(h)
    <2>1. ASSUME NEW m \in Nodes PROVE h[m] = E(h)[m]
      <3>1. CASE m = 0
        <4>1. f[m] = {} BY <1>1, <1>2, <3>1 DEF Upward
        <4>2. QED BY <3>1, <4>1 DEF Forest
      <3>2. CASE m # 0
        <4>1. m \in 1..created BY <1>1, <3>2
        <4>2. parent[m] \in Nodes BY DEF TreeShape
        <4>3. (f[m] # {}) <=> Unfinished(m) /\ (parent[m] \in F \/ f[parent[m]] # {})
          BY <1>1, <1>2, <3>2, <4>1 DEF Upward
        <4>4. QED BY <3>2, <4>2, <4>3 DEF Forest
      <3>3. QED BY <3>1, <3>2
    <2>2. QED BY <2>1
  <1> DEFINE below == CHOOSE g : g = E(g)
  <1>4. below = E(below) BY <1>3
  <1>5. UnfinishedBelow(F) = {m \in Nodes : below[m]} BY DEF UnfinishedBelow
  <1> HIDE DEF below
  <1>6. ASSUME NEW m \in Nodes
        PROVE  m \in UnfinishedBelow(F) <=>
                 m # Forest /\ Unfinished(m) /\ (parent[m] \in F \cup UnfinishedBelow(F))
    <2>1. parent[m] \in Nodes BY DEF TreeShape
    <2>2. below[m] <=> m # Forest /\ Unfinished(m) /\ (parent[m] \in F \/ below[parent[m]])
      BY <1>4
    <2>3. QED BY <1>5, <2>1, <2>2
  <1>7. QED BY <1>6

AboveEqs ==
    /\ Above[Forest] = {}
    /\ \A m \in Nodes \ {Forest} : Above[m] = {parent[m]} \cup Above[parent[m]]

LEMMA AboveIs == TreeShape => AboveEqs
  <1> SUFFICES ASSUME TreeShape
               PROVE  /\ Above[Forest] = {}
                      /\ \A m \in Nodes \ {Forest} : Above[m] = {parent[m]} \cup Above[parent[m]]
    BY DEF AboveEqs
  <1> DEFINE base == [m \in 0..created |-> IF m = 0 THEN {} ELSE {parent[m]}]
             Cont == 1..created
  <1>1. created \in Nat /\ Nodes = 0..created BY DEF TreeShape, Nodes
  <1>2. PICK f : Upward(f, created, parent, base, Cont)
    <2>1. base \in [0..created -> SUBSET (0..created)] BY <1>1 DEF TreeShape
    <2>2. Cont \in SUBSET (1..created) OBVIOUS
    <2>3. Older(parent, created) BY DEF TreeShape
    <2> HIDE DEF base, Cont
    <2>4. QED BY <2>1, <2>2, <2>3, UpwardFunction
  <1> DEFINE E(g) == [m \in Nodes |-> IF m = Forest THEN {} ELSE {parent[m]} \cup g[parent[m]]]
  <1>3. f = E(f)
    <2>1. ASSUME NEW m \in Nodes PROVE f[m] = E(f)[m]
      <3>1. CASE m = 0 BY <1>1, <1>2, <3>1 DEF Forest, Upward
      <3>2. CASE m # 0
        <4>1. m \in 1..created BY <1>1, <3>2
        <4>2. QED BY <1>1, <1>2, <3>2, <4>1 DEF Upward, Forest
      <3>3. QED BY <3>1, <3>2
    <2>2. QED BY <1>1, <1>2, <2>1 DEF Upward
  <1> DEFINE up == CHOOSE g : g = E(g)
  <1>4. up = E(up) BY <1>3
  <1>5. Above = up BY DEF Above
  <1> HIDE DEF up
  <1>6. Forest \in Nodes BY <1>1 DEF Forest
  <1>7. QED BY <1>4, <1>5, <1>6


-----------------------------------------------------------------------------
(* A node with something left to do hangs below nodes in recursion.        *)
ParentsWait ==
    \A n \in Nodes \ {Forest} :
        Unfinished(n) => parent[n] = Forest \/ status[parent[n]] = IN_RECURSION

ShapeInv ==
    /\ TreeShape
    /\ status \in [Nodes -> Statuses]
    /\ status[Forest] \in {IN_RECURSION, ABANDONED}
    /\ ParentsWait

LEMMA NodeFacts ==
    ASSUME ShapeInv
    PROVE  /\ created \in Nat /\ Nodes \subseteq Nat /\ Forest \in Nodes
           /\ \A m \in Nodes : status[m] \in Statuses /\ parent[m] \in Nodes
           /\ \A m \in Nodes \ {Forest} : parent[m] < m
           /\ IsFiniteSet(Nodes)
  <1>1. created \in Nat BY DEF ShapeInv, TreeShape
  <1>2. Nodes = 0..created BY DEF Nodes
  <1>3. IsFiniteSet(Nodes) BY <1>1, <1>2, FS_Interval
  <1>4. ASSUME NEW m \in Nodes \ {Forest} PROVE parent[m] < m
    <2>1. m \in 1..created BY <1>1, <1>2 DEF Forest
    <2>2. parent[m] \in 0..m - 1 BY <2>1 DEF ShapeInv, TreeShape, Older
    <2>3. QED BY <1>1, <2>1, <2>2
  <1>5. \A m \in Nodes : status[m] \in Statuses /\ parent[m] \in Nodes
    BY DEF ShapeInv, TreeShape
  <1>6. QED BY <1>1, <1>2, <1>3, <1>4, <1>5 DEF Forest

(* done_node_unlocked(): n and nodes above it in recursion whose children  *)
(* with something left to do are done with them.                           *)
DoneSet(D, n) ==
    /\ D \subseteq Nodes \ {Forest}
    /\ \A m \in D : m = n \/ status[m] = IN_RECURSION
    /\ \A m \in D : m # n => \A c \in Children(m) : Unfinished(c) => c \in D

LEMMA NowDoneFacts ==
    ASSUME ShapeInv, NEW n \in Nodes \ {Forest}, Unfinished(n)
    PROVE  n \in NowDone(n) /\ DoneSet(NowDone(n), n)
  <1>0. TreeShape BY DEF ShapeInv
  <1>1. PICK up : /\ NowDone(n) = up[n]
                  /\ up[Forest] = {}
                  /\ \A m \in Nodes \ {Forest} :
                        up[m] = {m} \cup (IF UpStops(m) THEN {} ELSE up[parent[m]])
    BY <1>0, NowDoneUp
  <1> DEFINE Good(x) == x \in up[x] /\ DoneSet(up[x], x)
             T == {x \in Nodes \ {Forest} : Unfinished(x) /\ ~Good(x)}
  <1>2. SUFFICES ASSUME T # {} PROVE FALSE BY <1>1
  <1>3. PICK x \in T : \A y \in T : x <= y
    <2>1. T \in SUBSET Nat BY NodeFacts
    <2> HIDE DEF T
    <2>2. QED BY <1>2, <2>1, LeastNat
  <1>4. x \in Nodes \ {Forest} /\ Unfinished(x) /\ ~Good(x) BY <1>3
  <1>5. /\ x \in Nat /\ parent[x] \in Nat /\ parent[x] < x /\ parent[x] \in Nodes
        /\ up[x] = {x} \cup (IF UpStops(x) THEN {} ELSE up[parent[x]])
    BY <1>1, <1>4, NodeFacts
  <1>6. parent[x] \notin T
    <2> HIDE DEF T
    <2>1. QED BY <1>3, <1>5
  <1>7. CASE UpStops(x) \/ parent[x] = Forest
    <2>1. up[x] = {x} BY <1>1, <1>5, <1>7
    <2>2. QED BY <1>4, <2>1 DEF DoneSet
  <1>8. CASE ~UpStops(x) /\ parent[x] # Forest
    <2>1. status[parent[x]] = IN_RECURSION BY <1>4, <1>8 DEF ShapeInv, ParentsWait
    <2>2. Good(parent[x]) BY <1>5, <1>6, <1>8, <2>1 DEF Unfinished
    <2>3. up[x] = {x} \cup up[parent[x]] BY <1>5, <1>8
    <2>4. \A c \in Children(parent[x]) : Unfinished(c) => c = x BY <1>8 DEF UpStops
    <2>5. x \in up[x] /\ up[x] \subseteq Nodes \ {Forest} BY <1>4, <2>2, <2>3 DEF DoneSet
    <2>6. \A m \in up[x] : m = x \/ status[m] = IN_RECURSION BY <2>1, <2>2, <2>3 DEF DoneSet
    <2>7. ASSUME NEW m \in up[x], m # x, NEW c \in Children(m), Unfinished(c) PROVE c \in up[x]
      <3>1. m \in up[parent[x]] BY <2>3, <2>7
      <3>2. CASE m = parent[x] BY <2>4, <2>5, <2>7, <3>2
      <3>3. CASE m # parent[x] BY <2>2, <2>3, <2>7, <3>1, <3>3 DEF DoneSet
      <3>4. QED BY <3>2, <3>3
    <2>8. Good(x) BY <2>5, <2>6, <2>7 DEF DoneSet
    <2>9. QED BY <1>4, <2>8
  <1>9. QED BY <1>7, <1>8

(* abandon_node_unlocked(): the node and nodes above it in recursion, each *)
(* with its parent unless it is tried again, which ends the chain.         *)
FailSet(F, n) ==
    /\ F \subseteq Nodes
    /\ \A m \in F : m <= n
    /\ \A m \in F : m = n \/ status[m] = IN_RECURSION
    /\ \A m \in F : m # Forest /\ ~MayRetry(m) => parent[m] \in F \/ parent[m] = Forest
    /\ \A m, y \in F : MayRetry(m) => m <= y

LEMMA FailingFacts ==
    ASSUME ShapeInv, NEW n \in Nodes \ {Forest}, Unfinished(n)
    PROVE  n \in Failing(n) /\ FailSet(Failing(n), n)
  <1>0. TreeShape BY DEF ShapeInv
  <1>1. PICK f : /\ Failing(n) = f[n]
                 /\ \A m \in Nodes :
                       f[m] = IF status[m] = ABANDONED THEN {}
                              ELSE {m} \cup (IF m = Forest \/ MayRetry(m) THEN {} ELSE f[parent[m]])
    BY <1>0, FailingUp
  <1> DEFINE Good(x) == x \in f[x] /\ FailSet(f[x], x)
             T == {x \in Nodes : Unfinished(x) /\ ~Good(x)}
  <1>2. SUFFICES ASSUME T # {} PROVE FALSE BY <1>1
  <1>3. PICK x \in T : \A y \in T : x <= y
    <2>1. T \in SUBSET Nat BY NodeFacts
    <2> HIDE DEF T
    <2>2. QED BY <1>2, <2>1, LeastNat
  <1>4. x \in Nodes /\ Unfinished(x) /\ ~Good(x) /\ status[x] # ABANDONED /\ x \in Nat
    BY <1>3, NodeFacts DEF Unfinished, PENDING, IN_PROGRESS, IN_RECURSION, ABANDONED
  <1>5. CASE x = Forest \/ MayRetry(x)
    <2>1. f[x] = {x} BY <1>1, <1>4, <1>5
    <2>2. QED BY <1>4, <1>5, <2>1 DEF FailSet
  <1>6. CASE x # Forest /\ ~MayRetry(x)
    <2>1. parent[x] \in Nodes /\ parent[x] < x /\ parent[x] \in Nat BY <1>4, <1>6, NodeFacts
    <2>2. f[x] = {x} \cup f[parent[x]] BY <1>1, <1>4, <1>6
    <2>3. CASE status[parent[x]] = ABANDONED
      <3>1. parent[x] = Forest
        BY <1>4, <1>6, <2>3 DEF ShapeInv, ParentsWait, IN_RECURSION, ABANDONED
      <3>2. f[x] = {x} BY <1>1, <2>1, <2>2, <2>3
      <3>3. QED BY <1>4, <1>6, <3>1, <3>2 DEF FailSet
    <2>4. CASE status[parent[x]] # ABANDONED
      <3>1. status[parent[x]] = IN_RECURSION
        BY <1>4, <1>6, <2>4 DEF ShapeInv, ParentsWait
      <3>2. parent[x] \notin T
        <4> HIDE DEF T
        <4>1. QED BY <1>3, <1>4, <2>1
      <3>3. Good(parent[x]) BY <2>1, <3>1, <3>2 DEF Unfinished
      <3>4. f[x] \subseteq Nodes /\ x \in f[x] BY <1>4, <2>2, <3>3 DEF FailSet
      <3>5. \A m \in f[x] : m <= x
        <4>1. \A m \in f[parent[x]] : m \in Nat /\ m <= parent[x] BY <3>3, NodeFacts DEF FailSet
        <4>2. QED BY <1>4, <2>1, <2>2, <4>1
      <3>6. \A m \in f[x] : m = x \/ status[m] = IN_RECURSION BY <2>2, <3>1, <3>3 DEF FailSet
      <3>7. \A m \in f[x] : m # Forest /\ ~MayRetry(m) => parent[m] \in f[x] \/ parent[m] = Forest
        BY <2>2, <3>3 DEF FailSet
      <3>8. \A m, y \in f[x] : MayRetry(m) => m <= y
        <4>1. \A m \in f[x] : m \in Nat BY <3>4, NodeFacts
        <4>2. \A m \in f[x] : MayRetry(m) => m \in f[parent[x]] BY <1>6, <2>2
        <4>3. \A m, y \in f[parent[x]] : MayRetry(m) => m <= y BY <3>3 DEF FailSet
        <4>4. \A m \in f[parent[x]] : m <= x BY <2>2, <3>5
        <4>5. QED BY <2>2, <4>2, <4>3, <4>4
      <3>9. Good(x) BY <3>4, <3>5, <3>6, <3>7, <3>8 DEF FailSet
      <3>10. QED BY <1>4, <3>9
    <2>5. QED BY <2>3, <2>4
  <1>7. QED BY <1>5, <1>6

(* What is abandoned with F is younger than something in F.                *)
LEMMA BelowIsYounger ==
    ASSUME ShapeInv, NEW F, F \subseteq Nodes
    PROVE  \A m \in UnfinishedBelow(F) : m \in Nodes /\ \E y \in F : y < m
  <1>0. TreeShape BY DEF ShapeInv
  <1>1. UnfinishedBelow(F) \subseteq Nodes BY DEF UnfinishedBelow
  <1> DEFINE T == {m \in Nodes : m \in UnfinishedBelow(F) /\ ~\E y \in F : y < m}
  <1>2. SUFFICES ASSUME T # {} PROVE FALSE BY <1>1
  <1>3. PICK x \in T : \A y \in T : x <= y
    <2>1. T \in SUBSET Nat BY NodeFacts
    <2> HIDE DEF T
    <2>2. QED BY <1>2, <2>1, LeastNat
  <1>4. x \in Nodes /\ x \in UnfinishedBelow(F) /\ ~\E y \in F : y < x BY <1>3
  <1>5. x # Forest /\ parent[x] \in F \cup UnfinishedBelow(F) BY <1>0, <1>4, BelowIs
  <1>6. parent[x] \in Nodes /\ parent[x] < x /\ parent[x] \in Nat /\ x \in Nat
    BY <1>4, <1>5, NodeFacts
  <1>7. parent[x] \notin T
    <2> HIDE DEF T
    <2>1. QED BY <1>3, <1>6
  <1>8. PICK y \in F : y < parent[x] BY <1>4, <1>5, <1>6, <1>7
  <1>9. y \in Nat BY NodeFacts
  <1>10. QED BY <1>4, <1>6, <1>8, <1>9

-----------------------------------------------------------------------------
(* What abandon_node_unlocked(n) gives up and what it tries again.         *)
Retried(n) == {m \in Failing(n) : MayRetry(m)}
Dead(n) == (Failing(n) \cup UnfinishedBelow(Failing(n))) \ Retried(n)

AbandonSets(D, R, n) ==
    /\ D \subseteq Nodes /\ R \subseteq Nodes \ {Forest} /\ D \cap R = {}
    /\ \A m \in D \cup R : Unfinished(m)
    /\ \A m \in R : MayRetry(m) /\ (m = n \/ status[m] = IN_RECURSION)
    /\ \A m, y \in R : m = y
    /\ Unfinished(n) => n \in D \cup R
    /\ \A x \in Nodes \ {Forest} : Unfinished(x) /\ x \notin D \cup R => parent[x] \notin D \cup R
    /\ \A x \in R : parent[x] \notin D \cup R
    /\ \A x \in D \ {Forest} : parent[x] \in D \cup R \/ parent[x] = Forest

LEMMA AbandonFacts ==
    ASSUME ShapeInv, NEW n \in Nodes \ {Forest}, status[n] \in {IN_PROGRESS, ABANDONED}
    PROVE  AbandonSets(Dead(n), Retried(n), n)
  <1> DEFINE F == Failing(n)
             B == UnfinishedBelow(Failing(n))
  <1>0. TreeShape BY DEF ShapeInv
  <1>1. CASE status[n] = ABANDONED
    <2>1. PICK f : /\ Failing(n) = f[n]
                   /\ \A m \in Nodes :
                       f[m] = IF status[m] = ABANDONED THEN {}
                              ELSE {m} \cup (IF m = Forest \/ MayRetry(m) THEN {} ELSE f[parent[m]])
      BY <1>0, FailingUp
    <2>2. Failing(n) = {} BY <1>1, <2>1
    <2>3. UnfinishedBelow(Failing(n)) = {} BY <2>2, BelowIsYounger
    <2>4. Dead(n) = {} /\ Retried(n) = {} BY <2>2, <2>3 DEF Dead, Retried
    <2>5. ~Unfinished(n)
      BY <1>1 DEF Unfinished, PENDING, IN_PROGRESS, IN_RECURSION, ABANDONED
    <2>6. QED BY <2>4, <2>5 DEF AbandonSets
  <1>2. CASE status[n] = IN_PROGRESS
    <2>0. Unfinished(n) BY <1>2 DEF Unfinished
    <2>1. n \in F /\ FailSet(F, n) BY <2>0, FailingFacts
    <2>2. F \subseteq Nodes BY <2>1 DEF FailSet
    <2>3. \A m \in B : m \in Nodes /\ \E y \in F : y < m BY <2>2, BelowIsYounger
    <2>4. \A m \in Nodes : m \in B <=> m # Forest /\ Unfinished(m) /\ (parent[m] \in F \cup B)
      BY <1>0, BelowIs
    <2> DEFINE D == Dead(n)
               R == Retried(n)
    <2>5. R = {m \in F : MayRetry(m)} /\ D = (F \cup B) \ R BY DEF Retried, Dead
    <2> HIDE DEF F, B, D, R
    <2>6. \A m \in R : m \in Nat /\ m \in Nodes /\ m # Forest /\ \A y \in F : m <= y
      BY <2>1, <2>2, <2>5, NodeFacts DEF FailSet, MayRetry
    <2>7. \A m \in R : m \notin B
      <3> SUFFICES ASSUME NEW m \in R, m \in B PROVE FALSE OBVIOUS
      <3>1. PICK y \in F : y < m BY <2>3
      <3>2. y \in Nat /\ m \in Nat /\ m <= y BY <2>2, <2>6, NodeFacts
      <3>3. QED BY <3>1, <3>2
    <2>8. D \cup R = F \cup B /\ D \cap R = {} /\ D \subseteq Nodes /\ R \subseteq Nodes \ {Forest}
      BY <2>2, <2>3, <2>5, <2>6
    <2>9. \A m \in D \cup R : Unfinished(m)
      BY <2>0, <2>1, <2>4, <2>8 DEF FailSet, Unfinished
    <2>10. \A m \in R : MayRetry(m) /\ (m = n \/ status[m] = IN_RECURSION)
      BY <2>1, <2>5 DEF FailSet
    <2>11. \A m, y \in R : m = y
      <3>1. \A m, y \in R : m <= y /\ y <= m /\ m \in Nat /\ y \in Nat BY <2>5, <2>6
      <3>2. QED BY <3>1
    <2>12. \A x \in Nodes \ {Forest} : Unfinished(x) /\ x \notin D \cup R => parent[x] \notin D \cup R
      BY <2>4, <2>8
    <2>13. \A x \in R : parent[x] \notin D \cup R
      <3> SUFFICES ASSUME NEW x \in R, parent[x] \in F \cup B PROVE FALSE BY <2>8
      <3>1. x \in Nat /\ parent[x] \in Nat /\ parent[x] < x BY <2>6, NodeFacts
      <3>2. parent[x] \notin F BY <2>6, <3>1
      <3>3. PICK y \in F : y < parent[x] BY <2>3, <3>2
      <3>4. y \in Nat /\ x <= y BY <2>2, <2>6, NodeFacts
      <3>5. QED BY <3>1, <3>3, <3>4
    <2>14. \A x \in D \ {Forest} : parent[x] \in D \cup R \/ parent[x] = Forest
      <3>1. \A x \in F \ {Forest} : x \notin R => parent[x] \in F \/ parent[x] = Forest
        BY <2>1, <2>5 DEF FailSet
      <3>2. \A x \in B : parent[x] \in F \cup B BY <2>3, <2>4
      <3>3. QED BY <2>5, <2>8, <3>1, <3>2
    <2>15. n \in D \cup R BY <2>1, <2>8
    <2>16. AbandonSets(D, R, n)
      BY <2>8, <2>9, <2>10, <2>11, <2>12, <2>13, <2>14, <2>15 DEF AbandonSets
    <2>17. QED BY <2>16 DEF D, R
  <1>3. QED BY <1>1, <1>2

(* pull_internal drops the abandoned nodes up to the first that is not.    *)
LEMMA SkippedIs ==
    ASSUME NEW q, q \in Seq(Nodes)
    PROVE  /\ Skipped(q) \in 0..Len(q)
           /\ \A i \in 1..Skipped(q) : status[q[i]] = ABANDONED
           /\ Skipped(q) < Len(q) => status[q[Skipped(q) + 1]] # ABANDONED
  <1> DEFINE T == {k \in 0..Len(q) : k < Len(q) => status[q[k + 1]] # ABANDONED}
  <1>1. Len(q) \in Nat OBVIOUS
  <1>2. Len(q) \in T BY <1>1
  <1>3. PICK k \in T : \A j \in T : k <= j
    <2>1. T \in SUBSET Nat BY <1>1
    <2> HIDE DEF T
    <2>2. QED BY <1>2, <2>1, LeastNat
  <1>4. k \in 0..Len(q) /\ (k < Len(q) => status[q[k + 1]] # ABANDONED) BY <1>3
  <1>5. ASSUME NEW i \in 1..k PROVE status[q[i]] = ABANDONED
    <2>1. i - 1 \in 0..Len(q) /\ i - 1 < Len(q) /\ (i - 1) + 1 = i BY <1>1, <1>4
    <2>2. i - 1 \notin T
      <3> HIDE DEF T
      <3>1. QED BY <1>3, <1>4, <2>1
    <2>3. QED BY <2>1, <2>2
  <1>6. \E j \in 0..Len(q) : /\ \A i \in 1..j : status[q[i]] = ABANDONED
                             /\ j < Len(q) => status[q[j + 1]] # ABANDONED
    BY <1>4, <1>5
  <1>7. QED BY <1>6 DEF Skipped

(* new_node_unlocked(): the tree keeps its nodes and has k new ones.       *)
LEMMA NewNodesFacts ==
    ASSUME created \in Nat, NEW k \in Nat, NEW p, NEW st, NEW old, NewNodes(k, p, st, old)
    PROVE  /\ created' = created + k /\ created' \in Nat
           /\ Nodes' = Nodes \cup (created + 1 .. created + k)
           /\ Nodes \cap (created + 1 .. created + k) = {}
           /\ \A m \in Nodes : /\ status'[m] = old[m] /\ parent'[m] = parent[m]
                               /\ try_again'[m] = try_again[m] /\ contender'[m] = contender[m]
           /\ \A m \in created + 1 .. created + k :
                  status'[m] = st /\ parent'[m] = p /\ try_again'[m] = 0 /\ contender'[m] = NoRel
           /\ \A S : (\A m \in Nodes' : status'[m] \in S) => status' \in [Nodes' -> S]
           /\ \A S : (\A m \in Nodes' : parent'[m] \in S) => parent' \in [Nodes' -> S]
           /\ \A S : (\A m \in Nodes' : try_again'[m] \in S) => try_again' \in [Nodes' -> S]
           /\ \A S : (\A m \in Nodes' : contender'[m] \in S) => contender' \in [Nodes' -> S]
  <1>1. created' = created + k /\ created' \in Nat BY DEF NewNodes
  <1>2. Nodes' = 0..created + k /\ Nodes = 0..created BY <1>1 DEF Nodes
  <1>3. /\ Nodes' = Nodes \cup (created + 1 .. created + k)
        /\ Nodes \cap (created + 1 .. created + k) = {}
    BY <1>2
  <1>4. /\ status' = [m \in 0..created + k |-> IF m \in created + 1 .. created + k THEN st ELSE old[m]]
        /\ parent' = [m \in 0..created + k |-> IF m \in created + 1 .. created + k THEN p ELSE parent[m]]
        /\ try_again' = [m \in 0..created + k |-> IF m \in created + 1 .. created + k THEN 0 ELSE try_again[m]]
        /\ contender' = [m \in 0..created + k |-> IF m \in created + 1 .. created + k THEN NoRel ELSE contender[m]]
    BY DEF NewNodes
  <1>5. \A m \in Nodes : m \in 0..created + k /\ m \notin created + 1 .. created + k BY <1>2
  <1>6. \A m \in created + 1 .. created + k : m \in 0..created + k OBVIOUS
  <1>7. \A m \in Nodes : /\ status'[m] = old[m] /\ parent'[m] = parent[m]
                         /\ try_again'[m] = try_again[m] /\ contender'[m] = contender[m]
    BY <1>4, <1>5
  <1>8. \A m \in created + 1 .. created + k :
           status'[m] = st /\ parent'[m] = p /\ try_again'[m] = 0 /\ contender'[m] = NoRel
    BY <1>4, <1>6
  <1>9. /\ \A S : (\A m \in Nodes' : status'[m] \in S) => status' \in [Nodes' -> S]
        /\ \A S : (\A m \in Nodes' : parent'[m] \in S) => parent' \in [Nodes' -> S]
        /\ \A S : (\A m \in Nodes' : try_again'[m] \in S) => try_again' \in [Nodes' -> S]
        /\ \A S : (\A m \in Nodes' : contender'[m] \in S) => contender' \in [Nodes' -> S]
    BY <1>2, <1>4
  <1>10. QED BY <1>1, <1>3, <1>7, <1>8, <1>9

-----------------------------------------------------------------------------
Held(s) == pc[s] = "sieve"
Queued(n) == \E i \in DOMAIN all_pending : all_pending[i] = n

(* A pending node is in the queue once, with abandoned ones at most.       *)
QueueInv ==
    /\ \A i, j \in DOMAIN all_pending : all_pending[i] = all_pending[j] => i = j
    /\ \A i \in DOMAIN all_pending :
          all_pending[i] # Forest /\ status[all_pending[i]] \in {PENDING, ABANDONED}
    /\ \A n \in Nodes : status[n] = PENDING => Queued(n)

(* A node in progress is with one subjob or was discarded.                 *)
HoldersInv ==
    /\ \A s, t \in Subjobs : Held(s) /\ Held(t) /\ task[s] = task[t] => s = t
    /\ \A s \in Subjobs : Held(s) =>
         /\ task[s] # Forest /\ status[task[s]] \in {IN_PROGRESS, ABANDONED}
         /\ task[s] \notin discarded /\ ~Queued(task[s])
    /\ \A n \in discarded : n # Forest /\ status[n] \in {IN_PROGRESS, ABANDONED}
    /\ \A n \in Nodes : status[n] = IN_PROGRESS =>
         n \in discarded \/ \E s \in Subjobs : Held(s) /\ task[s] = n

PlaceInv == DescentTypeOK /\ ShapeInv /\ QueueInv /\ HoldersInv

(* The statuses are different.                                             *)
LEMMA StatusNames ==
    /\ Statuses = {PENDING, IN_PROGRESS, IN_RECURSION, DONE, ABANDONED}
    /\ PENDING # IN_PROGRESS /\ PENDING # IN_RECURSION /\ PENDING # DONE /\ PENDING # ABANDONED
    /\ IN_PROGRESS # IN_RECURSION /\ IN_PROGRESS # DONE /\ IN_PROGRESS # ABANDONED
    /\ IN_RECURSION # DONE /\ IN_RECURSION # ABANDONED /\ DONE # ABANDONED
  BY DEF Statuses, PENDING, IN_PROGRESS, IN_RECURSION, DONE, ABANDONED

LEMMA InitPlaces == Init => PlaceInv
  <1> SUFFICES ASSUME Init PROVE PlaceInv OBVIOUS
  <1>1. Nodes = {Forest} /\ created = 0 /\ Forest = 0 BY DEF Init, Nodes, Forest
  <1>2. DescentTypeOK
    <2>1. PICK i \in Inputs : todo = i[1] /\ max_attempts = i[2] BY DEF Init
    <2>2. todo \in Nat /\ max_attempts \in Nat BY <2>1, DescentAssumption
    <2>3. QED BY <1>1, <2>2, StatusNames DEF Init, DescentTypeOK
  <1>3. ShapeInv BY <1>1, StatusNames DEF Init, ShapeInv, TreeShape, Older, ParentsWait
  <1>4. QueueInv BY <1>1, StatusNames DEF Init, QueueInv
  <1>5. HoldersInv BY <1>1, StatusNames DEF Init, HoldersInv, Held
  <1>6. QED BY <1>2, <1>3, <1>4, <1>5 DEF PlaceInv

(* What abandon_node_unlocked() changes.                                   *)
LEMMA AbandonStep ==
    ASSUME PlaceInv, NEW s \in Subjobs, Held(s), Abandon(s)
    PROVE  LET n == task[s] IN
           /\ AbandonSets(Dead(n), Retried(n), n) /\ n \in Nodes \ {Forest}
           /\ status' \in [Nodes -> Statuses] /\ try_again' \in [Nodes -> 0..max_attempts]
           /\ \A m \in Dead(n) : status'[m] = ABANDONED /\ try_again'[m] = try_again[m]
           /\ \A m \in Retried(n) : status'[m] = PENDING /\ try_again'[m] = try_again[m] + 1
           /\ \A m \in Nodes : m \notin Dead(n) \cup Retried(n) =>
                status'[m] = status[m] /\ try_again'[m] = try_again[m]
           /\ Retried(n) = {} => all_pending' = all_pending
           /\ \A m \in Retried(n) : all_pending' = Append(all_pending, m)
           /\ abandoned' = abandoned + Cardinality(Dead(n) \ {Forest})
           /\ pc' = [pc EXCEPT ![s] = "pull"]
           /\ UNCHANGED <<parent, contender, visited, created, pulled, done, todo, max_attempts>>
  <1> DEFINE n == task[s]
             D == Dead(n)
             R == Retried(n)
  <1>1. n \in Nodes \ {Forest} /\ status[n] \in {IN_PROGRESS, ABANDONED}
    BY DEF PlaceInv, HoldersInv, DescentTypeOK
  <1>2. AbandonSets(D, R, n) BY <1>1, AbandonFacts DEF PlaceInv
  <1>3. /\ status' = [m \in Nodes |-> IF m \in D THEN ABANDONED
                                      ELSE IF m \in R THEN PENDING ELSE status[m]]
        /\ try_again' = [m \in Nodes |-> IF m \in R THEN try_again[m] + 1 ELSE try_again[m]]
        /\ all_pending' = IF R = {} THEN all_pending
                          ELSE Append(all_pending, CHOOSE m \in R : TRUE)
        /\ abandoned' = abandoned + Cardinality(D \ {Forest})
        /\ pc' = [pc EXCEPT ![s] = "pull"]
        /\ UNCHANGED <<parent, contender, visited, created, pulled, done, todo, max_attempts>>
    BY DEF Abandon, Dead, Retried, Resume
  <1> HIDE DEF D, R, n
  <1>4. status \in [Nodes -> Statuses] /\ try_again \in [Nodes -> 0..max_attempts] /\ max_attempts \in Nat
    BY DEF PlaceInv, DescentTypeOK
  <1>5. D \subseteq Nodes /\ R \subseteq Nodes /\ D \cap R = {} BY <1>2 DEF AbandonSets
  <1>6. status' \in [Nodes -> Statuses] BY <1>3, <1>4, StatusNames
  <1>7. try_again' \in [Nodes -> 0..max_attempts]
    <2>1. \A m \in R : try_again[m] < max_attempts BY <1>2 DEF AbandonSets, MayRetry
    <2>2. QED BY <1>3, <1>4, <1>5, <2>1
  <1>8. /\ \A m \in D : status'[m] = ABANDONED /\ try_again'[m] = try_again[m]
        /\ \A m \in R : status'[m] = PENDING /\ try_again'[m] = try_again[m] + 1
        /\ \A m \in Nodes : m \notin D \cup R => status'[m] = status[m] /\ try_again'[m] = try_again[m]
    BY <1>3, <1>5
  <1>9. ASSUME NEW m \in R PROVE all_pending' = Append(all_pending, m)
    <2>1. (CHOOSE x \in R : TRUE) \in R OBVIOUS
    <2>2. (CHOOSE x \in R : TRUE) = m BY <1>2, <2>1 DEF AbandonSets
    <2>3. QED BY <1>3, <2>2
  <1>10. R = {} => all_pending' = all_pending BY <1>3
  <1>11. QED BY <1>1, <1>2, <1>3, <1>6, <1>7, <1>8, <1>9, <1>10 DEF n, D, R

LEMMA TypeFacts ==
    ASSUME DescentTypeOK
    PROVE  /\ created \in Nat /\ pulled \in Nat /\ todo \in Nat /\ max_attempts \in Nat
           /\ status \in [Nodes -> Statuses] /\ parent \in [Nodes -> Nodes]
           /\ try_again \in [Nodes -> 0..max_attempts]
           /\ contender \in [Nodes -> Rels \cup {NoRel}]
           /\ all_pending \in Seq(Nodes) /\ Len(all_pending) \in Nat
           /\ DOMAIN all_pending = 1..Len(all_pending)
           /\ \A i \in DOMAIN all_pending : all_pending[i] \in Nodes
           /\ pc \in [Subjobs -> {"pull", "wait", "sieve", "end"}] /\ task \in [Subjobs -> Nodes]
           /\ cand \in [Subjobs -> Rels \cup {NoRel}] /\ discarded \subseteq Nodes
  BY DEF DescentTypeOK

(* Steps that leave the tree, the queue and who holds what alone.          *)
LEMMA SamePlaces ==
    ASSUME PlaceInv, DescentTypeOK',
           UNCHANGED <<created, status, parent, all_pending, discarded, task>>,
           \A s \in Subjobs : Held(s)' <=> Held(s)
    PROVE  PlaceInv'
  <1>1. Nodes' = Nodes BY DEF Nodes
  <1>2. ShapeInv' BY <1>1 DEF PlaceInv, ShapeInv, TreeShape, ParentsWait, Unfinished
  <1>3. QueueInv' BY <1>1 DEF PlaceInv, QueueInv, Queued
  <1>4. HoldersInv' BY <1>1 DEF PlaceInv, HoldersInv, Queued
  <1>5. QED BY <1>2, <1>3, <1>4 DEF PlaceInv

LEMMA SpuriousPlaces ==
    ASSUME PlaceInv, NEW s \in Subjobs, SpuriousWakeup(s) PROVE PlaceInv'
  <1>1. pc \in [Subjobs -> {"pull", "wait", "sieve", "end"}] BY DEF PlaceInv, DescentTypeOK
  <1>2. \A t \in Subjobs : Held(t)' <=> Held(t) BY <1>1 DEF SpuriousWakeup, Held
  <1>3. Nodes' = Nodes BY DEF SpuriousWakeup, counters, Nodes
  <1>4. DescentTypeOK'
    BY <1>1, <1>3 DEF PlaceInv, DescentTypeOK, SpuriousWakeup, tree, counters
  <1>5. QED BY <1>2, <1>4, SamePlaces DEF SpuriousWakeup, tree, counters

LEMMA FindPlaces ==
    ASSUME PlaceInv, NEW s \in Subjobs, NEW r \in Rels, FindRelation(s, r) PROVE PlaceInv'
  <1>1. \A t \in Subjobs : Held(t)' <=> Held(t) BY DEF FindRelation, Held
  <1>2. Nodes' = Nodes BY DEF FindRelation, counters, Nodes
  <1>3. DescentTypeOK' BY <1>2 DEF PlaceInv, DescentTypeOK, FindRelation, tree, counters
  <1>4. QED BY <1>1, <1>3, SamePlaces DEF FindRelation, tree, counters

LEMMA CandidatePlaces ==
    ASSUME PlaceInv, NEW s \in Subjobs, new_candidate_relation(s) PROVE PlaceInv'
  <1>1. \A t \in Subjobs : Held(t)' <=> Held(t) BY DEF new_candidate_relation, Held
  <1>2. Nodes' = Nodes BY DEF new_candidate_relation, counters, Nodes
  <1>3. contender' \in [Nodes -> Rels \cup {NoRel}] /\ cand' \in [Subjobs -> Rels \cup {NoRel}]
    BY DEF PlaceInv, DescentTypeOK, new_candidate_relation
  <1>4. DescentTypeOK'
    BY <1>2, <1>3 DEF PlaceInv, DescentTypeOK, new_candidate_relation, counters
  <1>5. QED BY <1>1, <1>4, SamePlaces DEF new_candidate_relation, counters

LEMMA DiscardPlaces ==
    ASSUME PlaceInv, NEW s \in Subjobs, Discard(s) PROVE PlaceInv'
  <1>1. Nodes' = Nodes BY DEF Discard, counters, Nodes
  <1>2. pc \in [Subjobs -> {"pull", "wait", "sieve", "end"}] /\ task[s] \in Nodes
    BY DEF PlaceInv, DescentTypeOK
  <1>3. Held(s) /\ ~Held(s)' /\ \A t \in Subjobs \ {s} : Held(t)' <=> Held(t)
    BY <1>2 DEF Discard, Resume, Held
  <1>4. DescentTypeOK'
    BY <1>1, <1>2 DEF PlaceInv, DescentTypeOK, Discard, Resume, tree, counters
  <1>5. ShapeInv'
    BY <1>1 DEF PlaceInv, ShapeInv, TreeShape, ParentsWait, Unfinished, Discard, tree, counters
  <1>6. QueueInv' BY <1>1 DEF PlaceInv, QueueInv, Queued, Discard, tree
  <1>7. HoldersInv'
    <2>1. /\ UNCHANGED <<status, task, all_pending>> /\ discarded' = discarded \cup {task[s]}
      BY DEF Discard, tree
    <2>2. \A t \in Subjobs \ {s} : Held(t) => task[t] # task[s]
      BY <1>3 DEF PlaceInv, HoldersInv
    <2>3. QED BY <1>1, <1>3, <2>1, <2>2 DEF PlaceInv, HoldersInv, Queued
  <1>8. QED BY <1>4, <1>5, <1>6, <1>7 DEF PlaceInv

(* What pull_internal() finds.                                             *)
LEMMA PullFacts ==
    ASSUME PlaceInv, NEW k, k = Skipped(all_pending)
    PROVE  /\ k \in 0..Len(all_pending)
           /\ \A i \in 1..k : status[all_pending[i]] = ABANDONED
           /\ k < Len(all_pending) =>
                /\ k + 1 \in DOMAIN all_pending
                /\ all_pending[k + 1] \in Nodes \ {Forest} /\ status[all_pending[k + 1]] = PENDING
                /\ all_pending[k + 1] \notin discarded
                /\ \A t \in Subjobs : Held(t) => task[t] # all_pending[k + 1]
           /\ k = Len(all_pending) => \A m \in Nodes : status[m] # PENDING
  <1>1. /\ all_pending \in Seq(Nodes) /\ Len(all_pending) \in Nat
        /\ DOMAIN all_pending = 1..Len(all_pending)
        /\ \A i \in DOMAIN all_pending : all_pending[i] \in Nodes
    BY TypeFacts DEF PlaceInv
  <1>2. /\ k \in 0..Len(all_pending)
        /\ \A i \in 1..k : status[all_pending[i]] = ABANDONED
        /\ k < Len(all_pending) => status[all_pending[k + 1]] # ABANDONED
    BY <1>1, SkippedIs
  <1>3. ASSUME k < Len(all_pending)
        PROVE  /\ k + 1 \in DOMAIN all_pending
               /\ all_pending[k + 1] \in Nodes \ {Forest} /\ status[all_pending[k + 1]] = PENDING
               /\ all_pending[k + 1] \notin discarded
               /\ \A t \in Subjobs : Held(t) => task[t] # all_pending[k + 1]
    <2>1. k + 1 \in DOMAIN all_pending BY <1>1, <1>2, <1>3
    <2>2. all_pending[k + 1] \in Nodes \ {Forest} /\ status[all_pending[k + 1]] = PENDING
      BY <1>1, <1>2, <1>3, <2>1 DEF PlaceInv, QueueInv
    <2>3. all_pending[k + 1] \notin discarded BY <2>2, StatusNames DEF PlaceInv, HoldersInv
    <2>4. \A t \in Subjobs : Held(t) => task[t] # all_pending[k + 1]
      BY <2>1 DEF PlaceInv, HoldersInv, Queued
    <2>5. QED BY <2>1, <2>2, <2>3, <2>4
  <1>4. ASSUME k = Len(all_pending), NEW m \in Nodes PROVE status[m] # PENDING
    <2> SUFFICES ASSUME status[m] = PENDING PROVE FALSE OBVIOUS
    <2>1. PICK i \in DOMAIN all_pending : all_pending[i] = m BY DEF PlaceInv, QueueInv, Queued
    <2>2. status[m] = ABANDONED BY <1>1, <1>2, <1>4, <2>1
    <2>3. QED BY <2>2, StatusNames
  <1>5. QED BY <1>2, <1>3, <1>4

LEMMA PullPendingPlaces ==
    ASSUME PlaceInv, NEW s \in Subjobs, PullPending(s) PROVE PlaceInv'
  <1> DEFINE q == all_pending
  <1>0. PICK k : k = Skipped(q) OBVIOUS
  <1>1. /\ k < Len(q) /\ pc[s] = "pull" /\ pulled' = pulled + k + 1
        /\ all_pending' = SubSeq(q, k + 2, Len(q))
        /\ status' = [status EXCEPT ![q[k + 1]] = IN_PROGRESS]
        /\ task' = [task EXCEPT ![s] = q[k + 1]] /\ pc' = [pc EXCEPT ![s] = "sieve"]
        /\ UNCHANGED <<parent, try_again, contender, visited, created, done, abandoned, todo,
                       max_attempts, cand, discarded>>
    BY <1>0 DEF PullPending, Start
  <1>n. PICK n : n = q[k + 1] OBVIOUS
  <1>2. /\ created \in Nat /\ pulled \in Nat
        /\ status \in [Nodes -> Statuses] /\ q \in Seq(Nodes) /\ Len(q) \in Nat /\ DOMAIN q = 1..Len(q)
        /\ \A i \in DOMAIN q : q[i] \in Nodes
        /\ pc \in [Subjobs -> {"pull", "wait", "sieve", "end"}] /\ task \in [Subjobs -> Nodes]
    BY TypeFacts DEF PlaceInv
  <1>3. /\ k \in 0..Len(q) /\ k + 1 \in DOMAIN q
        /\ \A i \in 1..k : status[q[i]] = ABANDONED
        /\ n \in Nodes \ {Forest} /\ status[n] = PENDING /\ n \notin discarded
        /\ \A t \in Subjobs : Held(t) => task[t] # n
    BY <1>0, <1>1, <1>n, PullFacts
  <1>4. Nodes' = Nodes BY <1>1 DEF Nodes
  <1>5. /\ all_pending' \in Seq(Nodes) /\ DOMAIN all_pending' = 1..Len(q) - (k + 1)
        /\ \A i \in 1..Len(q) - (k + 1) : all_pending'[i] = q[i + (k + 1)] /\ i + (k + 1) \in DOMAIN q
    BY <1>1, <1>2, <1>3
  <1>6. /\ status' \in [Nodes -> Statuses] /\ status'[n] = IN_PROGRESS
        /\ \A m \in Nodes : m # n => status'[m] = status[m]
    BY <1>1, <1>2, <1>3, <1>n, StatusNames
  <1>7. /\ task'[s] = n /\ Held(s)' /\ ~Held(s)
        /\ \A t \in Subjobs \ {s} : task'[t] = task[t] /\ (Held(t)' <=> Held(t))
    BY <1>1, <1>2, <1>n DEF Held
  <1>8. DescentTypeOK'
    <2>1. pulled' \in Nat BY <1>1, <1>2, <1>3
    <2>2. task' \in [Subjobs -> Nodes] /\ pc' \in [Subjobs -> {"pull", "wait", "sieve", "end"}]
      BY <1>1, <1>2, <1>3, <1>n
    <2>3. /\ created' \in Nat /\ todo' \in Nat /\ max_attempts' \in Nat /\ parent' \in [Nodes -> Nodes]
          /\ try_again' \in [Nodes -> 0..max_attempts'] /\ contender' \in [Nodes -> Rels \cup {NoRel}]
          /\ visited' \subseteq Rels /\ cand' \in [Subjobs -> Rels \cup {NoRel}] /\ discarded' \subseteq Nodes
      BY <1>1 DEF PlaceInv, DescentTypeOK
    <2>4. QED BY <1>4, <1>5, <1>6, <2>1, <2>2, <2>3 DEF DescentTypeOK
  <1>9. ShapeInv'
    <2>1. TreeShape' BY <1>1, <1>4 DEF PlaceInv, ShapeInv, TreeShape
    <2>2. status'[Forest] = status[Forest] BY <1>3, <1>6, NodeFacts DEF PlaceInv
    <2>3. ASSUME NEW m \in Nodes \ {Forest}, Unfinished(m)'
          PROVE  parent[m] = Forest \/ status'[parent[m]] = IN_RECURSION
      <3>1. Unfinished(m) BY <1>3, <1>6, <2>3 DEF Unfinished
      <3>2. parent[m] \in Nodes BY NodeFacts DEF PlaceInv
      <3>3. QED BY <1>3, <1>6, <3>1, <3>2, StatusNames DEF PlaceInv, ShapeInv, ParentsWait
    <2>4. QED BY <1>1, <1>4, <1>6, <2>1, <2>2, <2>3 DEF PlaceInv, ShapeInv, ParentsWait
  <1>10. ~Queued(n)'
    <2> SUFFICES ASSUME NEW i \in DOMAIN all_pending', all_pending'[i] = n PROVE FALSE BY DEF Queued
    <2>1. i + (k + 1) \in DOMAIN q /\ q[i + (k + 1)] = n BY <1>5
    <2>2. i + (k + 1) = k + 1 BY <1>n, <1>3, <2>1 DEF PlaceInv, QueueInv
    <2>3. QED BY <1>3, <1>5, <2>2
  <1>11. QueueInv'
    <2>1. \A i, j \in DOMAIN all_pending' : all_pending'[i] = all_pending'[j] => i = j
      <3> SUFFICES ASSUME NEW i \in DOMAIN all_pending', NEW j \in DOMAIN all_pending',
                          all_pending'[i] = all_pending'[j]
                   PROVE  i = j
        OBVIOUS
      <3>1. i + (k + 1) = j + (k + 1) BY <1>5 DEF PlaceInv, QueueInv
      <3>2. QED BY <1>3, <1>5, <3>1
    <2>2. ASSUME NEW i \in DOMAIN all_pending'
          PROVE  all_pending'[i] # Forest /\ status'[all_pending'[i]] \in {PENDING, ABANDONED}
      <3>1. all_pending'[i] # n BY <1>10 DEF Queued
      <3>2. QED BY <1>2, <1>5, <1>6, <3>1 DEF PlaceInv, QueueInv
    <2>3. ASSUME NEW m \in Nodes, status'[m] = PENDING PROVE Queued(m)'
      <3>1. m # n /\ status[m] = PENDING BY <1>6, <2>3, StatusNames
      <3>2. PICK i \in DOMAIN q : q[i] = m BY <3>1 DEF PlaceInv, QueueInv, Queued
      <3>3. i \notin 1..k BY <1>3, <3>1, <3>2, StatusNames
      <3>4. i # k + 1 BY <1>n, <3>1, <3>2
      <3>5. i - (k + 1) \in 1..Len(q) - (k + 1) BY <1>2, <1>3, <3>2, <3>3, <3>4
      <3>6. (i - (k + 1)) + (k + 1) = i BY <1>2, <1>3
      <3>7. QED BY <1>5, <3>2, <3>5, <3>6 DEF Queued
    <2>4. QED BY <1>4, <2>1, <2>2, <2>3 DEF QueueInv
  <1>12. HoldersInv'
    <2>1. \A t, u \in Subjobs : Held(t)' /\ Held(u)' /\ task'[t] = task'[u] => t = u
      BY <1>3, <1>7 DEF PlaceInv, HoldersInv
    <2>2. ASSUME NEW t \in Subjobs, Held(t)'
          PROVE  /\ task'[t] # Forest /\ status'[task'[t]] \in {IN_PROGRESS, ABANDONED}
                 /\ task'[t] \notin discarded /\ ~Queued(task[t])'
      <3>1. CASE t = s BY <1>3, <1>6, <1>7, <1>10, <3>1 DEF Queued
      <3>2. CASE t # s
        <4>1. Held(t) /\ task'[t] = task[t] /\ task[t] \in Nodes BY <1>2, <1>7, <2>2, <3>2
        <4>2. ~Queued(task[t]) BY <4>1 DEF PlaceInv, HoldersInv
        <4>3. ~Queued(task[t])' BY <1>5, <4>1, <4>2 DEF Queued
        <4>4. QED BY <1>3, <1>6, <4>1, <4>3 DEF PlaceInv, HoldersInv
      <3>3. QED BY <3>1, <3>2
    <2>3. \A m \in discarded : m # Forest /\ status'[m] \in {IN_PROGRESS, ABANDONED}
      BY <1>3, <1>6 DEF PlaceInv, HoldersInv, DescentTypeOK
    <2>4. ASSUME NEW m \in Nodes, status'[m] = IN_PROGRESS
          PROVE  m \in discarded \/ \E t \in Subjobs : Held(t)' /\ task'[t] = m
      <3>1. CASE m = n BY <1>7, <3>1
      <3>2. CASE m # n
        <4>1. status[m] = IN_PROGRESS BY <1>6, <2>4, <3>2
        <4>2. m \in discarded \/ \E t \in Subjobs : Held(t) /\ task[t] = m
          BY <4>1 DEF PlaceInv, HoldersInv
        <4>3. QED BY <1>7, <4>2
      <3>3. QED BY <3>1, <3>2
    <2>5. QED BY <1>1, <1>4, <2>1, <2>2, <2>3, <2>4 DEF HoldersInv
  <1>13. QED BY <1>8, <1>9, <1>11, <1>12 DEF PlaceInv

LEMMA PullNothingPlaces ==
    ASSUME PlaceInv, NEW s \in Subjobs, PullNothing(s) PROVE PlaceInv'
  <1>0. PICK k : k = Skipped(all_pending) OBVIOUS
  <1>1. /\ pc[s] = "pull" /\ k = Len(all_pending) /\ pulled' = pulled + k /\ all_pending' = <<>>
        /\ pc' = [pc EXCEPT ![s] = IF done + abandoned < created THEN "wait" ELSE "end"]
        /\ UNCHANGED <<status, parent, try_again, contender, visited, created, done, abandoned, todo,
                       max_attempts, task, cand, discarded>>
    BY <1>0 DEF PullNothing, tree
  <1>2. pc \in [Subjobs -> {"pull", "wait", "sieve", "end"}] /\ pulled \in Nat
    BY TypeFacts DEF PlaceInv
  <1>3. k \in Nat /\ \A m \in Nodes : status[m] # PENDING BY <1>0, <1>1, PullFacts
  <1>4. Nodes' = Nodes BY <1>1 DEF Nodes
  <1>5. DescentTypeOK'
    <2>1. pulled' \in Nat BY <1>1, <1>2, <1>3
    <2>2. pc' \in [Subjobs -> {"pull", "wait", "sieve", "end"}] BY <1>1, <1>2
    <2>3. all_pending' \in Seq(Nodes) BY <1>1
    <2>4. /\ created' \in Nat /\ todo' \in Nat /\ max_attempts' \in Nat /\ parent' \in [Nodes -> Nodes]
          /\ try_again' \in [Nodes -> 0..max_attempts'] /\ contender' \in [Nodes -> Rels \cup {NoRel}]
          /\ visited' \subseteq Rels /\ cand' \in [Subjobs -> Rels \cup {NoRel}] /\ discarded' \subseteq Nodes
          /\ status' \in [Nodes -> Statuses] /\ task' \in [Subjobs -> Nodes]
      BY <1>1 DEF PlaceInv, DescentTypeOK
    <2>5. QED BY <1>4, <2>1, <2>2, <2>3, <2>4 DEF DescentTypeOK
  <1>6. ShapeInv' BY <1>1, <1>4 DEF PlaceInv, ShapeInv, TreeShape, ParentsWait, Unfinished
  <1>7. QueueInv' BY <1>1, <1>3, <1>4 DEF QueueInv, Queued
  <1>8. HoldersInv'
    <2>1. \A t \in Subjobs : Held(t)' <=> Held(t) BY <1>1, <1>2 DEF Held
    <2>2. \A m : ~Queued(m)' BY <1>1 DEF Queued
    <2>3. \A t \in Subjobs : ~Queued(task[t])' BY <1>1 DEF Queued
    <2>4. QED BY <1>1, <1>4, <2>1, <2>3 DEF PlaceInv, HoldersInv
  <1>9. QED BY <1>5, <1>6, <1>7, <1>8 DEF PlaceInv

(* A tree with new nodes below p is a tree.                                *)
LEMMA GrownShape ==
    ASSUME ShapeInv, NEW k \in Nat, NEW p \in Nodes, NEW st, NEW old, NewNodes(k, p, st, old)
    PROVE  TreeShape'
  <1>1. created \in Nat /\ parent \in [Nodes -> Nodes] /\ Older(parent, created)
    BY DEF ShapeInv, TreeShape
  <1>2. /\ created' = created + k /\ created' \in Nat
        /\ Nodes' = Nodes \cup (created + 1 .. created + k)
        /\ \A m \in Nodes : parent'[m] = parent[m]
        /\ \A m \in created + 1 .. created + k : parent'[m] = p
        /\ \A S : (\A m \in Nodes' : parent'[m] \in S) => parent' \in [Nodes' -> S]
    BY <1>1, NewNodesFacts
  <1>3. Nodes = 0..created BY DEF Nodes
  <1>4. \A m \in Nodes' : parent'[m] \in Nodes' BY <1>1, <1>2
  <1>5. ASSUME NEW m \in 1..created' PROVE parent'[m] \in 0..m - 1
    <2>1. CASE m \in 1..created
      <3>1. m \in Nodes BY <1>1, <1>3, <2>1
      <3>2. parent[m] \in 0..m - 1 BY <1>1, <2>1 DEF Older
      <3>3. QED BY <1>2, <3>1, <3>2
    <2>2. CASE m \in created + 1 .. created + k
      <3>1. parent'[m] = p /\ p \in 0..created BY <1>2, <1>3, <2>2
      <3>2. QED BY <1>1, <2>2, <3>1
    <2>3. QED BY <1>1, <1>2, <2>1, <2>2
  <1>6. QED BY <1>2, <1>4, <1>5 DEF TreeShape, Older

LEMMA PullFreshPlaces ==
    ASSUME PlaceInv, NEW s \in Subjobs, PullFresh(s) PROVE PlaceInv'
  <1>0. PICK k : k = Skipped(all_pending) OBVIOUS
  <1>n. PICK n : n = created + 1 OBVIOUS
  <1>1. /\ pc[s] = "pull" /\ k = Len(all_pending) /\ pulled' = pulled + k + 1 /\ all_pending' = <<>>
        /\ todo > 0 /\ todo' = todo - 1
        /\ NewNodes(1, Forest, IN_PROGRESS, status)
        /\ task' = [task EXCEPT ![s] = n] /\ pc' = [pc EXCEPT ![s] = "sieve"]
        /\ UNCHANGED <<visited, done, abandoned, max_attempts, cand, discarded>>
    BY <1>0, <1>n DEF PullFresh, Start
  <1>2. /\ pc \in [Subjobs -> {"pull", "wait", "sieve", "end"}] /\ pulled \in Nat /\ created \in Nat
        /\ todo \in Nat /\ max_attempts \in Nat /\ task \in [Subjobs -> Nodes]
        /\ status \in [Nodes -> Statuses] /\ try_again \in [Nodes -> 0..max_attempts]
        /\ contender \in [Nodes -> Rels \cup {NoRel}] /\ discarded \subseteq Nodes
    BY TypeFacts DEF PlaceInv
  <1>3. k \in Nat /\ \A m \in Nodes : status[m] # PENDING BY <1>0, <1>1, PullFacts
  <1>4. /\ Nodes' = Nodes \cup {n} /\ n \notin Nodes /\ n # Forest
        /\ created' \in Nat
        /\ \A m \in Nodes : /\ status'[m] = status[m] /\ parent'[m] = parent[m]
                            /\ try_again'[m] = try_again[m] /\ contender'[m] = contender[m]
        /\ status'[n] = IN_PROGRESS /\ parent'[n] = Forest /\ try_again'[n] = 0 /\ contender'[n] = NoRel
        /\ \A S : (\A m \in Nodes' : status'[m] \in S) => status' \in [Nodes' -> S]
        /\ \A S : (\A m \in Nodes' : parent'[m] \in S) => parent' \in [Nodes' -> S]
        /\ \A S : (\A m \in Nodes' : try_again'[m] \in S) => try_again' \in [Nodes' -> S]
        /\ \A S : (\A m \in Nodes' : contender'[m] \in S) => contender' \in [Nodes' -> S]
    <2>1. created + 1 .. created + 1 = {n} BY <1>2, <1>n
    <2>2. n # Forest BY <1>2, <1>n DEF Forest
    <2>3. n \in {n} OBVIOUS
    <2>4. /\ created' \in Nat
          /\ Nodes' = Nodes \cup (created + 1 .. created + 1)
          /\ Nodes \cap (created + 1 .. created + 1) = {}
          /\ \A m \in Nodes : /\ status'[m] = status[m] /\ parent'[m] = parent[m]
                              /\ try_again'[m] = try_again[m] /\ contender'[m] = contender[m]
          /\ \A m \in created + 1 .. created + 1 :
                 /\ status'[m] = IN_PROGRESS /\ parent'[m] = Forest
                 /\ try_again'[m] = 0 /\ contender'[m] = NoRel
          /\ \A S : (\A m \in Nodes' : status'[m] \in S) => status' \in [Nodes' -> S]
          /\ \A S : (\A m \in Nodes' : parent'[m] \in S) => parent' \in [Nodes' -> S]
          /\ \A S : (\A m \in Nodes' : try_again'[m] \in S) => try_again' \in [Nodes' -> S]
          /\ \A S : (\A m \in Nodes' : contender'[m] \in S) => contender' \in [Nodes' -> S]
      <3>1. 1 \in Nat OBVIOUS
      <3>2. QED BY <1>1, <1>2, <3>1, NewNodesFacts
    <2>5. QED BY <2>1, <2>2, <2>3, <2>4
  <1>5. Forest \in Nodes BY NodeFacts DEF PlaceInv
  <1>6. TreeShape' BY <1>1, <1>5, GrownShape DEF PlaceInv
  <1>7. status' \in [Nodes' -> Statuses]
    <2>1. \A m \in Nodes' : status'[m] \in Statuses BY <1>2, <1>4, StatusNames
    <2>2. QED BY <1>4, <2>1
  <1>8. DescentTypeOK'
    <2>1. pulled' \in Nat /\ todo' \in Nat BY <1>1, <1>2, <1>3
    <2>2. task' \in [Subjobs -> Nodes'] /\ pc' \in [Subjobs -> {"pull", "wait", "sieve", "end"}]
      BY <1>1, <1>2, <1>4
    <2>3. try_again' \in [Nodes' -> 0..max_attempts]
      <3>1. \A m \in Nodes' : try_again'[m] \in 0..max_attempts BY <1>2, <1>4
      <3>2. QED BY <1>4, <3>1
    <2>4. contender' \in [Nodes' -> Rels \cup {NoRel}]
      <3>1. \A m \in Nodes' : contender'[m] \in Rels \cup {NoRel} BY <1>2, <1>4
      <3>2. QED BY <1>4, <3>1
    <2>5. all_pending' \in Seq(Nodes') BY <1>1
    <2>6. /\ max_attempts' = max_attempts /\ visited' \subseteq Rels
          /\ cand' \in [Subjobs -> Rels \cup {NoRel}] /\ discarded' \subseteq Nodes'
      BY <1>1, <1>4 DEF PlaceInv, DescentTypeOK
    <2>7. parent' \in [Nodes' -> Nodes'] BY <1>6 DEF TreeShape
    <2>8. QED BY <1>2, <1>4, <1>7, <2>1, <2>2, <2>3, <2>4, <2>5, <2>6, <2>7 DEF DescentTypeOK
  <1>9. ShapeInv'
    <2>1. status'[Forest] = status[Forest] BY <1>4, <1>5
    <2>2. ASSUME NEW m \in Nodes' \ {Forest}, Unfinished(m)'
          PROVE  parent'[m] = Forest \/ status'[parent'[m]] = IN_RECURSION
      <3>1. CASE m = n BY <1>4, <3>1
      <3>2. CASE m # n
        <4>1. m \in Nodes \ {Forest} /\ Unfinished(m) /\ parent[m] \in Nodes
          BY <1>4, <2>2, <3>2, NodeFacts DEF Unfinished, PlaceInv
        <4>2. QED BY <1>4, <4>1 DEF PlaceInv, ShapeInv, ParentsWait
      <3>3. QED BY <3>1, <3>2
    <2>3. QED BY <1>6, <1>7, <2>1, <2>2 DEF PlaceInv, ShapeInv, ParentsWait
  <1>10. QueueInv'
    <2>1. \A m \in Nodes' : status'[m] # PENDING BY <1>3, <1>4, StatusNames
    <2>2. QED BY <1>1, <2>1 DEF QueueInv
  <1>11. HoldersInv'
    <2>1. /\ task'[s] = n /\ Held(s)' /\ ~Held(s)
          /\ \A t \in Subjobs \ {s} : task'[t] = task[t] /\ (Held(t)' <=> Held(t))
      BY <1>1, <1>2 DEF Held
    <2>2. \A t \in Subjobs : task[t] \in Nodes /\ task[t] # n BY <1>2, <1>4
    <2>3. \A t \in Subjobs : ~Queued(task[t])' BY <1>1 DEF Queued
    <2>4. \A t, u \in Subjobs : Held(t)' /\ Held(u)' /\ task'[t] = task'[u] => t = u
      BY <2>1, <2>2 DEF PlaceInv, HoldersInv
    <2>5. \A t \in Subjobs : Held(t)' =>
              /\ task'[t] # Forest /\ status'[task'[t]] \in {IN_PROGRESS, ABANDONED}
              /\ task'[t] \notin discarded
      BY <1>2, <1>4, <2>1, <2>2 DEF PlaceInv, HoldersInv
    <2>6. \A m \in discarded : m # Forest /\ status'[m] \in {IN_PROGRESS, ABANDONED}
      BY <1>2, <1>4 DEF PlaceInv, HoldersInv
    <2>7. \A m \in Nodes' : status'[m] = IN_PROGRESS =>
              m \in discarded \/ \E t \in Subjobs : Held(t)' /\ task'[t] = m
      BY <1>4, <2>1 DEF PlaceInv, HoldersInv
    <2>8. QED BY <1>1, <2>3, <2>4, <2>5, <2>6, <2>7 DEF HoldersInv
  <1>12. QED BY <1>8, <1>9, <1>10, <1>11 DEF PlaceInv

(* A subjob is through with its node.                                      *)
LEMMA Released ==
    ASSUME PlaceInv, NEW s \in Subjobs, Held(s), NotifyAll(s) \/ Resume(s)
    PROVE  /\ pc' \in [Subjobs -> {"pull", "wait", "sieve", "end"}] /\ pc'[s] = "pull"
           /\ ~Held(s)' /\ \A t \in Subjobs \ {s} : Held(t)' <=> Held(t)
  <1>1. pc \in [Subjobs -> {"pull", "wait", "sieve", "end"}] BY TypeFacts DEF PlaceInv
  <1>2. QED BY <1>1 DEF NotifyAll, Resume, Held

LEMMA ReleasedHolders ==
    ASSUME PlaceInv, NEW s \in Subjobs, Held(s), NEW n, n = task[s],
           ~Held(s)', \A t \in Subjobs \ {s} : Held(t)' <=> Held(t), UNCHANGED <<task, discarded>>,
           \A m \in Nodes : m # n /\ status[m] \in {IN_PROGRESS, ABANDONED} =>
               status'[m] \in {IN_PROGRESS, ABANDONED},
           \A m \in Nodes' : status'[m] = IN_PROGRESS => m \in Nodes /\ m # n /\ status[m] = IN_PROGRESS,
           \A t \in Subjobs \ {s} : Held(t) => ~Queued(task[t])'
    PROVE  HoldersInv'
  <1>1. task \in [Subjobs -> Nodes] /\ discarded \subseteq Nodes BY TypeFacts DEF PlaceInv
  <1>2. \A t \in Subjobs \ {s} : Held(t) => task[t] # n BY DEF PlaceInv, HoldersInv
  <1>3. n \notin discarded BY DEF PlaceInv, HoldersInv
  <1>4. \A t, u \in Subjobs : Held(t)' /\ Held(u)' /\ task'[t] = task'[u] => t = u
    BY DEF PlaceInv, HoldersInv
  <1>5. ASSUME NEW t \in Subjobs, Held(t)'
        PROVE  /\ task'[t] # Forest /\ status'[task'[t]] \in {IN_PROGRESS, ABANDONED}
               /\ task'[t] \notin discarded' /\ ~Queued(task[t])'
    <2>1. t # s /\ Held(t) BY <1>5
    <2>2. task[t] \in Nodes /\ task[t] # n BY <1>1, <1>2, <2>1
    <2>3. QED BY <2>1, <2>2 DEF PlaceInv, HoldersInv
  <1>6. \A m \in discarded' : m # Forest /\ status'[m] \in {IN_PROGRESS, ABANDONED}
    BY <1>1, <1>3 DEF PlaceInv, HoldersInv
  <1>7. ASSUME NEW m \in Nodes', status'[m] = IN_PROGRESS
        PROVE  m \in discarded' \/ \E t \in Subjobs : Held(t)' /\ task'[t] = m
    <2>1. m \in Nodes /\ m # n /\ status[m] = IN_PROGRESS BY <1>7
    <2>2. m \in discarded \/ \E t \in Subjobs : Held(t) /\ task[t] = m
      BY <2>1 DEF PlaceInv, HoldersInv
    <2>3. QED BY <2>1, <2>2
  <1>8. QED BY <1>4, <1>5, <1>6, <1>7 DEF HoldersInv

(* take_decision(): what a node that is done changes.                      *)
LEMMA SplitStep ==
    ASSUME PlaceInv, NEW s \in Subjobs, Held(s), status[task[s]] # ABANDONED, Split(s)
    PROVE  LET n == task[s] D == NowDone(task[s]) IN
           /\ n \in Nodes \ {Forest} /\ status[n] = IN_PROGRESS
           /\ n \in D /\ DoneSet(D, n)
           /\ status' \in [Nodes -> Statuses]
           /\ \A m \in D : status'[m] = DONE
           /\ \A m \in Nodes : m \notin D => status'[m] = status[m]
           /\ done' = done + Cardinality(D)
           /\ visited' = visited \cup {contender[n]}
           /\ NotifyAll(s) \/ Resume(s)
           /\ UNCHANGED <<parent, try_again, contender, all_pending, created, pulled, abandoned,
                          todo, max_attempts>>
  <1> DEFINE n == task[s]
             D == NowDone(n)
  <1>1. n \in Nodes \ {Forest} /\ status[n] = IN_PROGRESS
    BY TypeFacts DEF PlaceInv, HoldersInv
  <1>2. n \in D /\ DoneSet(D, n) BY <1>1, NowDoneFacts DEF PlaceInv, Unfinished
  <1>3. /\ status' = [m \in Nodes |-> IF m \in D THEN DONE ELSE status[m]]
        /\ done' = done + Cardinality(D)
        /\ visited' = visited \cup {contender[n]}
        /\ NotifyAll(s) \/ Resume(s)
        /\ UNCHANGED <<parent, try_again, contender, all_pending, created, pulled, abandoned,
                       todo, max_attempts>>
    BY DEF Split
  <1> HIDE DEF n, D
  <1>4. status \in [Nodes -> Statuses] BY TypeFacts DEF PlaceInv
  <1>5. D \subseteq Nodes BY <1>2 DEF DoneSet
  <1>6. /\ status' \in [Nodes -> Statuses] /\ \A m \in D : status'[m] = DONE
        /\ \A m \in Nodes : m \notin D => status'[m] = status[m]
    BY <1>3, <1>4, <1>5, StatusNames
  <1>7. QED BY <1>1, <1>2, <1>3, <1>6 DEF n, D

LEMMA SplitPlaces ==
    ASSUME PlaceInv, NEW s \in Subjobs, Held(s), status[task[s]] # ABANDONED,
           contender[task[s]] # NoRel, Split(s), UNCHANGED <<task, cand, discarded>>
    PROVE  PlaceInv'
  <1>n. PICK n : n = task[s] OBVIOUS
  <1>d. PICK D : D = NowDone(n) OBVIOUS
  <1>1. /\ n \in Nodes \ {Forest} /\ status[n] = IN_PROGRESS /\ n \in D /\ DoneSet(D, n)
        /\ status' \in [Nodes -> Statuses]
        /\ \A m \in D : status'[m] = DONE
        /\ \A m \in Nodes : m \notin D => status'[m] = status[m]
        /\ visited' = visited \cup {contender[n]}
        /\ NotifyAll(s) \/ Resume(s)
        /\ UNCHANGED <<parent, try_again, contender, all_pending, created, pulled, abandoned,
                       todo, max_attempts>>
    BY <1>n, <1>d, SplitStep
  <1>2. Nodes' = Nodes BY <1>1 DEF Nodes
  <1>3. /\ pc' \in [Subjobs -> {"pull", "wait", "sieve", "end"}]
        /\ ~Held(s)' /\ \A t \in Subjobs \ {s} : Held(t)' <=> Held(t)
    BY <1>1, Released
  <1>4. DescentTypeOK'
    <2>1. visited' \subseteq Rels BY <1>1, <1>n, TypeFacts DEF PlaceInv, DescentTypeOK
    <2>2. /\ created' \in Nat /\ todo' \in Nat /\ max_attempts' \in Nat /\ parent' \in [Nodes -> Nodes]
          /\ pulled' \in Nat /\ all_pending' \in Seq(Nodes)
          /\ try_again' \in [Nodes -> 0..max_attempts'] /\ contender' \in [Nodes -> Rels \cup {NoRel}]
          /\ cand' \in [Subjobs -> Rels \cup {NoRel}] /\ discarded' \subseteq Nodes
          /\ task' \in [Subjobs -> Nodes]
      BY <1>1 DEF PlaceInv, DescentTypeOK
    <2>3. QED BY <1>1, <1>2, <1>3, <2>1, <2>2 DEF DescentTypeOK
  <1>5. D \subseteq Nodes \ {Forest} /\ \A m \in D : m = n \/ status[m] = IN_RECURSION
    BY <1>1 DEF DoneSet
  <1>6. ShapeInv'
    <2>1. TreeShape' BY <1>1, <1>2 DEF PlaceInv, ShapeInv, TreeShape
    <2>2. status'[Forest] = status[Forest] BY <1>1, <1>5, NodeFacts DEF PlaceInv
    <2>3. ASSUME NEW m \in Nodes \ {Forest}, Unfinished(m)'
          PROVE  parent[m] = Forest \/ status'[parent[m]] = IN_RECURSION
      <3>1. m \notin D BY <1>1, <2>3, StatusNames DEF Unfinished
      <3>2. Unfinished(m) BY <1>1, <2>3, <3>1 DEF Unfinished
      <3>3. parent[m] \in Nodes BY NodeFacts DEF PlaceInv
      <3>4. parent[m] = Forest \/ status[parent[m]] = IN_RECURSION
        BY <3>2 DEF PlaceInv, ShapeInv, ParentsWait
      <3>5. parent[m] \notin D \/ parent[m] = Forest
        <4> SUFFICES ASSUME parent[m] \in D, parent[m] # Forest PROVE FALSE OBVIOUS
        <4>1. parent[m] # n BY <1>1, <3>4, StatusNames
        <4>2. m \in Children(parent[m]) BY DEF Children
        <4>3. QED BY <1>1, <3>1, <3>2, <4>1, <4>2 DEF DoneSet
      <3>6. QED BY <1>1, <3>3, <3>4, <3>5
    <2>4. QED BY <1>1, <1>2, <2>1, <2>2, <2>3 DEF PlaceInv, ShapeInv, ParentsWait
  <1>7. QueueInv'
    <2>1. \A m \in Nodes : status[m] \in {PENDING, ABANDONED} => status'[m] = status[m]
      BY <1>1, <1>5, StatusNames
    <2>2. \A m \in Nodes : status'[m] = PENDING => status[m] = PENDING BY <1>1, StatusNames
    <2>3. \A i \in DOMAIN all_pending : all_pending[i] \in Nodes BY TypeFacts DEF PlaceInv
    <2>4. QED BY <1>1, <1>2, <2>1, <2>2, <2>3 DEF PlaceInv, QueueInv, Queued
  <1>8. HoldersInv'
    <2>1. \A m \in Nodes : m # n /\ status[m] \in {IN_PROGRESS, ABANDONED} =>
             status'[m] \in {IN_PROGRESS, ABANDONED}
      BY <1>1, <1>5, StatusNames
    <2>2. \A m \in Nodes' : status'[m] = IN_PROGRESS => m \in Nodes /\ m # n /\ status[m] = IN_PROGRESS
      BY <1>1, <1>2, StatusNames
    <2>3. \A t \in Subjobs \ {s} : Held(t) => ~Queued(task[t])'
      BY <1>1 DEF PlaceInv, HoldersInv, Queued
    <2>4. QED BY <1>n, <1>3, <2>1, <2>2, <2>3, ReleasedHolders
  <1>9. QED BY <1>4, <1>6, <1>7, <1>8 DEF PlaceInv

(* take_decision(): what the special-q's of a relation change.             *)
LEMMA RecurseStep ==
    ASSUME PlaceInv, NEW s \in Subjobs, Held(s), status[task[s]] # ABANDONED,
           contender[task[s]] # NoRel, Recurse(s), NEW n, n = task[s],
           NEW k, k = Outstanding[contender[n]]
    PROVE  LET New == created + 1 .. created + k IN
           /\ n \in Nodes \ {Forest} /\ status[n] = IN_PROGRESS /\ contender[n] \in Rels /\ k \in Nat
           /\ created' = created + k /\ created' \in Nat
           /\ Nodes' = Nodes \cup New /\ Nodes \cap New = {}
           /\ status' \in [Nodes' -> Statuses] /\ status'[n] = IN_RECURSION
           /\ \A m \in Nodes : m # n => status'[m] = status[m]
           /\ \A m \in Nodes : /\ parent'[m] = parent[m] /\ try_again'[m] = try_again[m]
                               /\ contender'[m] = contender[m]
           /\ \A m \in New : /\ status'[m] = PENDING /\ parent'[m] = n
                             /\ try_again'[m] = 0 /\ contender'[m] = NoRel
           /\ TreeShape'
           /\ try_again' \in [Nodes' -> 0..max_attempts] /\ contender' \in [Nodes' -> Rels \cup {NoRel}]
           /\ all_pending' \in Seq(Nodes') /\ Len(all_pending') = Len(all_pending) + k
           /\ \A i \in 1..Len(all_pending) : all_pending'[i] = all_pending[i]
           /\ \A i \in Len(all_pending) + 1 .. Len(all_pending) + k :
                 all_pending'[i] = created + (i - Len(all_pending)) /\ all_pending'[i] \in New
           /\ visited' = visited \cup {contender[n]} /\ NotifyAll(s)
           /\ UNCHANGED <<pulled, done, abandoned, todo, max_attempts>>
  <1> DEFINE New == created + 1 .. created + k
             old == [status EXCEPT ![n] = IN_RECURSION]
             q == all_pending
  <1>1. n \in Nodes \ {Forest} /\ status[n] = IN_PROGRESS
    BY TypeFacts DEF PlaceInv, HoldersInv
  <1>2. /\ created \in Nat /\ status \in [Nodes -> Statuses] /\ q \in Seq(Nodes) /\ Len(q) \in Nat
        /\ contender \in [Nodes -> Rels \cup {NoRel}]
        /\ try_again \in [Nodes -> 0..max_attempts] /\ max_attempts \in Nat
    BY TypeFacts DEF PlaceInv
  <1>3. contender[n] \in Rels /\ k \in Nat
    BY <1>1, <1>2, DescentAssumption
  <1>4. /\ NewNodes(k, n, PENDING, old) /\ visited' = visited \cup {contender[n]} /\ NotifyAll(s)
        /\ all_pending' = q \o [i \in 1..k |-> created + i]
        /\ UNCHANGED <<pulled, done, abandoned, todo, max_attempts>>
    BY DEF Recurse
  <1>5. /\ created' = created + k /\ created' \in Nat
        /\ Nodes' = Nodes \cup New /\ Nodes \cap New = {}
        /\ \A m \in Nodes : /\ status'[m] = old[m] /\ parent'[m] = parent[m]
                            /\ try_again'[m] = try_again[m] /\ contender'[m] = contender[m]
        /\ \A m \in New : /\ status'[m] = PENDING /\ parent'[m] = n
                          /\ try_again'[m] = 0 /\ contender'[m] = NoRel
        /\ \A S : (\A m \in Nodes' : status'[m] \in S) => status' \in [Nodes' -> S]
        /\ \A S : (\A m \in Nodes' : try_again'[m] \in S) => try_again' \in [Nodes' -> S]
        /\ \A S : (\A m \in Nodes' : contender'[m] \in S) => contender' \in [Nodes' -> S]
    <2> HIDE DEF old
    <2>1. QED BY <1>2, <1>3, <1>4, NewNodesFacts
  <1>6. status'[n] = IN_RECURSION /\ \A m \in Nodes : m # n => status'[m] = status[m]
    BY <1>1, <1>2, <1>5
  <1>7. status' \in [Nodes' -> Statuses]
    <2>1. \A m \in Nodes' : status'[m] \in Statuses BY <1>2, <1>5, <1>6, StatusNames
    <2>2. QED BY <1>5, <2>1
  <1>8. TreeShape'
    <2> HIDE DEF old
    <2>1. QED BY <1>1, <1>3, <1>4, GrownShape DEF PlaceInv
  <1>9. try_again' \in [Nodes' -> 0..max_attempts]
    <2>1. \A m \in Nodes' : try_again'[m] \in 0..max_attempts BY <1>2, <1>5
    <2>2. QED BY <1>5, <2>1
  <1>10. contender' \in [Nodes' -> Rels \cup {NoRel}]
    <2>1. \A m \in Nodes' : contender'[m] \in Rels \cup {NoRel} BY <1>2, <1>5
    <2>2. QED BY <1>5, <2>1
  <1>11. /\ all_pending' \in Seq(Nodes') /\ Len(all_pending') = Len(q) + k
         /\ \A i \in 1..Len(q) : all_pending'[i] = q[i]
         /\ \A i \in Len(q) + 1 .. Len(q) + k : all_pending'[i] = created + (i - Len(q))
    <2> DEFINE w == [i \in 1..k |-> created + i]
    <2>1. \A i \in 1..k : created + i \in New BY <1>2, <1>3
    <2>2. w \in Seq(Nodes') /\ Len(w) = k /\ \A i \in 1..k : w[i] = created + i
      BY <1>3, <1>5, <2>1
    <2>3. q \in Seq(Nodes') BY <1>2, <1>5
    <2>4. all_pending' = q \o w BY <1>4
    <2> HIDE DEF w
    <2>5. all_pending' \in Seq(Nodes') /\ Len(all_pending') = Len(q) + k
      BY <2>2, <2>3, <2>4
    <2>6. \A i \in 1..Len(q) : all_pending'[i] = q[i] BY <1>2, <1>3, <2>2, <2>3, <2>4
    <2>7. ASSUME NEW i \in Len(q) + 1 .. Len(q) + k PROVE all_pending'[i] = created + (i - Len(q))
      <3>1. i - Len(q) \in 1..k /\ i \in 1..Len(q) + k /\ i > Len(q) BY <1>2, <1>3
      <3>2. all_pending'[i] = w[i - Len(q)] BY <1>2, <2>2, <2>3, <2>4, <3>1
      <3>3. QED BY <2>2, <3>1, <3>2
    <2>8. QED BY <2>5, <2>6, <2>7
  <1>12. \A i \in Len(q) + 1 .. Len(q) + k : all_pending'[i] \in New
    BY <1>2, <1>3, <1>11, SMTT(30)
  <1>13. QED BY <1>1, <1>3, <1>4, <1>5, <1>6, <1>7, <1>8, <1>9, <1>10, <1>11, <1>12

LEMMA RecursePlaces ==
    ASSUME PlaceInv, NEW s \in Subjobs, Held(s), status[task[s]] # ABANDONED,
           contender[task[s]] # NoRel, Recurse(s), UNCHANGED <<task, cand, discarded>>
    PROVE  PlaceInv'
  <1>n. PICK n : n = task[s] OBVIOUS
  <1>k. PICK k : k = Outstanding[contender[n]] OBVIOUS
  <1> DEFINE New == created + 1 .. created + k
             q == all_pending
  <1>1. /\ n \in Nodes \ {Forest} /\ status[n] = IN_PROGRESS /\ contender[n] \in Rels /\ k \in Nat
        /\ created' = created + k /\ created' \in Nat
        /\ Nodes' = Nodes \cup New /\ Nodes \cap New = {}
        /\ status' \in [Nodes' -> Statuses] /\ status'[n] = IN_RECURSION
        /\ \A m \in Nodes : m # n => status'[m] = status[m]
        /\ \A m \in Nodes : parent'[m] = parent[m]
        /\ \A m \in New : status'[m] = PENDING /\ parent'[m] = n
        /\ TreeShape'
        /\ try_again' \in [Nodes' -> 0..max_attempts] /\ contender' \in [Nodes' -> Rels \cup {NoRel}]
        /\ visited' = visited \cup {contender[n]} /\ NotifyAll(s)
        /\ UNCHANGED <<pulled, done, abandoned, todo, max_attempts>>
    BY <1>n, <1>k, RecurseStep, SMTT(30)
  <1>2. /\ all_pending' \in Seq(Nodes') /\ Len(all_pending') = Len(q) + k
        /\ \A i \in 1..Len(q) : all_pending'[i] = q[i]
        /\ \A i \in Len(q) + 1 .. Len(q) + k :
              all_pending'[i] = created + (i - Len(q)) /\ all_pending'[i] \in New
    BY <1>n, <1>k, RecurseStep, SMTT(30)
  <1>3. /\ created \in Nat /\ q \in Seq(Nodes) /\ Len(q) \in Nat /\ DOMAIN q = 1..Len(q)
        /\ \A i \in DOMAIN q : q[i] \in Nodes
        /\ task \in [Subjobs -> Nodes] /\ discarded \subseteq Nodes
    BY TypeFacts DEF PlaceInv
  <1>4. /\ pc' \in [Subjobs -> {"pull", "wait", "sieve", "end"}]
        /\ ~Held(s)' /\ \A t \in Subjobs \ {s} : Held(t)' <=> Held(t)
    BY <1>1, Released
  <1>5. DOMAIN all_pending' = 1..Len(q) + k BY <1>1, <1>2, <1>3
  <1> HIDE DEF New
  <1>6. DescentTypeOK'
    <2>1. visited' \subseteq Rels BY <1>1 DEF PlaceInv, DescentTypeOK
    <2>2. /\ todo' \in Nat /\ max_attempts' \in Nat /\ pulled' \in Nat /\ max_attempts' = max_attempts
          /\ cand' \in [Subjobs -> Rels \cup {NoRel}]
      BY <1>1 DEF PlaceInv, DescentTypeOK
    <2>3. discarded' \subseteq Nodes' /\ task' \in [Subjobs -> Nodes'] BY <1>1, <1>3
    <2>4. parent' \in [Nodes' -> Nodes'] BY <1>1 DEF TreeShape
    <2>5. QED BY <1>1, <1>2, <1>4, <2>1, <2>2, <2>3, <2>4 DEF DescentTypeOK
  <1>7. ShapeInv'
    <2>1. status'[Forest] = status[Forest] BY <1>1, NodeFacts DEF PlaceInv
    <2>2. ASSUME NEW m \in Nodes' \ {Forest}, Unfinished(m)'
          PROVE  parent'[m] = Forest \/ status'[parent'[m]] = IN_RECURSION
      <3>1. CASE m \in New BY <1>1, <3>1
      <3>2. CASE m \in Nodes
        <4>1. Unfinished(m) BY <1>1, <2>2, <3>2 DEF Unfinished
        <4>2. parent'[m] = parent[m] /\ parent[m] \in Nodes BY <1>1, <3>2, NodeFacts DEF PlaceInv
        <4>3. parent[m] = Forest \/ status[parent[m]] = IN_RECURSION
          BY <2>2, <3>2, <4>1 DEF PlaceInv, ShapeInv, ParentsWait
        <4>4. QED BY <1>1, <4>2, <4>3
      <3>3. QED BY <1>1, <3>1, <3>2
    <2>3. QED BY <1>1, <2>1, <2>2 DEF PlaceInv, ShapeInv, ParentsWait
  <1>8. ASSUME NEW i \in DOMAIN all_pending'
        PROVE  \/ i \in DOMAIN q /\ all_pending'[i] = q[i] /\ q[i] \in Nodes
               \/ /\ i \in Len(q) + 1 .. Len(q) + k /\ all_pending'[i] \in New
                  /\ all_pending'[i] = created + (i - Len(q))
    BY <1>1, <1>2, <1>3, <1>5
  <1>9. QueueInv'
    <2>1. ASSUME NEW i \in DOMAIN all_pending', NEW j \in DOMAIN all_pending',
                 all_pending'[i] = all_pending'[j]
          PROVE  i = j
      <3>1. CASE i \in DOMAIN q /\ all_pending'[i] = q[i] /\ q[i] \in Nodes
        <4>1. j \in DOMAIN q /\ all_pending'[j] = q[j] BY <1>1, <1>8, <2>1, <3>1
        <4>2. QED BY <2>1, <3>1, <4>1 DEF PlaceInv, QueueInv
      <3>2. CASE /\ i \in Len(q) + 1 .. Len(q) + k /\ all_pending'[i] \in New
                 /\ all_pending'[i] = created + (i - Len(q))
        <4>1. j \in Len(q) + 1 .. Len(q) + k /\ all_pending'[j] = created + (j - Len(q))
          BY <1>1, <1>8, <2>1, <3>2
        <4>2. created + (i - Len(q)) = created + (j - Len(q)) BY <2>1, <3>2, <4>1
        <4>3. i \in Nat /\ j \in Nat BY <1>1, <1>3, <3>2, <4>1
        <4>4. QED BY <1>3, <4>2, <4>3
      <3>3. QED BY <1>8, <3>1, <3>2
    <2>2. ASSUME NEW i \in DOMAIN all_pending'
          PROVE  all_pending'[i] # Forest /\ status'[all_pending'[i]] \in {PENDING, ABANDONED}
      <3>1. CASE i \in DOMAIN q /\ all_pending'[i] = q[i] /\ q[i] \in Nodes
        <4>1. q[i] # Forest /\ status[q[i]] \in {PENDING, ABANDONED}
          BY <3>1 DEF PlaceInv, QueueInv
        <4>2. q[i] # n BY <1>1, <4>1, StatusNames
        <4>3. QED BY <1>1, <3>1, <4>1, <4>2
      <3>2. CASE all_pending'[i] \in New
        <4>1. Forest \in Nodes BY NodeFacts DEF PlaceInv
        <4>2. QED BY <1>1, <3>2, <4>1
      <3>3. QED BY <1>8, <3>1, <3>2
    <2>3. ASSUME NEW m \in Nodes', status'[m] = PENDING PROVE Queued(m)'
      <3>1. CASE m \in Nodes
        <4>1. status[m] = PENDING BY <1>1, <2>3, <3>1, StatusNames
        <4>2. PICK i \in DOMAIN q : q[i] = m BY <3>1, <4>1 DEF PlaceInv, QueueInv, Queued
        <4>3. i \in DOMAIN all_pending' /\ all_pending'[i] = m BY <1>1, <1>2, <1>3, <1>5, <4>2
        <4>4. QED BY <4>3 DEF Queued
      <3>2. CASE m \in New
        <4>1. m - created \in 1..k /\ m \in Nat BY <1>1, <1>3, <3>2 DEF New
        <4>2. PICK i : i = Len(q) + (m - created) OBVIOUS
        <4>3. i \in Len(q) + 1 .. Len(q) + k /\ created + (i - Len(q)) = m
          BY <1>1, <1>3, <4>1, <4>2
        <4>4. i \in DOMAIN all_pending' BY <1>1, <1>3, <1>5, <4>3
        <4>5. all_pending'[i] = m BY <1>2, <4>3
        <4>6. QED BY <4>4, <4>5 DEF Queued
      <3>3. QED BY <1>1, <3>1, <3>2
    <2>4. QED BY <2>1, <2>2, <2>3 DEF QueueInv
  <1>10. HoldersInv'
    <2>1. \A m \in Nodes : m # n /\ status[m] \in {IN_PROGRESS, ABANDONED} =>
             status'[m] \in {IN_PROGRESS, ABANDONED}
      BY <1>1
    <2>2. \A m \in Nodes' : status'[m] = IN_PROGRESS => m \in Nodes /\ m # n /\ status[m] = IN_PROGRESS
      BY <1>1, StatusNames
    <2>3. ASSUME NEW t \in Subjobs \ {s}, Held(t) PROVE ~Queued(task[t])'
      <3>1. task'[t] = task[t] /\ task[t] \in Nodes /\ ~Queued(task[t])
        BY <1>3, <2>3 DEF PlaceInv, HoldersInv
      <3>2. QED BY <1>1, <1>8, <3>1 DEF Queued
    <2>4. QED BY <1>n, <1>4, <2>1, <2>2, <2>3, ReleasedHolders
  <1>11. QED BY <1>6, <1>7, <1>9, <1>10 DEF PlaceInv

LEMMA AbandonPlaces ==
    ASSUME PlaceInv, NEW s \in Subjobs, Held(s), Abandon(s), UNCHANGED <<task, cand, discarded>>
    PROVE  PlaceInv'
  <1>n. PICK n : n = task[s] OBVIOUS
  <1>d. PICK D : D = Dead(n) OBVIOUS
  <1>r. PICK R : R = Retried(n) OBVIOUS
  <1> DEFINE q == all_pending
  <1>1. /\ AbandonSets(D, R, n) /\ n \in Nodes \ {Forest}
        /\ status' \in [Nodes -> Statuses] /\ try_again' \in [Nodes -> 0..max_attempts]
        /\ \A m \in D : status'[m] = ABANDONED
        /\ \A m \in R : status'[m] = PENDING
        /\ \A m \in Nodes : m \notin D \cup R => status'[m] = status[m]
        /\ R = {} => all_pending' = q
        /\ \A m \in R : all_pending' = Append(q, m)
        /\ pc' = [pc EXCEPT ![s] = "pull"]
        /\ UNCHANGED <<parent, contender, visited, created, pulled, done, todo, max_attempts>>
    BY <1>n, <1>d, <1>r, AbandonStep
  <1>2. Nodes' = Nodes BY <1>1 DEF Nodes
  <1>3. /\ q \in Seq(Nodes) /\ Len(q) \in Nat /\ DOMAIN q = 1..Len(q)
        /\ \A i \in DOMAIN q : q[i] \in Nodes
        /\ task \in [Subjobs -> Nodes]
    BY TypeFacts DEF PlaceInv
  <1>4. /\ pc' \in [Subjobs -> {"pull", "wait", "sieve", "end"}]
        /\ ~Held(s)' /\ \A t \in Subjobs \ {s} : Held(t)' <=> Held(t)
    BY <1>1, Released DEF Resume
  <1>5. D \subseteq Nodes /\ R \subseteq Nodes \ {Forest} /\ D \cap R = {} BY <1>1 DEF AbandonSets
  <1>6. status[n] \in {IN_PROGRESS, ABANDONED} BY <1>n DEF PlaceInv, HoldersInv
  <1>7. ASSUME NEW m \in R
        PROVE  /\ all_pending' \in Seq(Nodes) /\ DOMAIN all_pending' = 1..Len(q) + 1
               /\ all_pending'[Len(q) + 1] = m /\ \A i \in 1..Len(q) : all_pending'[i] = q[i]
    <2>1. all_pending' = Append(q, m) BY <1>1
    <2>2. m \in Nodes BY <1>5
    <2>3. q \in Seq(Nodes) BY <1>3
    <2> HIDE DEF q
    <2>4. QED BY <2>1, <2>2, <2>3
  <1>8. all_pending' \in Seq(Nodes) BY <1>1, <1>3, <1>7
  <1>9. DescentTypeOK'
    <2>1. /\ created' \in Nat /\ todo' \in Nat /\ max_attempts' \in Nat /\ parent' \in [Nodes -> Nodes]
          /\ pulled' \in Nat /\ max_attempts' = max_attempts /\ visited' \subseteq Rels
          /\ contender' \in [Nodes -> Rels \cup {NoRel}]
          /\ cand' \in [Subjobs -> Rels \cup {NoRel}] /\ discarded' \subseteq Nodes
          /\ task' \in [Subjobs -> Nodes]
      BY <1>1 DEF PlaceInv, DescentTypeOK
    <2>2. QED BY <1>1, <1>2, <1>4, <1>8, <2>1 DEF DescentTypeOK
  <1>10. ShapeInv'
    <2>1. TreeShape' BY <1>1, <1>2 DEF PlaceInv, ShapeInv, TreeShape
    <2>2. status'[Forest] \in {IN_RECURSION, ABANDONED}
      <3>1. Forest \in Nodes BY NodeFacts DEF PlaceInv
      <3>2. QED BY <1>1, <1>5, <3>1 DEF PlaceInv, ShapeInv
    <2>3. ASSUME NEW m \in Nodes \ {Forest}, Unfinished(m)'
          PROVE  parent[m] = Forest \/ status'[parent[m]] = IN_RECURSION
      <3>1. m \notin D BY <1>1, <2>3, StatusNames DEF Unfinished
      <3>2. Unfinished(m) BY <1>1, <2>3, <3>1 DEF Unfinished, AbandonSets
      <3>3. parent[m] \in Nodes /\ parent[m] \notin D \cup R
        BY <1>1, <3>1, <3>2, NodeFacts DEF PlaceInv, AbandonSets
      <3>4. QED BY <1>1, <3>2, <3>3 DEF PlaceInv, ShapeInv, ParentsWait
    <2>4. QED BY <1>1, <1>2, <2>1, <2>2, <2>3 DEF ShapeInv, ParentsWait
  <1>11. \A m \in R : ~Queued(m)
    <2> SUFFICES ASSUME NEW m \in R, Queued(m) PROVE FALSE OBVIOUS
    <2>1. status[m] \in {PENDING, ABANDONED} BY DEF Queued, PlaceInv, QueueInv
    <2>2. m = n BY <1>1, <2>1, StatusNames DEF AbandonSets
    <2>3. QED BY <1>n, <2>2 DEF PlaceInv, HoldersInv
  <1>12. ASSUME NEW i \in DOMAIN all_pending'
         PROVE  \/ i \in DOMAIN q /\ all_pending'[i] = q[i] /\ q[i] \in Nodes
                \/ i = Len(q) + 1 /\ all_pending'[i] \in R
    <2>1. CASE R = {} BY <1>1, <1>3, <2>1
    <2>2. ASSUME NEW m \in R
          PROVE  \/ i \in DOMAIN q /\ all_pending'[i] = q[i] /\ q[i] \in Nodes
                 \/ i = Len(q) + 1 /\ all_pending'[i] \in R
      <3>1. i \in 1..Len(q) + 1 BY <1>7, <2>2
      <3>2. i \in 1..Len(q) \/ i = Len(q) + 1 BY <1>3, <3>1
      <3>3. QED BY <1>3, <1>7, <2>2, <3>2
    <2>3. QED BY <2>1, <2>2
  <1>13. QueueInv'
    <2>1. ASSUME NEW i \in DOMAIN all_pending', NEW j \in DOMAIN all_pending',
                 all_pending'[i] = all_pending'[j]
          PROVE  i = j
      <3>1. CASE i \in DOMAIN q /\ all_pending'[i] = q[i]
        <4>1. all_pending'[j] \notin R BY <1>11, <2>1, <3>1 DEF Queued
        <4>2. QED BY <1>12, <2>1, <3>1, <4>1 DEF PlaceInv, QueueInv
      <3>2. CASE i = Len(q) + 1 /\ all_pending'[i] \in R
        <4>1. j = Len(q) + 1 BY <1>11, <1>12, <2>1, <3>2 DEF Queued
        <4>2. QED BY <3>2, <4>1
      <3>3. QED BY <1>12, <3>1, <3>2
    <2>2. ASSUME NEW i \in DOMAIN all_pending'
          PROVE  all_pending'[i] # Forest /\ status'[all_pending'[i]] \in {PENDING, ABANDONED}
      <3>1. CASE i \in DOMAIN q /\ all_pending'[i] = q[i] /\ q[i] \in Nodes
        <4>1. q[i] # Forest /\ status[q[i]] \in {PENDING, ABANDONED}
          BY <3>1 DEF PlaceInv, QueueInv
        <4>2. status'[q[i]] \in {PENDING, ABANDONED} BY <1>1, <3>1, <4>1
        <4>3. QED BY <3>1, <4>1, <4>2
      <3>2. CASE all_pending'[i] \in R BY <1>1, <1>5, <3>2
      <3>3. QED BY <1>12, <3>1, <3>2
    <2>3. ASSUME NEW m \in Nodes, status'[m] = PENDING PROVE Queued(m)'
      <3>1. CASE m \in R
        <4>1. Len(q) + 1 \in DOMAIN all_pending' /\ all_pending'[Len(q) + 1] = m
          BY <1>3, <1>7, <3>1
        <4>2. QED BY <4>1 DEF Queued
      <3>2. CASE m \notin R
        <4>1. status[m] = PENDING BY <1>1, <2>3, <3>2, StatusNames
        <4>2. PICK i \in DOMAIN q : q[i] = m BY <4>1 DEF PlaceInv, QueueInv, Queued
        <4>3. i \in DOMAIN all_pending' /\ all_pending'[i] = m
          <5>1. CASE R = {} BY <1>1, <4>2, <5>1
          <5>2. ASSUME NEW x \in R PROVE i \in DOMAIN all_pending' /\ all_pending'[i] = m
            BY <1>3, <1>7, <4>2, <5>2
          <5>3. QED BY <5>1, <5>2
        <4>4. QED BY <4>3 DEF Queued
      <3>3. QED BY <3>1, <3>2
    <2>4. QED BY <1>2, <2>1, <2>2, <2>3 DEF QueueInv
  <1>14. HoldersInv'
    <2>0. \A m \in R : m # n => status[m] = IN_RECURSION BY <1>1 DEF AbandonSets
    <2>1. \A m \in Nodes : m # n /\ status[m] \in {IN_PROGRESS, ABANDONED} =>
             status'[m] \in {IN_PROGRESS, ABANDONED}
      BY <1>1, <2>0, StatusNames
    <2>2. ASSUME NEW m \in Nodes', status'[m] = IN_PROGRESS
          PROVE  m \in Nodes /\ m # n /\ status[m] = IN_PROGRESS
      <3>1. m \in Nodes /\ m \notin D \cup R BY <1>1, <1>2, <2>2, StatusNames
      <3>2. status[m] = IN_PROGRESS BY <1>1, <2>2, <3>1
      <3>3. m # n BY <1>1, <3>1, <3>2 DEF AbandonSets, Unfinished
      <3>4. QED BY <3>1, <3>2, <3>3
    <2>3. ASSUME NEW t \in Subjobs \ {s}, Held(t) PROVE ~Queued(task[t])'
      <3>1. task'[t] = task[t] /\ ~Queued(task[t]) /\ task[t] # n
        BY <1>n, <1>3, <2>3 DEF PlaceInv, HoldersInv
      <3>2. status[task[t]] # IN_RECURSION BY <2>3, StatusNames DEF PlaceInv, HoldersInv
      <3>3. task[t] \notin R BY <2>0, <3>1, <3>2
      <3>4. QED BY <1>12, <3>1, <3>3 DEF Queued
    <2>4. QED BY <1>n, <1>4, <2>1, <2>2, <2>3, ReleasedHolders
  <1>15. QED BY <1>9, <1>10, <1>13, <1>14 DEF PlaceInv

LEMMA PostprocessPlaces ==
    ASSUME PlaceInv, NEW s \in Subjobs, Postprocess(s) PROVE PlaceInv'
  <1>1. Held(s) /\ UNCHANGED <<task, cand, discarded>> BY DEF Postprocess, Ready, Held
  <1>2. CASE Abandon(s) BY <1>1, <1>2, AbandonPlaces
  <1>3. CASE Resume(s) /\ UNCHANGED <<tree, all_pending, counters>> /\ status[task[s]] = ABANDONED
    <2>1. Nodes' = Nodes BY <1>3 DEF counters, Nodes
    <2>2. /\ pc' \in [Subjobs -> {"pull", "wait", "sieve", "end"}]
          /\ ~Held(s)' /\ \A t \in Subjobs \ {s} : Held(t)' <=> Held(t)
      BY <1>1, <1>3, Released
    <2>3. DescentTypeOK'
      BY <1>1, <1>3, <2>1, <2>2 DEF PlaceInv, DescentTypeOK, tree, counters
    <2>4. ShapeInv'
      BY <1>3, <2>1 DEF PlaceInv, ShapeInv, TreeShape, ParentsWait, Unfinished, tree, counters
    <2>5. QueueInv' BY <1>3, <2>1 DEF PlaceInv, QueueInv, Queued, tree
    <2>6. HoldersInv'
      <3>1. UNCHANGED <<status, all_pending>> BY <1>3 DEF tree
      <3>2. \A m \in Nodes' : status'[m] = IN_PROGRESS =>
                m \in Nodes /\ m # task[s] /\ status[m] = IN_PROGRESS
        BY <1>3, <2>1, <3>1, StatusNames
      <3>3. \A t \in Subjobs \ {s} : Held(t) => ~Queued(task[t])'
        BY <1>1, <3>1 DEF PlaceInv, HoldersInv, Queued
      <3>4. PICK n : n = task[s] OBVIOUS
      <3>5. QED BY <1>1, <2>2, <3>1, <3>2, <3>3, <3>4, ReleasedHolders
    <2>7. QED BY <2>3, <2>4, <2>5, <2>6 DEF PlaceInv
  <1>4. CASE contender[task[s]] # NoRel /\ status[task[s]] # ABANDONED /\ Split(s)
    BY <1>1, <1>4, SplitPlaces
  <1>5. CASE contender[task[s]] # NoRel /\ status[task[s]] # ABANDONED /\ Recurse(s)
    BY <1>1, <1>5, RecursePlaces
  <1>6. QED BY <1>2, <1>3, <1>4, <1>5 DEF Postprocess

LEMMA NextPlaces == PlaceInv /\ [Next]_vars => PlaceInv'
  <1> SUFFICES ASSUME PlaceInv, [Next]_vars PROVE PlaceInv' OBVIOUS
  <1>1. CASE UNCHANGED vars
    <2>1. UNCHANGED <<status, parent, try_again, contender, visited, all_pending, created, pulled,
                      done, abandoned, todo, max_attempts, pc, task, cand, discarded>>
      BY <1>1 DEF vars, tree, counters, jobs
    <2>2. Nodes' = Nodes BY <2>1 DEF Nodes
    <2>3. DescentTypeOK' BY <2>1, <2>2 DEF PlaceInv, DescentTypeOK
    <2>4. \A s \in Subjobs : Held(s)' <=> Held(s) BY <2>1 DEF Held
    <2>5. QED BY <2>1, <2>3, <2>4, SamePlaces
  <1>2. CASE Ended BY <1>1, <1>2 DEF Ended
  <1>3. ASSUME NEW s \in Subjobs, SubjobStep(s) \/ Postprocess(s) \/ Discard(s) \/ SpuriousWakeup(s)
        PROVE  PlaceInv'
    BY <1>3, PullPendingPlaces, PullFreshPlaces, PullNothingPlaces, CandidatePlaces,
       PostprocessPlaces, DiscardPlaces, SpuriousPlaces DEF SubjobStep
  <1>4. ASSUME NEW s \in Subjobs, NEW r \in Rels, FindRelation(s, r) PROVE PlaceInv'
    BY <1>4, FindPlaces
  <1>5. QED BY <1>1, <1>2, <1>3, <1>4 DEF Next

LEMMA PlaceInvAlways == Spec => []PlaceInv
  BY InitPlaces, NextPlaces, PTL DEF Spec

(* The lists of the tree as sets with at most one element.                 *)
LEMMA AtMostOne ==
    ASSUME NEW S, \A x, y \in S : x = y
    PROVE  Cardinality(S) \in {0, 1} /\ (Cardinality(S) = 1 <=> S # {})
  <1>1. CASE S = {} BY <1>1, FS_EmptySet
  <1>2. ASSUME NEW x \in S PROVE Cardinality(S) = 1
    <2>1. S = {x} BY <1>2
    <2>2. QED BY <2>1, FS_Singleton
  <1>3. QED BY <1>1, <1>2

LEMMA PlacesAreOne == PlaceInv => EveryNodeInOnePlace
  <1> SUFFICES ASSUME PlaceInv, NEW n \in Nodes \ {Forest}
               PROVE  LET At == Cardinality({i \in DOMAIN all_pending : all_pending[i] = n})
                          Holders == Cardinality({s \in Subjobs : pc[s] = "sieve" /\ task[s] = n})
                      IN  /\ At + Holders <= 1
                          /\ status[n] = PENDING => At = 1
                          /\ status[n] = IN_PROGRESS <=>
                                (Holders = 1 \/ n \in discarded) /\ status[n] # ABANDONED
                          /\ Unfinished(n) => parent[n] = Forest \/ status[parent[n]] = IN_RECURSION
    BY DEF EveryNodeInOnePlace
  <1> DEFINE A == {i \in DOMAIN all_pending : all_pending[i] = n}
             H == {s \in Subjobs : pc[s] = "sieve" /\ task[s] = n}
  <1>1. \A x, y \in A : x = y BY DEF PlaceInv, QueueInv
  <1>2. \A x, y \in H : x = y BY DEF PlaceInv, HoldersInv, Held
  <1>3. A = {} \/ H = {} BY DEF PlaceInv, HoldersInv, Held, Queued
  <1>4. status[n] = PENDING => A # {} BY DEF PlaceInv, QueueInv, Queued
  <1>5. status[n] = IN_PROGRESS <=> (H # {} \/ n \in discarded) /\ status[n] # ABANDONED
    <2>1. status[n] = IN_PROGRESS => H # {} \/ n \in discarded BY DEF PlaceInv, HoldersInv, Held
    <2>2. H # {} \/ n \in discarded => status[n] \in {IN_PROGRESS, ABANDONED}
      BY DEF PlaceInv, HoldersInv, Held
    <2>3. QED BY <2>1, <2>2, StatusNames
  <1>6. Unfinished(n) => parent[n] = Forest \/ status[parent[n]] = IN_RECURSION
    BY DEF PlaceInv, ShapeInv, ParentsWait
  <1> HIDE DEF A, H
  <1>7. Cardinality(A) \in {0, 1} /\ (Cardinality(A) = 1 <=> A # {}) BY <1>1, AtMostOne
  <1>8. Cardinality(H) \in {0, 1} /\ (Cardinality(H) = 1 <=> H # {}) BY <1>2, AtMostOne
  <1>9. /\ Cardinality(A) + Cardinality(H) <= 1
        /\ status[n] = PENDING => Cardinality(A) = 1
        /\ status[n] = IN_PROGRESS <=>
              (Cardinality(H) = 1 \/ n \in discarded) /\ status[n] # ABANDONED
    BY <1>3, <1>4, <1>5, <1>7, <1>8
  <1>10. QED BY <1>6, <1>9 DEF A, H

(* las-special-q-task-collection.cpp loses no special-q and hands none out *)
(* twice, for any tree, any number of subjobs and of attempts.             *)
THEOREM NodesAreInOnePlace == Spec => []EveryNodeInOnePlace
  BY PlaceInvAlways, PlacesAreOne, PTL

-----------------------------------------------------------------------------
(* Whoever puts a node in the queue, or leaves one there, stays awake.     *)
LEMMA ServedNext ==
    ASSUME PlaceInv, PendingNodesAreServed, [Next]_vars PROVE PendingNodesAreServed'
  <1> DEFINE Awake(s) == pc'[s] \in {"pull", "sieve"}
  <1>0. pc \in [Subjobs -> {"pull", "wait", "sieve", "end"}] BY TypeFacts DEF PlaceInv
  <1>1. CASE UNCHANGED vars BY <1>1 DEF vars, tree, jobs, PendingNodesAreServed
  <1>2. CASE Ended BY <1>1, <1>2 DEF Ended
  <1>3. ASSUME NEW s \in Subjobs, PullPending(s) \/ PullFresh(s) PROVE PendingNodesAreServed'
    <2>1. Awake(s) BY <1>0, <1>3 DEF PullPending, PullFresh, Start
    <2>2. QED BY <2>1 DEF PendingNodesAreServed
  <1>4. ASSUME NEW s \in Subjobs, PullNothing(s) PROVE PendingNodesAreServed'
    BY <1>4 DEF PullNothing, PendingNodesAreServed
  <1>5. ASSUME NEW s \in Subjobs, new_candidate_relation(s) PROVE PendingNodesAreServed'
    <2>1. Awake(s) BY <1>5 DEF new_candidate_relation
    <2>2. QED BY <2>1 DEF PendingNodesAreServed
  <1>6. ASSUME NEW s \in Subjobs, Postprocess(s) PROVE PendingNodesAreServed'
    <2>1. Held(s) /\ (NotifyAll(s) \/ Resume(s))
      BY <1>6 DEF Postprocess, Ready, Held, Abandon, Split, Recurse
    <2>2. Awake(s) BY <2>1, Released
    <2>3. QED BY <2>2 DEF PendingNodesAreServed
  <1>7. ASSUME NEW s \in Subjobs, Discard(s) \/ SpuriousWakeup(s) PROVE PendingNodesAreServed'
    <2>1. Awake(s) BY <1>0, <1>7 DEF Discard, SpuriousWakeup, Resume
    <2>2. QED BY <2>1 DEF PendingNodesAreServed
  <1>8. ASSUME NEW s \in Subjobs, NEW r \in Rels, FindRelation(s, r) PROVE PendingNodesAreServed'
    <2>1. Awake(s) BY <1>8 DEF FindRelation
    <2>2. QED BY <2>1 DEF PendingNodesAreServed
  <1>9. QED BY <1>1, <1>2, <1>3, <1>4, <1>5, <1>6, <1>7, <1>8 DEF Next, SubjobStep

(* pull() and abandon_node(): while a node waits in all_pending some       *)
(* subjob is awake, although failures notify nobody.                       *)
THEOREM PendingIsServed == Spec => []PendingNodesAreServed
  <1>1. Init => PendingNodesAreServed BY DEF Init, PendingNodesAreServed
  <1>2. PlaceInv /\ PendingNodesAreServed /\ [Next]_vars => PendingNodesAreServed' BY ServedNext
  <1>3. QED BY <1>1, <1>2, PlaceInvAlways, PTL DEF Spec

-----------------------------------------------------------------------------
(* The nodes above a node are nodes; above one with something left to do   *)
(* they wait in recursion.                                                 *)
AboveWaits ==
    \A n \in Nodes : /\ Above[n] \subseteq Nodes
                     /\ Unfinished(n) => \A a \in Above[n] \ {Forest} : status[a] = IN_RECURSION

LEMMA WaitingAbove == ShapeInv => AboveWaits
  <1> SUFFICES ASSUME ShapeInv PROVE AboveWaits OBVIOUS
  <1>1. AboveEqs BY AboveIs DEF ShapeInv
  <1> DEFINE Good(n) == /\ Above[n] \subseteq Nodes
                        /\ Unfinished(n) => \A a \in Above[n] \ {Forest} : status[a] = IN_RECURSION
             T == {n \in Nodes : ~Good(n)}
  <1>2. SUFFICES ASSUME T # {} PROVE FALSE BY DEF AboveWaits
  <1>3. PICK x \in T : \A y \in T : x <= y
    <2>1. T \in SUBSET Nat BY NodeFacts
    <2> HIDE DEF T
    <2>2. QED BY <1>2, <2>1, LeastNat
  <1>4. x \in Nodes /\ ~Good(x) BY <1>3
  <1>5. x # Forest BY <1>1, <1>4 DEF AboveEqs
  <1>6. /\ parent[x] \in Nodes /\ parent[x] \in Nat /\ x \in Nat /\ parent[x] < x
        /\ Above[x] = {parent[x]} \cup Above[parent[x]]
    BY <1>1, <1>4, <1>5, NodeFacts DEF AboveEqs
  <1>7. parent[x] \notin T
    <2> HIDE DEF T
    <2>1. QED BY <1>3, <1>6
  <1>8. Good(parent[x]) BY <1>6, <1>7
  <1>9. Unfinished(x) => parent[x] = Forest \/ status[parent[x]] = IN_RECURSION
    BY <1>4, <1>5 DEF ShapeInv, ParentsWait
  <1>10. Above[Forest] = {} BY <1>1 DEF AboveEqs
  <1>11. Good(x)
    <2>1. Above[x] \subseteq Nodes BY <1>6, <1>8
    <2>2. ASSUME Unfinished(x), NEW a \in Above[x] \ {Forest} PROVE status[a] = IN_RECURSION
      <3>1. CASE parent[x] = Forest BY <1>6, <1>10, <2>2, <3>1
      <3>2. CASE status[parent[x]] = IN_RECURSION
        BY <1>6, <1>8, <2>2, <3>2 DEF Unfinished
      <3>3. QED BY <1>9, <2>2, <3>1, <3>2
    <2>3. QED BY <2>1, <2>2
  <1>12. QED BY <1>4, <1>11

(* Nodes keep what is above them when the tree grows.                      *)
LEMMA AboveSame ==
    ASSUME ShapeInv, TreeShape', Nodes \subseteq Nodes', \A m \in Nodes : parent'[m] = parent[m]
    PROVE  \A m \in Nodes : Above'[m] = Above[m]
  <1>1. AboveEqs BY AboveIs DEF ShapeInv
  <1>2. AboveEqs' BY AboveIs, PTL
  <1> DEFINE T == {n \in Nodes : Above'[n] # Above[n]}
  <1>3. SUFFICES ASSUME T # {} PROVE FALSE OBVIOUS
  <1>4. PICK x \in T : \A y \in T : x <= y
    <2>1. T \in SUBSET Nat BY NodeFacts
    <2> HIDE DEF T
    <2>2. QED BY <1>3, <2>1, LeastNat
  <1>5. x \in Nodes /\ Above'[x] # Above[x] BY <1>4
  <1>6. x # Forest BY <1>1, <1>2, <1>5 DEF AboveEqs
  <1>7. /\ parent[x] \in Nodes /\ parent[x] \in Nat /\ x \in Nat /\ parent[x] < x
        /\ Above[x] = {parent[x]} \cup Above[parent[x]]
    BY <1>1, <1>5, <1>6, NodeFacts DEF AboveEqs
  <1>8. Above'[x] = {parent[x]} \cup Above'[parent[x]]
    BY <1>2, <1>5, <1>6 DEF AboveEqs, Forest
  <1>9. parent[x] \notin T
    <2> HIDE DEF T
    <2>1. QED BY <1>4, <1>7
  <1>10. Above'[parent[x]] = Above[parent[x]] BY <1>7, <1>9
  <1>11. QED BY <1>5, <1>7, <1>8, <1>10

(* Why candidates that were compared with visited long ago make no loop:   *)
(* a relation a subjob holds is none that a node above its own is split    *)
(* with, nor one that a finished node below its own is.                    *)
CandidateApart(s) ==
    /\ \A n \in Nodes \ {Forest} : Taken(n) /\ task[s] \in Above[n] => contender[n] # cand[s]
    /\ status[task[s]] = IN_PROGRESS =>
         \A a \in Above[task[s]] \ {Forest} : contender[a] # cand[s]

LoopInv ==
    /\ \A n \in Nodes \ {Forest} : Taken(n) => contender[n] \in visited
    /\ \A n \in Nodes \ {Forest} : status[n] # ABANDONED =>
         \A a \in Above[n] \ {Forest} : contender[a] # contender[n]
    /\ \A s \in Subjobs : cand[s] # NoRel => Held(s) /\ CandidateApart(s)

(* Steps that change no contender and bring no candidate.                  *)
NoNewCandidate ==
    /\ Nodes \subseteq Nodes' /\ visited \subseteq visited'
    /\ \A m \in Nodes : /\ parent'[m] = parent[m] /\ contender'[m] = contender[m]
                        /\ status[m] = ABANDONED => status'[m] = ABANDONED
    /\ \A m \in Nodes \ {Forest} :
         Taken(m)' => Taken(m) \/ (Unfinished(m) /\ contender[m] \in visited')
    /\ \A m \in Nodes' \ Nodes : Unfinished(m)' /\ ~Taken(m)' /\ contender'[m] = NoRel
    /\ \A s \in Subjobs : cand'[s] # NoRel =>
         /\ cand'[s] = cand[s] /\ task'[s] = task[s] /\ Held(s)'
         /\ status'[task[s]] = IN_PROGRESS => status[task[s]] = IN_PROGRESS

LEMMA LoopKept ==
    ASSUME PlaceInv, PlaceInv', LoopInv, NoNewCandidate
    PROVE  LoopInv'
  <1> USE DEF NoNewCandidate
  <1>1. ShapeInv /\ ShapeInv' /\ TreeShape' BY DEF PlaceInv, ShapeInv
  <1>2. AboveWaits BY <1>1, WaitingAbove
  <1>3. AboveWaits' BY <1>1, WaitingAbove, PTL
  <1>4. \A m \in Nodes : Above'[m] = Above[m] /\ Above[m] \subseteq Nodes
    BY <1>1, <1>2, AboveSame DEF AboveWaits
  <1>5. \A n \in Nodes' \ {Forest} : Taken(n)' =>
           n \in Nodes /\ contender'[n] = contender[n] /\ contender'[n] \in visited'
    BY DEF LoopInv
  <1>6. ASSUME NEW n \in Nodes' \ {Forest}, status'[n] # ABANDONED, NEW a \in Above'[n] \ {Forest}
        PROVE  contender'[a] # contender'[n]
    <2>1. CASE n \in Nodes
      <3>1. a \in Above[n] /\ a \in Nodes BY <1>4, <1>6, <2>1
      <3>2. status[n] # ABANDONED BY <1>6, <2>1
      <3>3. contender[a] # contender[n] BY <1>6, <2>1, <3>1, <3>2 DEF LoopInv
      <3>4. QED BY <2>1, <3>1, <3>3
    <2>2. CASE n \notin Nodes
      <3>1. contender'[n] = NoRel /\ Unfinished(n)' BY <2>2
      <3>2. a \in Nodes' /\ status'[a] = IN_RECURSION BY <1>3, <1>6, <3>1 DEF AboveWaits
      <3>3. contender'[a] \in visited' BY <1>5, <1>6, <3>2 DEF Taken
      <3>4. visited' \subseteq Rels BY DEF PlaceInv, DescentTypeOK
      <3>5. QED BY <3>1, <3>3, <3>4, DescentAssumption
    <2>3. QED BY <2>1, <2>2
  <1>7. ASSUME NEW s \in Subjobs, cand'[s] # NoRel PROVE Held(s)' /\ CandidateApart(s)'
    <2>1. /\ cand'[s] = cand[s] /\ task'[s] = task[s] /\ Held(s)'
          /\ status'[task[s]] = IN_PROGRESS => status[task[s]] = IN_PROGRESS
          /\ Held(s) /\ CandidateApart(s)
      BY <1>7 DEF LoopInv
    <2>2. task[s] \in Nodes /\ task[s] # Forest /\ status[task[s]] \in {IN_PROGRESS, ABANDONED}
      BY <2>1, TypeFacts DEF PlaceInv, HoldersInv
    <2>3. ASSUME NEW n \in Nodes' \ {Forest}, Taken(n)', task'[s] \in Above'[n]
          PROVE  contender'[n] # cand'[s]
      <3>1. n \in Nodes /\ contender'[n] = contender[n] BY <1>5, <2>3
      <3>2. task[s] \in Above[n] BY <1>4, <2>1, <2>3, <3>1
      <3>3. ~Unfinished(n) BY <1>2, <2>2, <3>1, <3>2, StatusNames DEF AboveWaits
      <3>4. Taken(n) BY <2>3, <3>1, <3>3
      <3>5. QED BY <2>1, <2>3, <3>1, <3>2, <3>4 DEF CandidateApart
    <2>4. ASSUME status'[task'[s]] = IN_PROGRESS, NEW a \in Above'[task'[s]] \ {Forest}
          PROVE  contender'[a] # cand'[s]
      <3>1. a \in Above[task[s]] /\ a \in Nodes BY <1>4, <2>1, <2>2, <2>4
      <3>2. QED BY <2>1, <2>4, <3>1 DEF CandidateApart
    <2>5. QED BY <2>1, <2>3, <2>4 DEF CandidateApart
  <1>8. QED BY <1>5, <1>6, <1>7 DEF LoopInv

(* A relation that comes in is not in visited.                             *)
LEMMA LoopFind ==
    ASSUME PlaceInv, PlaceInv', LoopInv, NEW s \in Subjobs, NEW r \in Rels, FindRelation(s, r)
    PROVE  LoopInv'
  <1>1. /\ Held(s) /\ r \notin visited /\ cand' = [cand EXCEPT ![s] = r]
        /\ UNCHANGED <<status, parent, contender, visited, created, pc, task>>
    BY DEF FindRelation, must_avoid, Held, tree, counters
  <1>2. Nodes' = Nodes BY <1>1 DEF Nodes
  <1>3. ShapeInv /\ TreeShape' BY DEF PlaceInv, ShapeInv
  <1>4. AboveWaits BY <1>3, WaitingAbove
  <1>5. \A m \in Nodes : Above'[m] = Above[m] /\ Above[m] \subseteq Nodes
    BY <1>1, <1>2, <1>3, <1>4, AboveSame DEF AboveWaits
  <1>6. task \in [Subjobs -> Nodes] /\ cand \in [Subjobs -> Rels \cup {NoRel}]
    BY TypeFacts DEF PlaceInv
  <1>7. cand'[s] = r /\ \A t \in Subjobs \ {s} : cand'[t] = cand[t] BY <1>1, <1>6
  <1>8. ASSUME NEW t \in Subjobs, cand'[t] # NoRel PROVE Held(t)' /\ CandidateApart(t)'
    <2>1. CASE t = s
      <3>1. \A n \in Nodes \ {Forest} : Taken(n) => contender[n] # r BY <1>1 DEF LoopInv
      <3>2. ASSUME status[task[s]] = IN_PROGRESS, NEW a \in Above[task[s]] \ {Forest}
            PROVE  contender[a] # r
        <4>1. a \in Nodes /\ status[a] = IN_RECURSION
          BY <1>4, <1>6, <3>2 DEF AboveWaits, Unfinished
        <4>2. QED BY <3>1, <3>2, <4>1 DEF Taken
      <3>3. Held(s)' BY <1>1 DEF Held
      <3>4. QED BY <1>1, <1>2, <1>5, <1>6, <1>7, <2>1, <3>1, <3>2, <3>3 DEF CandidateApart, Taken
    <2>2. CASE t # s
      <3>1. Held(t) /\ CandidateApart(t) BY <1>7, <1>8, <2>2 DEF LoopInv
      <3>2. Held(t)' BY <1>1, <3>1 DEF Held
      <3>3. task[t] \in Nodes BY <1>6
      <3>4. CandidateApart(t)'
        BY <1>1, <1>2, <1>5, <1>7, <2>2, <3>1, <3>3 DEF CandidateApart, Taken
      <3>5. QED BY <3>2, <3>4
    <2>3. QED BY <2>1, <2>2
  <1>9. \A n \in Nodes' \ {Forest} : Taken(n)' => contender'[n] \in visited'
    BY <1>1, <1>2 DEF LoopInv, Taken
  <1>10. \A n \in Nodes' \ {Forest} : status'[n] # ABANDONED =>
            \A a \in Above'[n] \ {Forest} : contender'[a] # contender'[n]
    BY <1>1, <1>2, <1>5 DEF LoopInv
  <1>11. QED BY <1>8, <1>9, <1>10 DEF LoopInv

(* new_candidate_relation(): the node is not split yet, so that nothing    *)
(* unfinished is below it.                                                 *)
LEMMA LoopCandidate ==
    ASSUME PlaceInv, PlaceInv', LoopInv, NEW s \in Subjobs, new_candidate_relation(s)
    PROVE  LoopInv'
  <1>n. PICK p : p = task[s] OBVIOUS
  <1>1. /\ Held(s) /\ cand[s] # NoRel /\ cand' = [cand EXCEPT ![s] = NoRel]
        /\ contender' = [contender EXCEPT ![p] = IF Better(cand[s], @) THEN cand[s] ELSE @]
        /\ UNCHANGED <<status, parent, visited, created, pc, task>>
    BY <1>n DEF new_candidate_relation, Held, counters
  <1>2. Nodes' = Nodes BY <1>1 DEF Nodes
  <1>3. ShapeInv /\ TreeShape' BY DEF PlaceInv, ShapeInv
  <1>4. AboveWaits BY <1>3, WaitingAbove
  <1>5. \A m \in Nodes : Above'[m] = Above[m] /\ Above[m] \subseteq Nodes
    BY <1>1, <1>2, <1>3, <1>4, AboveSame DEF AboveWaits
  <1>6. /\ task \in [Subjobs -> Nodes] /\ cand \in [Subjobs -> Rels \cup {NoRel}]
        /\ contender \in [Nodes -> Rels \cup {NoRel}] /\ \A m \in Nodes : status[m] \in Statuses
    BY TypeFacts DEF PlaceInv
  <1>7. p \in Nodes \ {Forest} /\ status[p] \in {IN_PROGRESS, ABANDONED}
    BY <1>n, <1>1, <1>6 DEF PlaceInv, HoldersInv
  <1>8. /\ contender'[p] = contender[p] \/ contender'[p] = cand[s]
        /\ \A m \in Nodes : m # p => contender'[m] = contender[m]
    BY <1>1, <1>6, <1>7
  <1>9. CandidateApart(s) BY <1>1 DEF LoopInv
  <1>10. \A n \in Nodes \ {Forest} : Taken(n) => n # p BY <1>7, StatusNames DEF Taken
  <1>11. \A n \in Nodes : Unfinished(n) => p \notin Above[n]
    BY <1>4, <1>7, StatusNames DEF AboveWaits
  <1>12. ASSUME NEW n \in Nodes \ {Forest}, status[n] # ABANDONED, NEW a \in Above[n] \ {Forest}
         PROVE  contender'[a] # contender'[n]
    <2>1. contender[a] # contender[n] /\ a \in Nodes BY <1>5, <1>12 DEF LoopInv
    <2>2. CASE a # p /\ n # p BY <1>8, <2>1, <2>2
    <2>3. CASE n = p
      <3>1. status[p] = IN_PROGRESS BY <1>7, <1>12, <2>3
      <3>2. p \notin Above[p] BY <1>7, <1>11, <3>1 DEF Unfinished
      <3>3. contender[a] # cand[s] BY <1>n, <1>9, <1>12, <2>3, <3>1 DEF CandidateApart
      <3>4. QED BY <1>8, <1>12, <2>1, <2>3, <3>2, <3>3
    <2>4. CASE a = p /\ n # p
      <3>1. ~Unfinished(n) BY <1>11, <1>12, <2>4
      <3>2. Taken(n) BY <1>6, <1>12, <3>1, StatusNames DEF Taken, Unfinished
      <3>3. contender[n] # cand[s] BY <1>n, <1>9, <1>12, <2>4, <3>2 DEF CandidateApart
      <3>4. QED BY <1>8, <2>1, <2>4, <3>3
    <2>5. QED BY <2>2, <2>3, <2>4
  <1>13. ASSUME NEW t \in Subjobs, cand'[t] # NoRel PROVE Held(t)' /\ CandidateApart(t)'
    <2>1. t # s /\ cand'[t] = cand[t] BY <1>1, <1>6, <1>13
    <2>2. Held(t) /\ CandidateApart(t) BY <1>13, <2>1 DEF LoopInv
    <2>3. Held(t)' BY <1>1, <2>2 DEF Held
    <2>4. task[t] \in Nodes BY <1>6
    <2>5. \A n \in Nodes \ {Forest} : Taken(n) /\ task[t] \in Above[n] => contender'[n] # cand[t]
      BY <1>8, <1>10, <2>2 DEF CandidateApart
    <2>6. ASSUME status[task[t]] = IN_PROGRESS, NEW a \in Above[task[t]] \ {Forest}
          PROVE  contender'[a] # cand[t]
      <3>1. a # p /\ a \in Nodes BY <1>5, <1>11, <2>4, <2>6 DEF Unfinished
      <3>2. QED BY <1>8, <2>2, <2>6, <3>1 DEF CandidateApart
    <2>7. CandidateApart(t)'
      BY <1>1, <1>2, <1>5, <2>1, <2>4, <2>5, <2>6 DEF CandidateApart, Taken
    <2>8. QED BY <2>3, <2>7
  <1>14. \A n \in Nodes' \ {Forest} : Taken(n)' => contender'[n] \in visited'
    BY <1>1, <1>2, <1>8, <1>10 DEF LoopInv, Taken
  <1>15. \A n \in Nodes' \ {Forest} : status'[n] # ABANDONED =>
            \A a \in Above'[n] \ {Forest} : contender'[a] # contender'[n]
    BY <1>1, <1>2, <1>5, <1>12
  <1>16. QED BY <1>13, <1>14, <1>15 DEF LoopInv

(* Steps that leave the tree alone.                                        *)
LEMMA LoopSameTree ==
    ASSUME PlaceInv, PlaceInv', LoopInv,
           UNCHANGED <<created, status, parent, contender, visited, cand, task>>,
           \A s \in Subjobs : cand[s] # NoRel => Held(s)'
    PROVE  LoopInv'
  <1>1. Nodes' = Nodes BY DEF Nodes
  <1>2. \A m \in Nodes \ {Forest} : Taken(m)' => Taken(m) BY DEF Taken
  <1>3. NoNewCandidate BY <1>1, <1>2 DEF NoNewCandidate
  <1>4. QED BY <1>3, LoopKept

(* A subjob that is not held back holds no candidate.                      *)
LEMMA LoopPull ==
    ASSUME PlaceInv, PlaceInv', LoopInv, NEW s \in Subjobs,
           PullPending(s) \/ PullFresh(s) \/ PullNothing(s)
    PROVE  LoopInv'
  <1>0. PICK k : k = Skipped(all_pending) OBVIOUS
  <1>1. /\ created \in Nat /\ status \in [Nodes -> Statuses] /\ task \in [Subjobs -> Nodes]
        /\ pc \in [Subjobs -> {"pull", "wait", "sieve", "end"}]
    BY TypeFacts DEF PlaceInv
  <1>2. ~Held(s) BY DEF PullPending, PullFresh, PullNothing, Held
  <1>3. cand' = cand /\ cand[s] = NoRel
    BY <1>2 DEF LoopInv, PullPending, PullFresh, PullNothing, Start
  <1>4. ASSUME NEW t \in Subjobs, cand[t] # NoRel
        PROVE  /\ t # s /\ Held(t) /\ Held(t)' /\ task'[t] = task[t]
    <2>1. t # s /\ Held(t) BY <1>3, <1>4 DEF LoopInv
    <2>2. QED BY <1>1, <2>1 DEF PullPending, PullFresh, PullNothing, Start, Held
  <1>5. CASE PullNothing(s)
    <2>1. UNCHANGED <<created, status, parent, contender, visited, cand, task>>
      BY <1>5 DEF PullNothing, tree
    <2>2. QED BY <1>4, <2>1, LoopSameTree
  <1>6. CASE PullPending(s)
    <2>n. PICK n : n = all_pending[k + 1] OBVIOUS
    <2>1. /\ k < Len(all_pending) /\ status' = [status EXCEPT ![n] = IN_PROGRESS]
          /\ UNCHANGED <<created, parent, contender, visited>>
      BY <1>0, <1>6, <2>n DEF PullPending
    <2>2. /\ n \in Nodes \ {Forest} /\ status[n] = PENDING
          /\ \A t \in Subjobs : Held(t) => task[t] # n
      BY <1>0, <2>1, <2>n, PullFacts
    <2>3. Nodes' = Nodes BY <2>1 DEF Nodes
    <2>4. status'[n] = IN_PROGRESS /\ \A m \in Nodes : m # n => status'[m] = status[m]
      BY <1>1, <2>1, <2>2
    <2>5. \A m \in Nodes \ {Forest} : Taken(m)' => Taken(m) BY <2>4, StatusNames DEF Taken
    <2>6. \A m \in Nodes : status[m] = ABANDONED => status'[m] = ABANDONED
      BY <2>2, <2>4, StatusNames
    <2>7. \A t \in Subjobs : cand[t] # NoRel =>
             (status'[task[t]] = IN_PROGRESS => status[task[t]] = IN_PROGRESS)
      BY <1>1, <1>4, <2>2, <2>4
    <2>8. NoNewCandidate BY <1>3, <1>4, <2>1, <2>3, <2>5, <2>6, <2>7 DEF NoNewCandidate
    <2>9. QED BY <2>8, LoopKept
  <1>7. CASE PullFresh(s)
    <2>1. NewNodes(1, Forest, IN_PROGRESS, status) /\ visited' = visited BY <1>7 DEF PullFresh
    <2>2. /\ Nodes' = Nodes \cup (created + 1 .. created + 1)
          /\ \A m \in Nodes : /\ status'[m] = status[m] /\ parent'[m] = parent[m]
                              /\ contender'[m] = contender[m]
          /\ \A m \in created + 1 .. created + 1 : status'[m] = IN_PROGRESS /\ contender'[m] = NoRel
      <3>1. 1 \in Nat OBVIOUS
      <3>2. QED BY <1>1, <2>1, <3>1, NewNodesFacts
    <2>3. \A m \in Nodes \ {Forest} : Taken(m)' => Taken(m) BY <2>2 DEF Taken
    <2>4. \A m \in Nodes' \ Nodes : Unfinished(m)' /\ ~Taken(m)' /\ contender'[m] = NoRel
      BY <2>2, StatusNames DEF Unfinished, Taken
    <2>5. \A t \in Subjobs : cand[t] # NoRel => status'[task[t]] = status[task[t]] BY <1>1, <2>2
    <2>6. NoNewCandidate BY <1>3, <1>4, <2>1, <2>2, <2>3, <2>4, <2>5 DEF NoNewCandidate
    <2>7. QED BY <2>6, LoopKept
  <1>8. QED BY <1>5, <1>6, <1>7

LEMMA LoopPostprocess ==
    ASSUME PlaceInv, PlaceInv', LoopInv, NEW s \in Subjobs, Postprocess(s)
    PROVE  LoopInv'
  <1>n. PICK n : n = task[s] OBVIOUS
  <1>1. Held(s) /\ cand[s] = NoRel /\ UNCHANGED <<task, cand, discarded>>
    BY DEF Postprocess, Ready, Held
  <1>2. /\ n \in Nodes \ {Forest} /\ status[n] \in {IN_PROGRESS, ABANDONED}
        /\ task \in [Subjobs -> Nodes]
    BY <1>n, <1>1, TypeFacts DEF PlaceInv, HoldersInv
  <1>3. NotifyAll(s) \/ Resume(s) BY DEF Postprocess, Abandon, Split, Recurse
  <1>4. ASSUME NEW t \in Subjobs, cand[t] # NoRel
        PROVE  t # s /\ Held(t) /\ Held(t)' /\ task[t] \in Nodes /\ task[t] # n
    <2>1. t # s /\ Held(t) BY <1>1, <1>4 DEF LoopInv
    <2>2. Held(t)' BY <1>1, <1>3, <2>1, Released
    <2>3. QED BY <1>n, <1>1, <1>2, <2>1, <2>2 DEF PlaceInv, HoldersInv
  <1>5. CASE Resume(s) /\ UNCHANGED <<tree, all_pending, counters>>
    <2>1. UNCHANGED <<created, status, parent, contender, visited>> BY <1>5 DEF tree, counters
    <2>2. QED BY <1>1, <1>4, <2>1, LoopSameTree
  <1>6. CASE Abandon(s)
    <2>d. PICK D : D = Dead(n) OBVIOUS
    <2>r. PICK R : R = Retried(n) OBVIOUS
    <2>1. /\ AbandonSets(D, R, n)
          /\ \A m \in D : status'[m] = ABANDONED
          /\ \A m \in R : status'[m] = PENDING
          /\ \A m \in Nodes : m \notin D \cup R => status'[m] = status[m]
          /\ UNCHANGED <<parent, contender, visited, created>>
      BY <1>n, <1>1, <1>6, <2>d, <2>r, AbandonStep
    <2>2. Nodes' = Nodes BY <2>1 DEF Nodes
    <2>3. \A m \in D \cup R : status[m] # ABANDONED
      BY <2>1, StatusNames DEF AbandonSets, Unfinished
    <2>4. \A m \in Nodes : status[m] = ABANDONED => status'[m] = ABANDONED BY <2>1, <2>3
    <2>5. \A m \in Nodes \ {Forest} : Taken(m)' => Taken(m) BY <2>1, StatusNames DEF Taken
    <2>6. \A m \in Nodes : status'[m] = IN_PROGRESS => status[m] = IN_PROGRESS
      BY <2>1, StatusNames
    <2>7. NoNewCandidate BY <1>1, <1>4, <2>1, <2>2, <2>4, <2>5, <2>6 DEF NoNewCandidate
    <2>8. QED BY <2>7, LoopKept
  <1>7. CASE contender[n] # NoRel /\ status[n] # ABANDONED /\ Split(s)
    <2>d. PICK D : D = NowDone(n) OBVIOUS
    <2>1. /\ status[n] = IN_PROGRESS /\ DoneSet(D, n)
          /\ \A m \in D : status'[m] = DONE
          /\ \A m \in Nodes : m \notin D => status'[m] = status[m]
          /\ visited' = visited \cup {contender[n]}
          /\ UNCHANGED <<parent, contender, created>>
      BY <1>n, <1>1, <1>7, <2>d, SplitStep
    <2>2. Nodes' = Nodes BY <2>1 DEF Nodes
    <2>3. \A m \in D : m = n \/ status[m] = IN_RECURSION BY <2>1 DEF DoneSet
    <2>4. \A m \in Nodes : status[m] = ABANDONED => status'[m] = ABANDONED
      BY <2>1, <2>3, StatusNames
    <2>5. \A m \in Nodes \ {Forest} :
             Taken(m)' => Taken(m) \/ (Unfinished(m) /\ contender[m] \in visited')
      BY <2>1, <2>3 DEF Taken, Unfinished
    <2>6. \A m \in Nodes : status'[m] = IN_PROGRESS => status[m] = IN_PROGRESS
      BY <2>1, StatusNames
    <2>7. NoNewCandidate BY <1>1, <1>4, <2>1, <2>2, <2>4, <2>5, <2>6 DEF NoNewCandidate
    <2>8. QED BY <2>7, LoopKept
  <1>8. CASE contender[n] # NoRel /\ status[n] # ABANDONED /\ Recurse(s)
    <2>k. PICK k : k = Outstanding[contender[n]] OBVIOUS
    <2> DEFINE New == created + 1 .. created + k
    <2>1. /\ status[n] = IN_PROGRESS /\ Nodes' = Nodes \cup New /\ status'[n] = IN_RECURSION
          /\ \A m \in Nodes : m # n => status'[m] = status[m]
          /\ \A m \in Nodes : parent'[m] = parent[m] /\ contender'[m] = contender[m]
          /\ \A m \in New : status'[m] = PENDING /\ contender'[m] = NoRel
          /\ visited' = visited \cup {contender[n]}
      BY <1>n, <1>1, <1>8, <2>k, RecurseStep
    <2> HIDE DEF New
    <2>2. \A m \in Nodes : status[m] = ABANDONED => status'[m] = ABANDONED BY <2>1, StatusNames
    <2>3. \A m \in Nodes \ {Forest} :
             Taken(m)' => Taken(m) \/ (Unfinished(m) /\ contender[m] \in visited')
      BY <2>1 DEF Taken, Unfinished
    <2>4. \A m \in Nodes' \ Nodes : Unfinished(m)' /\ ~Taken(m)' /\ contender'[m] = NoRel
      BY <2>1, StatusNames DEF Unfinished, Taken
    <2>5. \A m \in Nodes : status'[m] = IN_PROGRESS => status[m] = IN_PROGRESS
      BY <2>1, StatusNames
    <2>6. NoNewCandidate BY <1>1, <1>4, <2>1, <2>2, <2>3, <2>4, <2>5 DEF NoNewCandidate
    <2>7. QED BY <2>6, LoopKept
  <1>9. QED BY <1>n, <1>5, <1>6, <1>7, <1>8 DEF Postprocess

LEMMA LoopNext ==
    ASSUME PlaceInv, PlaceInv', LoopInv, [Next]_vars PROVE LoopInv'
  <1>0. pc \in [Subjobs -> {"pull", "wait", "sieve", "end"}] BY TypeFacts DEF PlaceInv
  <1>1. CASE UNCHANGED vars
    <2>1. UNCHANGED <<created, status, parent, contender, visited, cand, task, pc>>
      BY <1>1 DEF vars, tree, counters, jobs
    <2>2. \A s \in Subjobs : cand[s] # NoRel => Held(s)' BY <2>1 DEF LoopInv, Held
    <2>3. QED BY <2>1, <2>2, LoopSameTree
  <1>2. CASE Ended BY <1>1, <1>2 DEF Ended
  <1>3. ASSUME NEW s \in Subjobs, SubjobStep(s) PROVE LoopInv'
    BY <1>3, LoopPull, LoopCandidate DEF SubjobStep
  <1>4. ASSUME NEW s \in Subjobs, Postprocess(s) PROVE LoopInv' BY <1>4, LoopPostprocess
  <1>5. ASSUME NEW s \in Subjobs, Discard(s) \/ SpuriousWakeup(s) PROVE LoopInv'
    <2>1. UNCHANGED <<created, status, parent, contender, visited, cand, task>>
      BY <1>5 DEF Discard, SpuriousWakeup, tree, counters
    <2>2. cand[s] = NoRel BY <1>5 DEF Discard, SpuriousWakeup, LoopInv, Held
    <2>3. \A t \in Subjobs \ {s} : Held(t)' <=> Held(t)
      BY <1>0, <1>5 DEF Discard, Resume, SpuriousWakeup, Held
    <2>4. \A t \in Subjobs : cand[t] # NoRel => Held(t)' BY <2>2, <2>3 DEF LoopInv
    <2>5. QED BY <2>1, <2>4, LoopSameTree
  <1>6. ASSUME NEW s \in Subjobs, NEW r \in Rels, FindRelation(s, r) PROVE LoopInv'
    BY <1>6, LoopFind
  <1>7. QED BY <1>1, <1>2, <1>3, <1>4, <1>5, <1>6 DEF Next

(* must_avoid() and take_decision(): no relation is taken again below a    *)
(* node that was split with it, however the subjobs interleave.            *)
THEOREM DescentMakesNoLoop == Spec => []NoLoop
  <1>1. Init => LoopInv
    <2> SUFFICES ASSUME Init PROVE LoopInv OBVIOUS
    <2>1. Nodes = {Forest} BY DEF Init, Nodes, Forest
    <2>2. \A s \in Subjobs : cand[s] = NoRel BY DEF Init
    <2>3. QED BY <2>1, <2>2 DEF LoopInv
  <1>2. PlaceInv /\ PlaceInv' /\ LoopInv /\ [Next]_vars => LoopInv' BY LoopNext
  <1>3. LoopInv => NoLoop
    BY StatusNames DEF LoopInv, NoLoop, Taken
  <1>4. QED BY <1>1, <1>2, <1>3, PlaceInvAlways, PTL DEF Spec

-----------------------------------------------------------------------------
(* What holds of a node that was split: its relation's special-q's are its *)
(* last children, none of them has failed, and they are done if it is.     *)
SplitAt(n) ==
    /\ contender[n] # NoRel
    /\ Cardinality(Current(n)) = Outstanding[contender[n]]
    /\ \A c \in Current(n) : status[c] # ABANDONED
    /\ status[n] = DONE => \A c \in Current(n) : status[c] = DONE

SplitInv == \A n \in Nodes \ {Forest} : Taken(n) => SplitAt(n)

(* The last k of a set of numbers when they follow the others.             *)
LastOf(S, k) == {x \in S : Cardinality({d \in S : d > x}) < k}

LEMMA LastOnes ==
    ASSUME NEW c \in Nat, NEW k \in Nat, NEW C \in SUBSET (0..c)
    PROVE  /\ LastOf(C \cup (c + 1 .. c + k), k) = c + 1 .. c + k
           /\ Cardinality(c + 1 .. c + k) = k
  <1> DEFINE New == c + 1 .. c + k
             All == C \cup New
             After(x) == {d \in All : d > x}
  <1>1. IsFiniteSet(New) /\ Cardinality(New) = k
    <2>1. c + 1 \in Int /\ c + k \in Int OBVIOUS
    <2>2. /\ IsFiniteSet(New)
          /\ Cardinality(New) = IF c + 1 > c + k THEN 0 ELSE (c + k) - (c + 1) + 1
      BY <2>1, FS_Interval
    <2> HIDE DEF New
    <2>3. QED BY <2>2
  <1>2. IsFiniteSet(All)
    <2>1. IsFiniteSet(0..c) BY FS_Interval
    <2>2. IsFiniteSet(C) BY <2>1, FS_Subset
    <2> HIDE DEF New
    <2>3. QED BY <1>1, <2>2, FS_Union
  <1>3. ASSUME NEW x \in New PROVE Cardinality(After(x)) < k
    <2>1. x \in Nat /\ c < x /\ x <= c + k OBVIOUS
    <2>2. \A d \in C : d \in Nat /\ d <= c OBVIOUS
    <2>3. After(x) \subseteq x + 1 .. c + k
      <3>1. ASSUME NEW d \in After(x) PROVE d \in x + 1 .. c + k
        <4>1. d \in All /\ d > x BY <3>1
        <4>2. d \in New BY <2>1, <2>2, <4>1
        <4>3. d \in Nat /\ d <= c + k BY <4>2
        <4>4. QED BY <2>1, <4>1, <4>3
      <3>2. QED BY <3>1
    <2>4. IsFiniteSet(x + 1 .. c + k) /\ Cardinality(x + 1 .. c + k) = c + k - x
      BY <2>1, FS_Interval
    <2>5. Cardinality(After(x)) <= c + k - x /\ Cardinality(After(x)) \in Nat
      <3>1. PICK J : J = x + 1 .. c + k OBVIOUS
      <3> HIDE DEF After
      <3>2. IsFiniteSet(After(x)) /\ Cardinality(After(x)) <= Cardinality(J)
        BY <2>3, <2>4, <3>1, FS_Subset
      <3>3. QED BY <2>4, <3>1, <3>2, FS_CardinalityType
    <2> HIDE DEF After
    <2>6. QED BY <2>1, <2>5
  <1>4. ASSUME NEW x \in C PROVE Cardinality(After(x)) >= k
    <2>1. x \in Nat /\ x <= c OBVIOUS
    <2>2. New \subseteq After(x) BY <2>1
    <2>3. After(x) \subseteq All OBVIOUS
    <2> HIDE DEF After, All, New
    <2>4. IsFiniteSet(After(x)) BY <1>2, <2>3, FS_Subset
    <2>5. Cardinality(New) <= Cardinality(After(x)) /\ Cardinality(After(x)) \in Nat
      BY <2>2, <2>4, FS_Subset, FS_CardinalityType
    <2>6. QED BY <1>1, <2>5
  <1> HIDE DEF New, After
  <1>5. ASSUME NEW x \in C PROVE ~(Cardinality(After(x)) < k)
    <2>1. IsFiniteSet(After(x)) BY <1>2, FS_Subset DEF After
    <2>2. Cardinality(After(x)) \in Nat BY <2>1, FS_CardinalityType
    <2>3. QED BY <1>4, <2>2
  <1>6. {x \in All : Cardinality(After(x)) < k} = New BY <1>3, <1>5
  <1>7. QED BY <1>1, <1>6 DEF New, After, LastOf

(* A split node that keeps its children and its relation.                  *)
LEMMA SplitKept ==
    ASSUME SplitInv, NEW n \in Nodes \ {Forest}, Taken(n), Children(n)' = Children(n),
           contender'[n] = contender[n], status'[n] = DONE => status[n] = DONE,
           \A c \in Children(n) : /\ status[c] # ABANDONED => status'[c] # ABANDONED
                                  /\ status[c] = DONE => status'[c] = DONE
    PROVE  SplitAt(n)'
  <1>1. SplitAt(n) BY DEF SplitInv
  <1>2. Current(n)' = Current(n) BY DEF Current
  <1>3. Current(n) \subseteq Children(n) BY DEF Current
  <1>4. QED BY <1>1, <1>2, <1>3 DEF SplitAt

(* Steps that split no node.                                               *)
LEMMA SplitSame ==
    ASSUME SplitInv, Nodes' = Nodes, UNCHANGED parent,
           \A n \in Nodes \ {Forest} : Taken(n)' =>
               status[n] = status'[n] /\ contender'[n] = contender[n],
           \A c \in Nodes \ {Forest} : Taken(parent[c])' /\ parent[c] # Forest =>
               /\ status[c] # ABANDONED => status'[c] # ABANDONED
               /\ status[c] = DONE => status'[c] = DONE
    PROVE  SplitInv'
  <1> SUFFICES ASSUME NEW n \in Nodes \ {Forest}, Taken(n)' PROVE SplitAt(n)'
    BY DEF SplitInv
  <1>1. status[n] = status'[n] /\ contender'[n] = contender[n] OBVIOUS
  <1>2. Taken(n) BY <1>1 DEF Taken
  <1>3. Children(n)' = Children(n) BY DEF Children
  <1>4. \A c \in Children(n) : /\ status[c] # ABANDONED => status'[c] # ABANDONED
                               /\ status[c] = DONE => status'[c] = DONE
    BY DEF Children
  <1>5. QED BY <1>1, <1>2, <1>3, <1>4, SplitKept

LEMMA SplitPullPending ==
    ASSUME PlaceInv, SplitInv, NEW s \in Subjobs, PullPending(s) PROVE SplitInv'
  <1>k. PICK k : k = Skipped(all_pending) OBVIOUS
  <1>n. PICK n : n = all_pending[k + 1] OBVIOUS
  <1>1. /\ k < Len(all_pending) /\ status' = [status EXCEPT ![n] = IN_PROGRESS]
        /\ UNCHANGED <<created, parent, contender>>
    BY <1>k, <1>n DEF PullPending
  <1>2. n \in Nodes \ {Forest} /\ status[n] = PENDING BY <1>1, <1>k, <1>n, PullFacts
  <1>3. Nodes' = Nodes BY <1>1 DEF Nodes
  <1>4. status \in [Nodes -> Statuses] BY TypeFacts DEF PlaceInv
  <1>5. status'[n] = IN_PROGRESS /\ \A m \in Nodes : m # n => status'[m] = status[m]
    BY <1>1, <1>2, <1>4
  <1>6. \A m \in Nodes : Taken(m)' => status[m] = status'[m] BY <1>5, StatusNames DEF Taken
  <1>7. \A c \in Nodes : /\ status[c] # ABANDONED => status'[c] # ABANDONED
                         /\ status[c] = DONE => status'[c] = DONE
    BY <1>2, <1>5, StatusNames
  <1>8. QED BY <1>1, <1>3, <1>6, <1>7, SplitSame

LEMMA SplitPullFresh ==
    ASSUME PlaceInv, SplitInv, NEW s \in Subjobs, PullFresh(s) PROVE SplitInv'
  <1>1. NewNodes(1, Forest, IN_PROGRESS, status) BY DEF PullFresh
  <1>2. created \in Nat BY TypeFacts DEF PlaceInv
  <1>3. /\ Nodes' = Nodes \cup (created + 1 .. created + 1)
        /\ \A m \in Nodes : /\ status'[m] = status[m] /\ parent'[m] = parent[m]
                            /\ contender'[m] = contender[m]
        /\ \A m \in created + 1 .. created + 1 : status'[m] = IN_PROGRESS /\ parent'[m] = Forest
    <2>1. 1 \in Nat OBVIOUS
    <2>2. QED BY <1>1, <1>2, <2>1, NewNodesFacts
  <1> SUFFICES ASSUME NEW n \in Nodes' \ {Forest}, Taken(n)' PROVE SplitAt(n)'
    BY DEF SplitInv
  <1>4. n \in Nodes /\ Taken(n) BY <1>3, StatusNames DEF Taken
  <1>5. Children(n)' = Children(n) BY <1>3, <1>4 DEF Children
  <1>6. \A c \in Children(n) : status'[c] = status[c] BY <1>3 DEF Children
  <1>7. QED BY <1>3, <1>4, <1>5, <1>6, SplitKept

(* A child that fails takes its parent with it.                            *)
LEMMA SplitAbandon ==
    ASSUME PlaceInv, SplitInv, NEW s \in Subjobs, Held(s), Abandon(s) PROVE SplitInv'
  <1>n. PICK n : n = task[s] OBVIOUS
  <1>d. PICK D : D = Dead(n) OBVIOUS
  <1>r. PICK R : R = Retried(n) OBVIOUS
  <1>1. /\ AbandonSets(D, R, n)
        /\ \A m \in D : status'[m] = ABANDONED
        /\ \A m \in R : status'[m] = PENDING
        /\ \A m \in Nodes : m \notin D \cup R => status'[m] = status[m]
        /\ UNCHANGED <<parent, contender, created>>
    BY <1>n, <1>d, <1>r, AbandonStep
  <1>2. Nodes' = Nodes BY <1>1 DEF Nodes
  <1>3. \A m \in D \cup R : ~Taken(m)' BY <1>1, StatusNames DEF Taken
  <1>4. \A m \in Nodes : Taken(m)' => status[m] = status'[m] BY <1>1, <1>3
  <1>5. ASSUME NEW c \in Nodes \ {Forest}, Taken(parent[c])', parent[c] # Forest
        PROVE  /\ status[c] # ABANDONED => status'[c] # ABANDONED
               /\ status[c] = DONE => status'[c] = DONE
    <2>1. parent[c] \notin D \cup R
      <3>1. PICK p : p = parent[c] OBVIOUS
      <3>2. Taken(p)' BY <1>1, <1>5, <3>1 DEF Taken
      <3>3. QED BY <1>3, <3>1, <3>2
    <2>2. c \notin D BY <1>1, <1>5, <2>1 DEF AbandonSets
    <2>3. c \in R => Unfinished(c) BY <1>1 DEF AbandonSets
    <2>4. QED BY <1>1, <2>2, <2>3, StatusNames DEF Unfinished
  <1>6. QED BY <1>1, <1>2, <1>4, <1>5, SplitSame

(* done_node_unlocked(): the children that were left are done too.         *)
LEMMA SplitDone ==
    ASSUME PlaceInv, SplitInv, NEW s \in Subjobs, Held(s), status[task[s]] # ABANDONED,
           contender[task[s]] # NoRel, Outstanding[contender[task[s]]] = 0, Split(s)
    PROVE  SplitInv'
  <1>n. PICK n : n = task[s] OBVIOUS
  <1>d. PICK D : D = NowDone(n) OBVIOUS
  <1>1. /\ n \in Nodes \ {Forest} /\ status[n] = IN_PROGRESS /\ n \in D /\ DoneSet(D, n)
        /\ \A m \in D : status'[m] = DONE
        /\ \A m \in Nodes : m \notin D => status'[m] = status[m]
        /\ UNCHANGED <<parent, contender, created>>
    BY <1>n, <1>d, SplitStep
  <1>2. Nodes' = Nodes BY <1>1 DEF Nodes
  <1>3. \A m \in Nodes : Children(m)' = Children(m) /\ Current(m)' = Current(m)
    BY <1>1, <1>2 DEF Children, Current
  <1>4. \A c \in Nodes : /\ status[c] # ABANDONED => status'[c] # ABANDONED
                         /\ status[c] = DONE => status'[c] = DONE
    BY <1>1, StatusNames
  <1>5. \A m : Current(m) \subseteq Children(m) /\ Children(m) \subseteq Nodes
    BY DEF Current, Children
  <1> SUFFICES ASSUME NEW m \in Nodes \ {Forest}, Taken(m)' PROVE SplitAt(m)'
    BY <1>2 DEF SplitInv
  <1>6. CASE m \notin D
    <2>1. status'[m] = status[m] BY <1>1, <1>6
    <2>2. Taken(m) BY <2>1 DEF Taken
    <2>3. Children(m)' = Children(m) BY <1>3
    <2>4. \A c \in Children(m) : /\ status[c] # ABANDONED => status'[c] # ABANDONED
                                 /\ status[c] = DONE => status'[c] = DONE
      BY <1>4, <1>5
    <2>5. contender'[m] = contender[m] BY <1>1
    <2>6. QED BY <2>1, <2>2, <2>3, <2>4, <2>5, SplitKept
  <1>7. CASE m = n
    <2>1. Current(n) = {}
      <3>1. ASSUME NEW c \in Current(n) PROVE FALSE
        <4>1. Cardinality({d \in Children(n) : d > c}) < 0 BY <1>n, <3>1 DEF Current
        <4>2. IsFiniteSet({d \in Children(n) : d > c})
          <5>1. {d \in Children(n) : d > c} \in SUBSET Nodes BY <1>5
          <5>2. QED BY <5>1, NodeFacts, FS_Subset DEF PlaceInv
        <4>3. Cardinality({d \in Children(n) : d > c}) \in Nat BY <4>2, FS_CardinalityType
        <4>4. QED BY <4>1, <4>3
      <3>2. QED BY <3>1
    <2>2. Cardinality(Current(n)) = 0 BY <2>1, FS_EmptySet
    <2>3. QED BY <1>n, <1>1, <1>3, <1>7, <2>1, <2>2 DEF SplitAt
  <1>8. CASE m \in D /\ m # n
    <2>1. status[m] = IN_RECURSION BY <1>1, <1>8 DEF DoneSet
    <2>2. SplitAt(m) BY <2>1 DEF SplitInv, Taken
    <2>3. ASSUME NEW c \in Current(m) PROVE status'[c] = DONE
      <3>1. c \in Children(m) /\ c \in Nodes BY <1>5, <2>3
      <3>2. status[c] \in Statuses /\ status[c] # ABANDONED
        BY <2>2, <2>3, <3>1, NodeFacts DEF PlaceInv, SplitAt
      <3>3. Unfinished(c) \/ status[c] = DONE BY <3>2, StatusNames DEF Unfinished
      <3>4. Unfinished(c) => c \in D BY <1>1, <1>8, <3>1 DEF DoneSet
      <3>5. QED BY <1>1, <1>4, <3>1, <3>3, <3>4
    <2>4. Current(m)' = Current(m) /\ contender'[m] = contender[m] BY <1>1, <1>3
    <2>5. QED BY <2>2, <2>3, <2>4, StatusNames DEF SplitAt
  <1>9. QED BY <1>6, <1>7, <1>8

(* take_decision(): the special-q's of the new relation are the last       *)
(* children, whatever children failed attempts have left.                  *)
LEMMA SplitRecurse ==
    ASSUME PlaceInv, SplitInv, NEW s \in Subjobs, Held(s), status[task[s]] # ABANDONED,
           contender[task[s]] # NoRel, Recurse(s)
    PROVE  SplitInv'
  <1>n. PICK n : n = task[s] OBVIOUS
  <1>k. PICK k : k = Outstanding[contender[n]] OBVIOUS
  <1>w. PICK New : New = created + 1 .. created + k OBVIOUS
  <1>1. /\ n \in Nodes \ {Forest} /\ status[n] = IN_PROGRESS /\ k \in Nat
        /\ Nodes' = Nodes \cup New /\ Nodes \cap New = {} /\ status'[n] = IN_RECURSION
        /\ \A m \in Nodes : m # n => status'[m] = status[m]
        /\ \A m \in Nodes : parent'[m] = parent[m] /\ contender'[m] = contender[m]
        /\ \A m \in New : status'[m] = PENDING /\ parent'[m] = n
    BY <1>n, <1>k, <1>w, RecurseStep
  <1>2. created \in Nat /\ Nodes = 0..created BY TypeFacts DEF PlaceInv, Nodes
  <1>3. Forest \in Nodes BY NodeFacts DEF PlaceInv
  <1> SUFFICES ASSUME NEW m \in Nodes' \ {Forest}, Taken(m)' PROVE SplitAt(m)'
    BY DEF SplitInv
  <1>4. m \in Nodes BY <1>1, StatusNames DEF Taken
  <1>5. CASE m # n
    <2>1. status'[m] = status[m] /\ Taken(m) BY <1>1, <1>4, <1>5 DEF Taken
    <2>2. Children(m)' = Children(m) BY <1>1, <1>4, <1>5 DEF Children
    <2>3. \A c \in Children(m) : /\ status[c] # ABANDONED => status'[c] # ABANDONED
                                 /\ status[c] = DONE => status'[c] = DONE
      BY <1>1, StatusNames DEF Children
    <2>4. contender'[m] = contender[m] BY <1>1, <1>4
    <2>5. QED BY <1>4, <2>1, <2>2, <2>3, <2>4, SplitKept
  <1>6. CASE m = n
    <2>1. Children(n)' = Children(n) \cup New BY <1>1, <1>3 DEF Children
    <2>2. PICK C : C = Children(n) OBVIOUS
    <2>3. C \subseteq 0..created BY <1>2, <2>2 DEF Children
    <2>4. LastOf(C \cup New, k) = New /\ Cardinality(New) = k
      <3>1. k \in Nat /\ created \in Nat BY <1>1, <1>2
      <3>2. C \in SUBSET (0..created) BY <2>3
      <3>3. /\ LastOf(C \cup (created + 1 .. created + k), k) = created + 1 .. created + k
            /\ Cardinality(created + 1 .. created + k) = k
        BY <3>1, <3>2, LastOnes
      <3>4. QED BY <1>w, <3>3, Zenon
    <2>5. contender'[n] = contender[n] BY <1>1
    <2>6. Current(n)' = New BY <1>k, <2>1, <2>2, <2>4, <2>5 DEF Current, LastOf
    <2>7. contender[n] # NoRel BY <1>n
    <2>8. QED BY <1>1, <1>6, <1>k, <2>4, <2>5, <2>6, <2>7, StatusNames DEF SplitAt
  <1>7. QED BY <1>5, <1>6

LEMMA SplitNext ==
    ASSUME PlaceInv, SplitInv, [Next]_vars PROVE SplitInv'
  <1>1. ASSUME UNCHANGED <<created, parent, status, contender>> PROVE SplitInv'
    <2>1. Nodes' = Nodes BY <1>1 DEF Nodes
    <2>2. QED BY <1>1, <2>1, SplitSame
  <1>2. CASE UNCHANGED vars BY <1>1, <1>2 DEF vars, tree, counters
  <1>3. CASE Ended BY <1>2, <1>3 DEF Ended
  <1>4. ASSUME NEW s \in Subjobs, PullNothing(s) \/ Discard(s) \/ SpuriousWakeup(s) PROVE SplitInv'
    BY <1>1, <1>4 DEF PullNothing, Discard, SpuriousWakeup, tree, counters
  <1>5. ASSUME NEW s \in Subjobs, NEW r \in Rels, FindRelation(s, r) PROVE SplitInv'
    BY <1>1, <1>5 DEF FindRelation, tree, counters
  <1>6. ASSUME NEW s \in Subjobs, new_candidate_relation(s) PROVE SplitInv'
    <2>1. /\ UNCHANGED <<created, parent, status>> /\ Held(s)
          /\ contender' = [contender EXCEPT ![task[s]] =
                             IF Better(cand[s], @) THEN cand[s] ELSE @]
      BY <1>6 DEF new_candidate_relation, counters, Held
    <2>2. Nodes' = Nodes BY <2>1 DEF Nodes
    <2>3. /\ task[s] \in Nodes /\ status[task[s]] \in {IN_PROGRESS, ABANDONED}
          /\ contender \in [Nodes -> Rels \cup {NoRel}]
      BY <2>1, TypeFacts DEF PlaceInv, HoldersInv
    <2>4. \A m \in Nodes : m # task[s] => contender'[m] = contender[m] BY <2>1, <2>3
    <2>5. \A m \in Nodes : Taken(m)' => m # task[s] BY <2>1, <2>3, StatusNames DEF Taken
    <2>6. \A m \in Nodes \ {Forest} : Taken(m)' =>
             status[m] = status'[m] /\ contender'[m] = contender[m]
      BY <2>1, <2>4, <2>5
    <2>7. QED BY <2>1, <2>2, <2>6, SplitSame
  <1>7. ASSUME NEW s \in Subjobs, Postprocess(s) PROVE SplitInv'
    <2>1. Held(s) BY <1>7 DEF Postprocess, Ready, Held
    <2>2. CASE Abandon(s) BY <2>1, <2>2, SplitAbandon
    <2>3. CASE UNCHANGED <<tree, all_pending, counters>> BY <1>1, <2>3 DEF tree, counters
    <2>4. CASE /\ contender[task[s]] # NoRel /\ status[task[s]] # ABANDONED
               /\ Outstanding[contender[task[s]]] = 0 /\ Split(s)
      BY <2>1, <2>4, SplitDone
    <2>5. CASE contender[task[s]] # NoRel /\ status[task[s]] # ABANDONED /\ Recurse(s)
      BY <2>1, <2>5, SplitRecurse
    <2>6. QED BY <1>7, <2>2, <2>3, <2>4, <2>5 DEF Postprocess
  <1>8. QED BY <1>2, <1>3, <1>4, <1>5, <1>6, <1>7, SplitPullPending, SplitPullFresh
          DEF Next, SubjobStep

(* done_node_unlocked(): a node is done only when all the special-q's its  *)
(* last relation left are, for any number of attempts and of subjobs.      *)
THEOREM DoneNodesAreSplit == Spec => []DoneMeansSplit
  <1>1. Init => SplitInv
    <2> SUFFICES ASSUME Init PROVE SplitInv OBVIOUS
    <2>1. Nodes = {Forest} BY DEF Init, Nodes, Forest
    <2>2. QED BY <2>1 DEF SplitInv
  <1>2. PlaceInv /\ SplitInv /\ [Next]_vars => SplitInv' BY SplitNext
  <1>3. SplitInv => DoneMeansSplit BY DEF SplitInv, SplitAt, DoneMeansSplit, Taken
  <1>4. QED BY <1>1, <1>2, <1>3, PlaceInvAlways, PTL DEF Spec

-----------------------------------------------------------------------------
(* Sums over the nodes exist.                                              *)
LEMMA SumsExist ==
    ASSUME NEW c \in Nat, NEW t \in [0..c -> Nat]
    PROVE  \E f \in [0..c -> Nat] : \A n \in 0..c : f[n] = t[n] + (IF n = 0 THEN 0 ELSE f[n - 1])
  <1> DEFINE Fs == [0..c -> Nat]
             Eq(f, n) == f[n] = t[n] + (IF n = 0 THEN 0 ELSE f[n - 1])
             T == {k \in 0..c : ~\E f \in Fs : \A n \in 0..k : Eq(f, n)}
  <1>1. ASSUME T = {} PROVE \E f \in Fs : \A n \in 0..c : Eq(f, n)
    <2>1. c \in 0..c /\ c \notin T
      <3> HIDE DEF T
      <3> QED BY <1>1
    <2>2. QED BY <2>1
  <1>2. SUFFICES ASSUME T # {} PROVE FALSE BY <1>1
  <1>3. PICK k \in T : \A n \in T : k <= n
    <2>1. T \in SUBSET Nat OBVIOUS
    <2> HIDE DEF T
    <2>2. QED BY <1>2, <2>1, LeastNat
  <1>4. k \in 0..c OBVIOUS
  <1>5. CASE k = 0
    <2>1. \A n \in 0..k : Eq(t, n)
      <3>1. \A n \in 0..k : n = 0 BY <1>5
      <3>2. QED BY <3>1
    <2>2. QED BY <1>3, <2>1
  <1>6. CASE k # 0
    <2>1. k - 1 \in 0..c /\ k - 1 \notin T
      <3> HIDE DEF T
      <3> QED BY <1>3, <1>4, <1>6
    <2>2. PICK f \in Fs : \A n \in 0..k - 1 : Eq(f, n) BY <2>1
    <2> DEFINE g == [f EXCEPT ![k] = t[k] + f[k - 1]]
    <2>3. g \in Fs BY <1>4, <2>1, SMTT(30)
    <2>4. g[k] = t[k] + f[k - 1] /\ \A n \in 0..k - 1 : g[n] = f[n] BY <1>4
    <2> HIDE DEF g
    <2>5. ASSUME NEW n \in 0..k PROVE Eq(g, n)
      <3>1. CASE n = k
        <4>1. k - 1 \in 0..k - 1 BY <1>4, <1>6
        <4>2. g[k - 1] = f[k - 1] BY <2>4, <4>1
        <4>3. QED BY <1>6, <2>4, <3>1, <4>2
      <3>2. CASE n # k
        <4>1. n \in 0..k - 1 BY <1>4, <3>2
        <4>2. n # 0 => n - 1 \in 0..k - 1 BY <4>1
        <4>3. QED BY <2>2, <2>4, <4>1, <4>2
      <3>3. QED BY <3>1, <3>2
    <2>6. QED BY <2>3, <2>5
  <1>7. QED BY <1>5, <1>6

TriesEqs ==
    /\ \A n \in Nodes : Tries[n] \in Nat
    /\ Tries[0] = try_again[0]
    /\ \A n \in Nodes \ {Forest} : Tries[n] = try_again[n] + Tries[n - 1]

LEMMA TriesIs == DescentTypeOK => TriesEqs
  <1> SUFFICES ASSUME DescentTypeOK PROVE TriesEqs OBVIOUS
  <1>1. /\ created \in Nat /\ Nodes = 0..created /\ max_attempts \in Nat
        /\ try_again \in [Nodes -> 0..max_attempts]
    BY TypeFacts DEF Nodes
  <1>2. try_again \in [0..created -> Nat] BY <1>1
  <1> DEFINE E(g) == [n \in Nodes |-> try_again[n] + (IF n = 0 THEN 0 ELSE g[n - 1])]
  <1>3. PICK f \in [0..created -> Nat] :
           \A n \in 0..created : f[n] = try_again[n] + (IF n = 0 THEN 0 ELSE f[n - 1])
    BY <1>1, <1>2, SumsExist
  <1>4. f = E(f) BY <1>1, <1>3
  <1> DEFINE up == CHOOSE g : g = E(g)
  <1>5. up = E(up) BY <1>4
  <1>6. Tries = up BY DEF Tries
  <1> HIDE DEF up
  <1>7. \A n \in Nodes : up[n] = try_again[n] + (IF n = 0 THEN 0 ELSE up[n - 1]) BY <1>5
  <1>8. \A n \in Nodes : try_again[n] \in Nat /\ n \in Nat BY <1>1
  <1>9. up[0] = try_again[0] BY <1>1, <1>7, <1>8
  <1>10. \A n \in Nodes \ {Forest} : up[n] = try_again[n] + up[n - 1] BY <1>7 DEF Forest
  <1>11. \A n \in Nodes : up[n] \in Nat
    <2> DEFINE T == {n \in Nodes : up[n] \notin Nat}
    <2>1. SUFFICES ASSUME T # {} PROVE FALSE OBVIOUS
    <2>2. PICK x \in T : \A y \in T : x <= y
      <3>1. T \in SUBSET Nat BY <1>1
      <3> HIDE DEF T
      <3>2. QED BY <2>1, <3>1, LeastNat
    <2>3. x \in Nodes /\ up[x] \notin Nat /\ x \in Nat BY <1>1, <2>2
    <2>4. x # 0 BY <1>8, <1>9, <2>3
    <2>5. x - 1 \in Nodes /\ x - 1 \in Nat BY <1>1, <2>3, <2>4
    <2>6. x - 1 \notin T
      <3> HIDE DEF T
      <3>1. QED BY <2>2, <2>3, <2>5
    <2>7. up[x - 1] \in Nat BY <2>5, <2>6
    <2>8. up[x] = try_again[x] + up[x - 1] BY <1>10, <2>3, <2>4 DEF Forest
    <2>9. QED BY <1>8, <2>3, <2>7, <2>8
  <1>12. QED BY <1>6, <1>9, <1>10, <1>11 DEF TriesEqs

(* New nodes were not tried again.                                         *)
LEMMA TriesKept ==
    ASSUME DescentTypeOK, DescentTypeOK', Nodes \subseteq Nodes', created <= created',
           \A m \in Nodes : try_again'[m] = try_again[m],
           \A m \in Nodes' \ Nodes : try_again'[m] = 0
    PROVE  Tries'[created'] = Tries[created] /\ Tries[created] \in Nat
  <1>1. TriesEqs BY TriesIs
  <1>2. TriesEqs' BY TriesIs, PTL
  <1>3. created \in Nat /\ created' \in Nat /\ Nodes = 0..created /\ Nodes' = 0..created'
    BY DEF DescentTypeOK, Nodes
  <1>4. \A n \in Nodes : Tries'[n] = Tries[n]
    <2> DEFINE T == {n \in Nodes : Tries'[n] # Tries[n]}
    <2>1. SUFFICES ASSUME T # {} PROVE FALSE OBVIOUS
    <2>2. PICK x \in T : \A y \in T : x <= y
      <3>1. T \in SUBSET Nat BY <1>3
      <3> HIDE DEF T
      <3>2. QED BY <2>1, <3>1, LeastNat
    <2>3. x \in Nodes /\ Tries'[x] # Tries[x] /\ x \in Nat BY <1>3, <2>2
    <2>4. x # 0 BY <1>1, <1>2, <2>3 DEF TriesEqs
    <2>5. x - 1 \in Nodes /\ x - 1 \in Nat BY <1>3, <2>3, <2>4
    <2>6. x - 1 \notin T
      <3> HIDE DEF T
      <3>1. QED BY <2>2, <2>3, <2>5
    <2>7. Tries'[x - 1] = Tries[x - 1] BY <2>5, <2>6
    <2>8. Tries[x] = try_again[x] + Tries[x - 1] BY <1>1, <2>3, <2>4 DEF TriesEqs, Forest
    <2>9. Tries'[x] = try_again'[x] + Tries'[x - 1] BY <1>2, <2>3, <2>4 DEF TriesEqs, Forest
    <2>10. QED BY <2>3, <2>7, <2>8, <2>9
  <1>5. created \in Nodes /\ Tries[created] \in Nat BY <1>1, <1>3 DEF TriesEqs
  <1>6. \A n \in created..created' : Tries'[n] = Tries[created]
    <2> DEFINE T == {n \in created..created' : Tries'[n] # Tries[created]}
    <2>1. SUFFICES ASSUME T # {} PROVE FALSE OBVIOUS
    <2>2. PICK x \in T : \A y \in T : x <= y
      <3>1. T \in SUBSET Nat BY <1>3
      <3> HIDE DEF T
      <3>2. QED BY <2>1, <3>1, LeastNat
    <2>3. x \in created..created' /\ Tries'[x] # Tries[created] /\ x \in Nat BY <1>3, <2>2
    <2>4. x # created BY <1>4, <1>5, <2>3
    <2>5. x - 1 \in created..created' /\ x - 1 \in Nat /\ x \in Nodes' \ Nodes /\ x # 0
      BY <1>3, <2>3, <2>4
    <2>6. x - 1 \notin T
      <3> HIDE DEF T
      <3>1. QED BY <2>2, <2>3, <2>5
    <2>7. Tries'[x - 1] = Tries[created] BY <2>5, <2>6
    <2>8. Tries'[x] = try_again'[x] + Tries'[x - 1] BY <1>2, <2>5 DEF TriesEqs, Forest
    <2>9. QED BY <1>5, <2>3, <2>5, <2>7, <2>8
  <1>7. created' \in created..created' BY <1>3
  <1>8. QED BY <1>5, <1>6, <1>7

(* One node is tried once more.                                            *)
LEMMA TriesAdded ==
    ASSUME DescentTypeOK, DescentTypeOK', created' = created, NEW p \in Nodes,
           try_again'[p] = try_again[p] + 1,
           \A m \in Nodes : m # p => try_again'[m] = try_again[m]
    PROVE  Tries'[created] = Tries[created] + 1 /\ Tries[created] \in Nat
  <1>1. TriesEqs BY TriesIs
  <1>2. TriesEqs' BY TriesIs, PTL
  <1>3. /\ created \in Nat /\ Nodes = 0..created /\ Nodes' = Nodes /\ p \in Nat
        /\ \A m \in Nodes : try_again[m] \in Nat
    BY DEF DescentTypeOK, Nodes
  <1> DEFINE Good(n) == /\ n < p => Tries'[n] = Tries[n]
                        /\ ~(n < p) => Tries'[n] = Tries[n] + 1
  <1>4. \A n \in Nodes : Good(n)
    <2> DEFINE T == {n \in Nodes : ~Good(n)}
    <2>1. SUFFICES ASSUME T # {} PROVE FALSE OBVIOUS
    <2>2. PICK x \in T : \A y \in T : x <= y
      <3>1. T \in SUBSET Nat BY <1>3
      <3> HIDE DEF T
      <3>2. QED BY <2>1, <3>1, LeastNat
    <2>3. x \in Nodes /\ ~Good(x) /\ x \in Nat BY <1>3, <2>2
    <2>4. CASE x = 0
      <3>1. Tries[0] = try_again[0] /\ Tries'[0] = try_again'[0] BY <1>1, <1>2 DEF TriesEqs
      <3>2. CASE p = 0 BY <2>3, <2>4, <3>1, <3>2
      <3>3. CASE p # 0 BY <1>3, <2>3, <2>4, <3>1, <3>3
      <3>4. QED BY <3>2, <3>3
    <2>5. CASE x # 0
      <3>1. x - 1 \in Nodes /\ x - 1 \in Nat BY <1>3, <2>3, <2>5
      <3>2. x - 1 \notin T
        <4> HIDE DEF T
        <4>1. QED BY <2>2, <2>3, <3>1
      <3>3. Good(x - 1) BY <3>1, <3>2
      <3>4. Tries[x] = try_again[x] + Tries[x - 1] BY <1>1, <2>3, <2>5 DEF TriesEqs, Forest
      <3>5. Tries'[x] = try_again'[x] + Tries'[x - 1] BY <1>2, <1>3, <2>3, <2>5 DEF TriesEqs, Forest
      <3>6. Tries[x - 1] \in Nat /\ try_again[x] \in Nat BY <1>1, <1>3, <2>3, <3>1 DEF TriesEqs
      <3>7. CASE x = p
        <4>1. Tries'[x - 1] = Tries[x - 1] BY <1>3, <2>3, <3>3, <3>7
        <4>2. Tries'[x] = Tries[x] + 1 BY <3>4, <3>5, <3>6, <3>7, <4>1
        <4>3. QED BY <1>3, <2>3, <3>7, <4>2
      <3>8. CASE x # p
        <4>1. try_again'[x] = try_again[x] BY <2>3, <3>8
        <4>2. CASE x < p
          <5>1. x - 1 < p BY <1>3, <2>3, <4>2
          <5>2. QED BY <2>3, <3>3, <3>4, <3>5, <4>1, <4>2, <5>1
        <4>3. CASE ~(x < p)
          <5>1. ~(x - 1 < p) BY <1>3, <2>3, <3>8, <4>3
          <5>2. Tries'[x - 1] = Tries[x - 1] + 1 BY <3>3, <5>1
          <5>3. Tries'[x] = Tries[x] + 1 BY <3>4, <3>5, <3>6, <4>1, <5>2
          <5>4. QED BY <2>3, <4>3, <5>3
        <4>4. QED BY <4>2, <4>3
      <3>9. QED BY <3>7, <3>8
    <2>6. QED BY <2>4, <2>5
  <1>5. created \in Nodes /\ ~(created < p) BY <1>3
  <1>6. Tries[created] \in Nat BY <1>1, <1>5 DEF TriesEqs
  <1>7. QED BY <1>4, <1>5, <1>6

(* What CountersSayTree adds to the types.                                 *)
Balance == pulled + Len(all_pending) = created + Tries[created]

CountInv ==
    /\ done = Cardinality(With(DONE))
    /\ abandoned = Cardinality(With(ABANDONED))
    /\ Balance

(* The settled nodes when the nodes in S come to have the status st.       *)
LEMMA WithGrows ==
    ASSUME PlaceInv, Nodes \subseteq Nodes', NEW st, NEW S \in SUBSET (Nodes \ {Forest}),
           \A m \in S : status[m] # st /\ status'[m] = st,
           \A m \in Nodes \ {Forest} : m \notin S => (status'[m] = st <=> status[m] = st),
           \A m \in Nodes' \ Nodes : status'[m] # st
    PROVE  /\ Cardinality(With(st)') = Cardinality(With(st)) + Cardinality(S)
           /\ Cardinality(With(st)) \in Nat /\ Cardinality(S) \in Nat
  <1>1. With(st)' = With(st) \cup S BY DEF With
  <1>2. With(st) \cap S = {} BY DEF With
  <1>3. IsFiniteSet(Nodes) BY NodeFacts DEF PlaceInv
  <1>4. With(st) \in SUBSET Nodes /\ S \in SUBSET Nodes BY DEF With
  <1>5. IsFiniteSet(With(st)) /\ IsFiniteSet(S) BY <1>3, <1>4, FS_Subset
  <1>6. Cardinality(With(st)) \in Nat /\ Cardinality(S) \in Nat BY <1>5, FS_CardinalityType
  <1>7. Cardinality(With(st) \cup S) =
           Cardinality(With(st)) + Cardinality(S) - Cardinality(With(st) \cap S)
    BY <1>5, FS_Union
  <1>8. Cardinality(With(st) \cap S) = 0 BY <1>2, FS_EmptySet
  <1>9. QED BY <1>1, <1>6, <1>7, <1>8

(* Steps that settle no node.                                              *)
LEMMA WithSame ==
    ASSUME PlaceInv, CountInv, Nodes \subseteq Nodes', UNCHANGED <<done, abandoned>>,
           \A m \in Nodes \ {Forest} : /\ status'[m] = DONE <=> status[m] = DONE
                                       /\ status'[m] = ABANDONED <=> status[m] = ABANDONED,
           \A m \in Nodes' \ Nodes : status'[m] # DONE /\ status'[m] # ABANDONED
    PROVE  done' = Cardinality(With(DONE)') /\ abandoned' = Cardinality(With(ABANDONED)')
  <1>1. With(DONE)' = With(DONE) BY DEF With
  <1>2. With(ABANDONED)' = With(ABANDONED) BY DEF With
  <1>3. QED BY <1>1, <1>2 DEF CountInv

(* Steps that leave the tree and the queue alone.                          *)
LEMMA CountSame ==
    ASSUME PlaceInv, PlaceInv', CountInv,
           UNCHANGED <<created, status, try_again, all_pending, pulled, done, abandoned>>
    PROVE  CountInv'
  <1>1. Nodes' = Nodes BY DEF Nodes
  <1>2. done' = Cardinality(With(DONE)') /\ abandoned' = Cardinality(With(ABANDONED)')
    BY <1>1, WithSame
  <1>3. created \in Nat BY TypeFacts DEF PlaceInv
  <1>4. Tries'[created'] = Tries[created] BY <1>1, <1>3, TriesKept DEF PlaceInv
  <1>5. Balance' BY <1>4 DEF CountInv, Balance
  <1>6. QED BY <1>2, <1>5 DEF CountInv

LEMMA CountPull ==
    ASSUME PlaceInv, PlaceInv', CountInv, NEW s \in Subjobs,
           PullPending(s) \/ PullFresh(s) \/ PullNothing(s)
    PROVE  CountInv'
  <1>k. PICK k : k = Skipped(all_pending) OBVIOUS
  <1>q. PICK q : q = all_pending OBVIOUS
  <1>1. /\ created \in Nat /\ pulled \in Nat /\ status \in [Nodes -> Statuses]
        /\ q \in Seq(Nodes) /\ Len(q) \in Nat
    BY <1>q, TypeFacts DEF PlaceInv
  <1>2. k \in 0..Len(q) BY <1>k, <1>q, PullFacts
  <1>3. pulled + Len(q) = created + Tries[created] BY <1>q DEF CountInv, Balance
  <1>4. UNCHANGED <<done, abandoned>> BY DEF PullPending, PullFresh, PullNothing
  <1>5. CASE PullPending(s)
    <2>n. PICK n : n = q[k + 1] OBVIOUS
    <2>1. /\ k < Len(q) /\ pulled' = pulled + k + 1 /\ all_pending' = SubSeq(q, k + 2, Len(q))
          /\ status' = [status EXCEPT ![n] = IN_PROGRESS] /\ UNCHANGED <<created, try_again>>
      BY <1>5, <1>k, <1>q, <2>n DEF PullPending
    <2>2. n \in Nodes /\ status[n] = PENDING BY <1>k, <1>q, <2>1, <2>n, PullFacts
    <2>3. Nodes' = Nodes BY <2>1 DEF Nodes
    <2>4. status'[n] = IN_PROGRESS /\ \A m \in Nodes : m # n => status'[m] = status[m]
      BY <1>1, <2>1, <2>2
    <2>5. done' = Cardinality(With(DONE)') /\ abandoned' = Cardinality(With(ABANDONED)')
      <3>1. \A m \in Nodes \ {Forest} : /\ status'[m] = DONE <=> status[m] = DONE
                                        /\ status'[m] = ABANDONED <=> status[m] = ABANDONED
        BY <2>2, <2>4, StatusNames
      <3>2. QED BY <1>4, <2>3, <3>1, WithSame
    <2>6. Tries'[created'] = Tries[created] BY <1>1, <2>1, <2>3, TriesKept DEF PlaceInv
    <2>7. Len(all_pending') = Len(q) - (k + 1) BY <1>1, <1>2, <2>1
    <2>8. pulled' + Len(all_pending') = created + Tries[created]
      <3>1. k \in Nat /\ Len(q) \in Nat /\ pulled \in Nat BY <1>1, <1>2
      <3>2. pulled' = pulled + k + 1 BY <2>1
      <3>3. QED BY <1>3, <2>7, <3>1, <3>2
    <2>9. QED BY <2>1, <2>5, <2>6, <2>8 DEF CountInv, Balance
  <1>6. CASE PullFresh(s)
    <2>1. /\ k = Len(q) /\ pulled' = pulled + k + 1 /\ all_pending' = <<>>
          /\ NewNodes(1, Forest, IN_PROGRESS, status)
      BY <1>6, <1>k, <1>q DEF PullFresh
    <2>2. /\ created' = created + 1
          /\ Nodes' = Nodes \cup (created + 1 .. created + 1)
          /\ \A m \in Nodes : status'[m] = status[m] /\ try_again'[m] = try_again[m]
          /\ \A m \in created + 1 .. created + 1 : status'[m] = IN_PROGRESS /\ try_again'[m] = 0
      <3>1. 1 \in Nat OBVIOUS
      <3>2. QED BY <1>1, <2>1, <3>1, NewNodesFacts
    <2>3. done' = Cardinality(With(DONE)') /\ abandoned' = Cardinality(With(ABANDONED)')
      BY <1>4, <2>2, StatusNames, WithSame
    <2>4. created <= created' /\ \A m \in Nodes' \ Nodes : try_again'[m] = 0 BY <1>1, <2>2
    <2>5. Tries'[created'] = Tries[created] /\ Tries[created] \in Nat
      BY <2>2, <2>4, TriesKept DEF PlaceInv
    <2>6. pulled' + Len(all_pending') = created' + Tries[created]
      <3>1. Len(all_pending') = 0 BY <2>1
      <3>2. QED BY <1>1, <1>3, <2>1, <2>2, <2>5, <3>1
    <2>7. QED BY <2>3, <2>5, <2>6 DEF CountInv, Balance
  <1>7. CASE PullNothing(s)
    <2>1. /\ k = Len(q) /\ pulled' = pulled + k /\ all_pending' = <<>>
          /\ UNCHANGED <<created, status, try_again>>
      BY <1>7, <1>k, <1>q DEF PullNothing, tree
    <2>2. Nodes' = Nodes BY <2>1 DEF Nodes
    <2>3. done' = Cardinality(With(DONE)') /\ abandoned' = Cardinality(With(ABANDONED)')
      BY <1>4, <2>1, <2>2, WithSame
    <2>4. Tries'[created'] = Tries[created] BY <1>1, <2>1, <2>2, TriesKept DEF PlaceInv
    <2>5. pulled' + Len(all_pending') = created + Tries[created]
      <3>1. Len(all_pending') = 0 BY <2>1
      <3>2. QED BY <1>1, <1>3, <2>1, <3>1
    <2>6. QED BY <2>1, <2>3, <2>4, <2>5 DEF CountInv, Balance
  <1>8. QED BY <1>5, <1>6, <1>7

LEMMA CountAbandon ==
    ASSUME PlaceInv, PlaceInv', CountInv, NEW s \in Subjobs, Held(s), Abandon(s) PROVE CountInv'
  <1>n. PICK n : n = task[s] OBVIOUS
  <1>d. PICK D : D = Dead(n) OBVIOUS
  <1>r. PICK R : R = Retried(n) OBVIOUS
  <1>q. PICK q : q = all_pending OBVIOUS
  <1>1. /\ AbandonSets(D, R, n)
        /\ \A m \in D : status'[m] = ABANDONED /\ try_again'[m] = try_again[m]
        /\ \A m \in R : status'[m] = PENDING /\ try_again'[m] = try_again[m] + 1
        /\ \A m \in Nodes : m \notin D \cup R =>
              status'[m] = status[m] /\ try_again'[m] = try_again[m]
        /\ R = {} => all_pending' = q
        /\ \A m \in R : all_pending' = Append(q, m)
        /\ abandoned' = abandoned + Cardinality(D \ {Forest})
        /\ UNCHANGED <<created, pulled, done>>
    BY <1>n, <1>d, <1>r, <1>q, AbandonStep
  <1>2. Nodes' = Nodes BY <1>1 DEF Nodes
  <1>3. created \in Nat /\ pulled \in Nat /\ q \in Seq(Nodes) /\ Len(q) \in Nat
    BY <1>q, TypeFacts DEF PlaceInv
  <1>4. /\ D \subseteq Nodes /\ R \subseteq Nodes \ {Forest} /\ D \cap R = {}
        /\ \A m, y \in R : m = y
    BY <1>1 DEF AbandonSets
  <1>5. \A m \in D \cup R : status[m] # DONE /\ status[m] # ABANDONED
    BY <1>1, StatusNames DEF AbandonSets, Unfinished
  <1>6. abandoned' = Cardinality(With(ABANDONED)')
    <2>1. PICK S : S = D \ {Forest} OBVIOUS
    <2>2. /\ S \in SUBSET (Nodes \ {Forest})
          /\ \A m \in S : status[m] # ABANDONED /\ status'[m] = ABANDONED
          /\ \A m \in Nodes \ {Forest} : m \notin S => (status'[m] = ABANDONED <=> status[m] = ABANDONED)
      BY <1>1, <1>4, <1>5, <2>1, StatusNames
    <2>3. Cardinality(With(ABANDONED)') = Cardinality(With(ABANDONED)) + Cardinality(S)
      BY <1>2, <2>2, WithGrows
    <2>4. QED BY <1>1, <2>1, <2>3 DEF CountInv
  <1>7. done' = Cardinality(With(DONE)')
    <2>1. \A m \in Nodes : status'[m] = DONE <=> status[m] = DONE BY <1>1, <1>5, StatusNames
    <2>2. With(DONE)' = With(DONE) BY <1>2, <2>1 DEF With
    <2>3. QED BY <1>1, <2>2 DEF CountInv
  <1>8. Balance'
    <2>0. pulled + Len(q) = created + Tries[created] BY <1>q DEF CountInv, Balance
    <2>1. CASE R = {}
      <3>1. \A m \in Nodes : try_again'[m] = try_again[m] BY <1>1, <2>1
      <3>2. Tries'[created'] = Tries[created]
        BY <1>1, <1>2, <1>3, <3>1, TriesKept DEF PlaceInv
      <3>3. QED BY <1>1, <2>0, <2>1, <3>2 DEF Balance
    <2>2. ASSUME NEW p \in R PROVE Balance'
      <3>1. p \in Nodes /\ try_again'[p] = try_again[p] + 1 BY <1>1, <1>4
      <3>2. \A m \in Nodes : m # p => try_again'[m] = try_again[m] BY <1>1, <1>4
      <3>3. Tries'[created] = Tries[created] + 1 /\ Tries[created] \in Nat
        BY <1>1, <3>1, <3>2, TriesAdded DEF PlaceInv
      <3>4. Len(all_pending') = Len(q) + 1
        <4>1. all_pending' = Append(q, p) BY <1>1
        <4>2. QED BY <1>3, <4>1
      <3>5. QED BY <1>1, <1>3, <2>0, <3>3, <3>4 DEF Balance
    <2>3. QED BY <2>1, <2>2
  <1>9. QED BY <1>6, <1>7, <1>8 DEF CountInv

LEMMA CountDecide ==
    ASSUME PlaceInv, PlaceInv', CountInv, NEW s \in Subjobs, Held(s), status[task[s]] # ABANDONED,
           contender[task[s]] # NoRel, Split(s) \/ Recurse(s)
    PROVE  CountInv'
  <1>n. PICK n : n = task[s] OBVIOUS
  <1>1. CASE Split(s)
    <2>d. PICK D : D = NowDone(n) OBVIOUS
    <2>1. /\ status[n] = IN_PROGRESS /\ DoneSet(D, n)
          /\ \A m \in D : status'[m] = DONE
          /\ \A m \in Nodes : m \notin D => status'[m] = status[m]
          /\ done' = done + Cardinality(D)
          /\ UNCHANGED <<try_again, all_pending, created, pulled, abandoned>>
      BY <1>n, <1>1, <2>d, SplitStep
    <2>2. Nodes' = Nodes BY <2>1 DEF Nodes
    <2>3. D \in SUBSET (Nodes \ {Forest}) /\ \A m \in D : m = n \/ status[m] = IN_RECURSION
      BY <2>1 DEF DoneSet
    <2>4. \A m \in D : status[m] # DONE /\ status[m] # ABANDONED BY <2>1, <2>3, StatusNames
    <2>5. Cardinality(With(DONE)') = Cardinality(With(DONE)) + Cardinality(D)
      BY <2>1, <2>2, <2>3, <2>4, WithGrows
    <2>6. With(ABANDONED)' = With(ABANDONED)
      BY <2>1, <2>2, <2>3, <2>4, StatusNames DEF With
    <2>7. created \in Nat BY TypeFacts DEF PlaceInv
    <2>8. Tries'[created'] = Tries[created] BY <2>1, <2>2, <2>7, TriesKept DEF PlaceInv
    <2>9. QED BY <2>1, <2>5, <2>6, <2>8 DEF CountInv, Balance
  <1>2. CASE Recurse(s)
    <2>k. PICK k : k = Outstanding[contender[n]] OBVIOUS
    <2>w. PICK New : New = created + 1 .. created + k OBVIOUS
    <2>1. /\ status[n] = IN_PROGRESS /\ k \in Nat /\ created' = created + k
          /\ Nodes' = Nodes \cup New /\ status'[n] = IN_RECURSION
          /\ \A m \in Nodes : m # n => status'[m] = status[m]
          /\ \A m \in Nodes : try_again'[m] = try_again[m]
          /\ \A m \in New : status'[m] = PENDING /\ try_again'[m] = 0
          /\ Len(all_pending') = Len(all_pending) + k
          /\ UNCHANGED <<pulled, done, abandoned>>
      BY <1>n, <1>2, <2>k, <2>w, RecurseStep
    <2>2. created \in Nat /\ pulled \in Nat /\ Len(all_pending) \in Nat BY TypeFacts DEF PlaceInv
    <2>3. done' = Cardinality(With(DONE)') /\ abandoned' = Cardinality(With(ABANDONED)')
      <3>1. \A m \in Nodes \ {Forest} : /\ status'[m] = DONE <=> status[m] = DONE
                                        /\ status'[m] = ABANDONED <=> status[m] = ABANDONED
        BY <2>1, StatusNames
      <3>2. QED BY <2>1, <3>1, StatusNames, WithSame
    <2>4. created <= created' /\ \A m \in Nodes' \ Nodes : try_again'[m] = 0 BY <2>1, <2>2
    <2>5. Tries'[created'] = Tries[created] /\ Tries[created] \in Nat
      BY <2>1, <2>4, TriesKept DEF PlaceInv
    <2>6. Balance'
      <3>1. pulled + Len(all_pending) = created + Tries[created] BY DEF CountInv, Balance
      <3>2. /\ pulled' = pulled /\ Len(all_pending') = Len(all_pending) + k
            /\ created' = created + k /\ k \in Nat
        BY <2>1
      <3>3. pulled' + Len(all_pending') = created' + Tries[created] BY <2>2, <2>5, <3>1, <3>2
      <3>4. QED BY <2>5, <3>3 DEF Balance
    <2>7. QED BY <2>3, <2>6 DEF CountInv
  <1>3. QED BY <1>1, <1>2

LEMMA CountNext ==
    ASSUME PlaceInv, PlaceInv', CountInv, [Next]_vars PROVE CountInv'
  <1>1. CASE UNCHANGED vars BY <1>1, CountSame DEF vars, tree, counters
  <1>2. CASE Ended BY <1>1, <1>2 DEF Ended
  <1>3. ASSUME NEW s \in Subjobs, SubjobStep(s) \/ Discard(s) \/ SpuriousWakeup(s) PROVE CountInv'
    <2>1. CASE PullPending(s) \/ PullFresh(s) \/ PullNothing(s) BY <2>1, CountPull
    <2>2. CASE new_candidate_relation(s) \/ Discard(s) \/ SpuriousWakeup(s)
      BY <2>2, CountSame DEF new_candidate_relation, Discard, SpuriousWakeup, tree, counters
    <2>3. QED BY <1>3, <2>1, <2>2 DEF SubjobStep
  <1>4. ASSUME NEW s \in Subjobs, NEW r \in Rels, FindRelation(s, r) PROVE CountInv'
    BY <1>4, CountSame DEF FindRelation, tree, counters
  <1>5. ASSUME NEW s \in Subjobs, Postprocess(s) PROVE CountInv'
    <2>1. Held(s) BY <1>5 DEF Postprocess, Ready, Held
    <2>2. CASE Abandon(s) BY <2>1, <2>2, CountAbandon
    <2>3. CASE UNCHANGED <<tree, all_pending, counters>> BY <2>3, CountSame DEF tree, counters
    <2>4. CASE /\ contender[task[s]] # NoRel /\ status[task[s]] # ABANDONED
               /\ Split(s) \/ Recurse(s)
      BY <2>1, <2>4, CountDecide
    <2>5. QED BY <1>5, <2>2, <2>3, <2>4 DEF Postprocess
  <1>6. QED BY <1>1, <1>2, <1>3, <1>4, <1>5 DEF Next

(* done, abandoned, created and pulled, on which pull() decides to wait or *)
(* to end, say what is in the tree, whatever subtrees were abandoned.      *)
THEOREM CountersAreExact == Spec => []CountersSayTree
  <1>1. Init => CountInv
    <2> SUFFICES ASSUME Init PROVE CountInv OBVIOUS
    <2>1. Nodes = {Forest} /\ created = 0 BY DEF Init, Nodes, Forest
    <2>2. With(DONE) = {} /\ With(ABANDONED) = {} BY <2>1 DEF With
    <2>3. TriesEqs BY InitPlaces, TriesIs DEF PlaceInv
    <2>4. Tries[created] = 0
      <3>1. try_again[0] = 0 BY DEF Init, Forest
      <3>2. QED BY <2>1, <2>3, <3>1 DEF TriesEqs
    <2>5. Len(all_pending) = 0 /\ pulled = 0 /\ done = 0 /\ abandoned = 0 BY DEF Init
    <2>6. QED BY <2>1, <2>2, <2>4, <2>5, FS_EmptySet DEF CountInv, Balance
  <1>2. PlaceInv /\ PlaceInv' /\ CountInv /\ [Next]_vars => CountInv' BY CountNext
  <1>3. PlaceInv /\ CountInv => CountersSayTree
    BY DEF PlaceInv, CountInv, Balance, CountersSayTree
  <1>4. QED BY <1>1, <1>2, <1>3, PlaceInvAlways, PTL DEF Spec
=============================================================================
