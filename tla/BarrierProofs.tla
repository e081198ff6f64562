--------------------------- MODULE BarrierProofs ---------------------------
(***************************************************************************)
(* For any finite group of threads and any number of barriers, the barrier *)
(* of utils/barrier.c keeps its counters right, is destroyed only when it  *)
(* is empty, and implements AbstractBarrier.  The invariant is inductive   *)
(* as it stands (BarrierExact with the types): event's low bit says in     *)
(* which direction left counts, and each direction fixes arrived and       *)
(* crossed up to one.                                                      *)
(*                                                                         *)
(* The collectives of parallelizing_info.cpp are those steps with in() and *)
(* out() added.  CInv says what the data area of a thread holds at each    *)
(* stage of a call, what utility_ptr points to while the barrier fills and *)
(* while it empties, and that two threads differ by one barrier at most in *)
(* what is behind them (InStep).                                           *)
(***************************************************************************)
EXTENDS PiCollective, FiniteSetTheorems, TLAPS

BInv == BarrierTypeOK /\ BarrierExact

(* The low bit of event and the number of the barrier.                     *)
LEMMA Parity ==
    ASSUME NEW e \in Nat
    PROVE  /\ e \div 2 \in Nat
           /\ ~Odd(e) => e = 2 * (e \div 2) /\ Odd(e + 1) /\ (e + 1) \div 2 = e \div 2
           /\ ~Odd(e) => ~Odd(e + 2) /\ (e + 2) \div 2 = e \div 2 + 1
           /\ Odd(e) => e = 2 * (e \div 2) + 1 /\ ~Odd(e + 1) /\ (e + 1) \div 2 = e \div 2 + 1
  BY DEF Odd

(* Any group of the threads can be counted.                                *)
LEMMA Counted ==
    ASSUME NEW S \in SUBSET Threads
    PROVE  IsFiniteSet(S) /\ Cardinality(S) \in Nat /\ Cardinality(S) <= Cardinality(Threads)
  BY BarrierAssumption, FS_Subset, FS_CardinalityType

(* One more thread is one more; and with all but one counted, the one that *)
(* is missing completes the group.                                         *)
LEMMA OneMore ==
    ASSUME NEW S \in SUBSET Threads, NEW t \in Threads, t \notin S
    PROVE  /\ Cardinality(S \cup {t}) = Cardinality(S) + 1
           /\ Cardinality(S) + 1 = Cardinality(Threads) => S \cup {t} = Threads
  <1>1. IsFiniteSet(S) BY Counted
  <1>2. Cardinality(S \cup {t}) = Cardinality(S) + 1 BY <1>1, FS_AddElement
  <1>3. S \cup {t} \in SUBSET Threads OBVIOUS
  <1>4. QED BY <1>2, <1>3, BarrierAssumption, FS_Subset

LEMMA NoneCounted == Cardinality({}) = 0
  BY FS_EmptySet

(* Cardinality(Threads) is at least 1.                                     *)
LEMMA SomeThread == Cardinality(Threads) \in Nat /\ Cardinality(Threads) > 0
  <1>1. Cardinality(Threads) \in Nat BY BarrierAssumption, FS_CardinalityType
  <1>2. Threads # {} BY BarrierAssumption
  <1>3. Cardinality(Threads) # 0 BY <1>2, BarrierAssumption, FS_EmptySet
  <1>4. QED BY <1>1, <1>3

LEMMA BInvInit == BarrierInit => BInv
  <1> SUFFICES ASSUME BarrierInit PROVE BInv OBVIOUS
  <1> USE DEF BarrierInit
  <1>1. BarrierTypeOK BY SomeThread DEF BarrierTypeOK
  <1>2. Round = 0 /\ ~Leaving BY DEF Round, Leaving, Odd
  <1>3. Came = {} BY <1>2 DEF Came
  <1>4. FillingExact BY <1>2, <1>3, NoneCounted, SomeThread DEF FillingExact
  <1>5. EmptyingExact BY <1>2 DEF EmptyingExact
  <1>6. SleepersExact BY BarrierAssumption DEF SleepersExact
  <1>7. QED BY <1>1, <1>4, <1>5, <1>6, SomeThread DEF BInv, BarrierExact

(* A thread that has nothing to do with the current barrier's counters     *)
(* only moves between the mutex and the condition.                         *)
LEMMA QuietStep ==
    ASSUME BInv, UNCHANGED <<left, count, event, arrived, crossed>>,
           BarrierTypeOK', SleepersExact'
    PROVE  BInv'
  BY DEF BInv, BarrierExact, FillingExact, EmptyingExact, Round, Came, Gone, Leaving

LEMMA FinishStep == ASSUME BInv, NEW t \in Threads, Finish(t) PROVE BInv'
  <1> USE DEF Finish, AtDoor
  <1>1. BarrierTypeOK' BY DEF BInv, BarrierTypeOK
  <1>2. SleepersExact' BY DEF BInv, BarrierTypeOK, BarrierExact, SleepersExact
  <1>3. QED BY <1>1, <1>2, QuietStep

LEMMA SleepAgainStep == ASSUME BInv, NEW t \in Threads, SleepAgain(t) PROVE BInv'
  <1> USE DEF SleepAgain
  <1>1. BarrierTypeOK' BY DEF BInv, BarrierTypeOK
  <1>2. SleepersExact' BY DEF BInv, BarrierTypeOK, BarrierExact, SleepersExact
  <1>3. QED BY <1>1, <1>2, QuietStep

LEMMA SpuriousStep == ASSUME BInv, NEW t \in Threads, SpuriousWakeup(t) PROVE BInv'
  <1> USE DEF SpuriousWakeup
  <1>1. BarrierTypeOK' BY DEF BInv, BarrierTypeOK
  <1>2. SleepersExact' BY DEF BInv, BarrierTypeOK, BarrierExact, SleepersExact
  <1>3. QED BY <1>1, <1>2, QuietStep

LEMMA DestroyWaitStep == ASSUME BInv, DestroyWait PROVE BInv'
  <1> USE DEF DestroyWait
  <1>1. BarrierTypeOK' BY BarrierAssumption DEF BInv, BarrierTypeOK
  <1>2. SleepersExact' BY BarrierAssumption DEF BInv, BarrierTypeOK, BarrierExact, SleepersExact
  <1>3. QED BY <1>1, <1>2, QuietStep

LEMMA DestroyStep == ASSUME BInv, Destroy PROVE BInv'
  <1> USE DEF Destroy
  <1>1. BarrierTypeOK' BY BarrierAssumption DEF BInv, BarrierTypeOK
  <1>2. SleepersExact' BY BarrierAssumption DEF BInv, BarrierTypeOK, BarrierExact, SleepersExact
  <1>3. QED BY <1>1, <1>2, QuietStep

(* A thread at the door of a barrier that fills has not been counted yet.  *)
LEMMA AtDoorNotCounted ==
    ASSUME BInv, NEW t \in Threads, AtDoor(t), ~Leaving
    PROVE  /\ Round \in Nat /\ event = 2 * Round
           /\ arrived[t] = Round /\ crossed[t] = Round /\ arrived[t] < MaxRounds
           /\ t \notin Came /\ Came \in SUBSET Threads
           /\ Cardinality(Came) \in Nat
  <1> USE DEF BInv, BarrierTypeOK
  <1>1. Round \in Nat /\ event = 2 * Round BY Parity DEF Round, Leaving
  <1>2. crossed[t] = Round /\ arrived[t] \in {Round, Round + 1}
    BY DEF BarrierExact, FillingExact
  <1>3. ~(crossed[t] < arrived[t]) /\ arrived[t] < MaxRounds
    BY DEF BarrierExact, SleepersExact, AtDoor
  <1>4. arrived[t] = Round BY <1>1, <1>2, <1>3
  <1>5. t \notin Came /\ Came \in SUBSET Threads BY <1>1, <1>4 DEF Came
  <1>6. QED BY <1>1, <1>2, <1>3, <1>4, <1>5, Counted

LEMMA GatherStep == ASSUME BInv, NEW t \in Threads, Gather(t) PROVE BInv'
  <1> USE DEF Gather
  <1>1. /\ Round \in Nat /\ event = 2 * Round
        /\ arrived[t] = Round /\ crossed[t] = Round /\ arrived[t] < MaxRounds
        /\ t \notin Came /\ Came \in SUBSET Threads /\ Cardinality(Came) \in Nat
    BY AtDoorNotCounted
  <1>2. left \in Nat /\ left > 1 BY DEF BInv, BarrierTypeOK, BarrierExact
  <1>3. BarrierTypeOK' BY <1>2 DEF BInv, BarrierTypeOK
  <1>4. Round' = Round /\ ~Leaving' BY DEF Round, Leaving
  <1>5. Came' = Came \cup {t} BY <1>1, <1>4 DEF Came, BInv, BarrierTypeOK
  <1>6. Cardinality(Came') = Cardinality(Came) + 1 BY <1>1, <1>5, OneMore
  <1>7. left + Cardinality(Came) = count BY DEF BInv, BarrierExact, FillingExact
  <1>8. FillingExact'
    <2>1. (left + Cardinality(Came) = count)'
      BY <1>1, <1>2, <1>6, <1>7
    <2>2. (\A u \in Threads : crossed[u] = Round /\ arrived[u] \in {Round, Round + 1})'
      BY <1>1, <1>4 DEF BInv, BarrierTypeOK, BarrierExact, FillingExact
    <2>3. QED BY <2>1, <2>2 DEF FillingExact
  <1>9. EmptyingExact' BY <1>4 DEF EmptyingExact
  <1>10. SleepersExact'
    BY <1>1, BarrierAssumption DEF BInv, BarrierTypeOK, BarrierExact, SleepersExact
  <1>11. left' > 0 /\ count' = Cardinality(Threads) BY <1>2 DEF BInv, BarrierExact
  <1>12. QED BY <1>3, <1>8, <1>9, <1>10, <1>11 DEF BInv, BarrierExact

(* The last to arrive: everyone has now arrived.                           *)
LEMMA LastArrives ==
    ASSUME BInv, NEW t \in Threads, Release(t)
    PROVE  /\ Round \in Nat /\ event = 2 * Round
           /\ arrived[t] = Round /\ crossed[t] = Round /\ arrived[t] < MaxRounds
           /\ \A u \in Threads : crossed[u] = Round /\ (u # t => arrived[u] = Round + 1)
           /\ count = 1 => Threads = {t}
  <1> USE DEF Release
  <1>1. /\ Round \in Nat /\ event = 2 * Round
        /\ arrived[t] = Round /\ crossed[t] = Round /\ arrived[t] < MaxRounds
        /\ t \notin Came /\ Came \in SUBSET Threads /\ Cardinality(Came) \in Nat
    BY AtDoorNotCounted
  <1>2. Cardinality(Came) + 1 = Cardinality(Threads)
    BY <1>1 DEF BInv, BarrierExact, FillingExact
  <1>3. Came \cup {t} = Threads BY <1>1, <1>2, OneMore
  <1>4. \A u \in Threads : crossed[u] = Round /\ (u # t => arrived[u] = Round + 1)
    BY <1>3 DEF Came, BInv, BarrierExact, FillingExact
  <1>5. ASSUME count = 1 PROVE Threads = {t}
    <2>1. Cardinality(Came) = 0 BY <1>1, <1>2, <1>5 DEF BInv, BarrierExact
    <2>2. Came = {} BY <1>1, <2>1, Counted, FS_EmptySet
    <2>3. QED BY <1>3, <2>2
  <1>6. QED BY <1>1, <1>4, <1>5

LEMMA ReleaseStep == ASSUME BInv, NEW t \in Threads, Release(t) PROVE BInv'
  <1> USE DEF Release
  <1> DEFINE r == Round
  <1>1. /\ r \in Nat /\ event = 2 * r /\ event \in Nat /\ ~Odd(event) /\ event \div 2 = r
        /\ arrived[t] = r /\ crossed[t] = r /\ r < MaxRounds
        /\ \A u \in Threads : crossed[u] = r /\ (u # t => arrived[u] = r + 1)
        /\ count = 1 => Threads = {t}
    BY LastArrives DEF Leaving, BInv, BarrierTypeOK, Round
  <1>2. BarrierTypeOK' BY DEF BInv, BarrierTypeOK
  <1>3. SleepersExact'
    <2>1. \A u \in Threads : arrived'[u] <= MaxRounds
      BY <1>1, BarrierAssumption DEF BInv, BarrierTypeOK, BarrierExact, SleepersExact
    <2>2. \A u \in Threads : pc'[u] = "wait" <=> crossed'[u] < arrived'[u]
      BY <1>1 DEF BInv, BarrierTypeOK, BarrierExact, SleepersExact
    <2>3. \A u \in Threads : pc'[u] = "wait" => saved'[u] = 2 * crossed'[u]
      BY <1>1 DEF BInv, BarrierTypeOK, BarrierExact, SleepersExact
    <2>4. \A u \in Threads :
            /\ pc'[u] = "finish" => arrived'[u] < MaxRounds
            /\ pc'[u] = "destroy" => u = Owner /\ crossed'[u] = MaxRounds
      BY <1>1 DEF BInv, BarrierTypeOK, BarrierExact, SleepersExact
    <2>5. QED BY <2>1, <2>2, <2>3, <2>4 DEF SleepersExact
  <1>4. arrived' \in [Threads -> Nat] /\ crossed' \in [Threads -> Nat]
        /\ \A u \in Threads : arrived'[u] = r + 1 /\ crossed'[u] = (IF u = t THEN r + 1 ELSE r)
    BY <1>1 DEF BInv, BarrierTypeOK
  <1>5. count' = count /\ count = Cardinality(Threads) /\ count \in Nat /\ left' = 1
    BY SomeThread DEF BInv, BarrierExact
  <1>6. CASE count = 1
    <2>1. Round' = r + 1 /\ ~Leaving' BY <1>1, <1>6, Parity DEF Round, Leaving
    <2>2. \A u \in Threads : crossed'[u] = r + 1 BY <1>1, <1>4, <1>6
    <2>3. Came' = {} BY <1>1, <1>4, <2>1 DEF Came
    <2>4. FillingExact' BY <1>1, <1>4, <1>5, <1>6, <2>1, <2>2, <2>3, NoneCounted DEF FillingExact
    <2>5. EmptyingExact' BY <2>1 DEF EmptyingExact
    <2>6. QED BY <1>2, <1>3, <1>5, <2>4, <2>5 DEF BInv, BarrierExact
  <1>7. CASE count # 1
    <2>1. Round' = r /\ Leaving' BY <1>1, <1>7, Parity DEF Round, Leaving
    <2>2. Gone' = {t} BY <1>1, <1>4, <2>1 DEF Gone
    <2>3. Cardinality(Gone') = 1 BY <2>2, FS_Singleton
    <2>4. count > 1 BY <1>5, <1>7, SomeThread
    <2>5. EmptyingExact' BY <1>1, <1>4, <1>5, <2>1, <2>3, <2>4 DEF EmptyingExact
    <2>6. FillingExact' BY <2>1 DEF FillingExact
    <2>7. QED BY <1>2, <1>3, <1>5, <2>5, <2>6 DEF BInv, BarrierExact
  <1>8. QED BY <1>6, <1>7

(* A thread that gets out of the loop of barrier_wait_unlocked() does so   *)
(* while the barrier empties, and has not been counted as gone.            *)
LEMMA LeavesOpenBarrier ==
    ASSUME BInv, NEW t \in Threads, Leave(t)
    PROVE  /\ Leaving /\ Round \in Nat /\ event = 2 * Round + 1
           /\ crossed[t] = Round
           /\ \A u \in Threads : arrived[u] = Round + 1 /\ crossed[u] \in {Round, Round + 1}
           /\ t \notin Gone /\ Gone \in SUBSET Threads /\ Cardinality(Gone) \in Nat
           /\ left = Cardinality(Gone) /\ left < count
  <1> USE DEF Leave, BInv, BarrierTypeOK
  <1>1. crossed[t] < arrived[t] /\ event # 2 * crossed[t] /\ event \in Nat
    BY DEF BarrierExact, SleepersExact, StillClosed
  <1>2. Leaving
    <2>1. SUFFICES ASSUME ~Leaving PROVE FALSE OBVIOUS
    <2>2. crossed[t] = Round BY <2>1 DEF BarrierExact, FillingExact
    <2>3. event = 2 * Round BY <1>1, <2>1, Parity DEF Round, Leaving
    <2>4. QED BY <1>1, <2>2, <2>3
  <1>3. Round \in Nat /\ event = 2 * Round + 1 BY <1>1, <1>2, Parity DEF Round, Leaving
  <1>4. /\ \A u \in Threads : arrived[u] = Round + 1 /\ crossed[u] \in {Round, Round + 1}
        /\ left = Cardinality(Gone) /\ left < count
    BY <1>2 DEF BarrierExact, EmptyingExact
  <1>5. crossed[t] = Round BY <1>1, <1>3, <1>4
  <1>6. t \notin Gone /\ Gone \in SUBSET Threads BY <1>3, <1>5 DEF Gone
  <1>7. QED BY <1>2, <1>3, <1>4, <1>5, <1>6, Counted

LEMMA LeaveStep == ASSUME BInv, NEW t \in Threads, Leave(t) PROVE BInv'
  <1> USE DEF Leave
  <1> DEFINE r == Round
  <1>1. /\ r \in Nat /\ event = 2 * r + 1 /\ event \in Nat /\ Odd(event) /\ event \div 2 = r
        /\ crossed[t] = r
        /\ \A u \in Threads : arrived[u] = r + 1 /\ crossed[u] \in {r, r + 1}
        /\ t \notin Gone /\ Gone \in SUBSET Threads /\ Cardinality(Gone) \in Nat
        /\ left = Cardinality(Gone) /\ left < count
    BY LeavesOpenBarrier DEF Leaving, BInv, BarrierTypeOK, Round
  <1>2. BarrierTypeOK' BY <1>1 DEF BInv, BarrierTypeOK
  <1>3. SleepersExact'
    BY <1>1, BarrierAssumption DEF BInv, BarrierTypeOK, BarrierExact, SleepersExact
  <1>4. count' = count /\ count = Cardinality(Threads) /\ count \in Nat /\ left' = left + 1
    BY SomeThread DEF BInv, BarrierExact
  <1>5. /\ Cardinality(Gone \cup {t}) = left + 1
        /\ left + 1 = count => Gone \cup {t} = Threads
    BY <1>1, <1>4, OneMore
  <1>6. /\ \A u \in Threads : arrived'[u] = r + 1 /\ crossed'[u] \in {r, r + 1}
        /\ \A u \in Threads : crossed'[u] = r + 1 <=> u \in Gone \cup {t}
    BY <1>1 DEF Gone, BInv, BarrierTypeOK
  <1>7. CASE left + 1 = count
    <2>1. Round' = r + 1 /\ ~Leaving' BY <1>1, <1>7, Parity DEF Round, Leaving
    <2>2. \A u \in Threads : crossed'[u] = r + 1 BY <1>5, <1>6, <1>7
    <2>3. Came' = {} BY <1>1, <1>6, <2>1 DEF Came
    <2>4. FillingExact' BY <1>1, <1>4, <1>6, <1>7, <2>1, <2>2, <2>3, NoneCounted DEF FillingExact
    <2>5. EmptyingExact' BY <2>1 DEF EmptyingExact
    <2>6. QED BY <1>1, <1>2, <1>3, <1>4, <2>4, <2>5 DEF BInv, BarrierExact
  <1>8. CASE left + 1 # count
    <2>1. Round' = r /\ Leaving' BY <1>1, <1>8, Parity DEF Round, Leaving
    <2>2. Gone' = Gone \cup {t} BY <1>1, <1>6, <2>1 DEF Gone
    <2>3. left + 1 < count BY <1>1, <1>4, <1>8
    <2>4. EmptyingExact' BY <1>1, <1>4, <1>5, <1>6, <2>1, <2>2, <2>3 DEF EmptyingExact
    <2>5. FillingExact' BY <2>1 DEF FillingExact
    <2>6. QED BY <1>1, <1>2, <1>3, <1>4, <2>4, <2>5 DEF BInv, BarrierExact
  <1>9. QED BY <1>7, <1>8

LEMMA BInvNext == BInv /\ [BarrierNext]_barrierVars => BInv'
  <1> SUFFICES ASSUME BInv, [BarrierNext]_barrierVars PROVE BInv' OBVIOUS
  <1>1. CASE UNCHANGED barrierVars
    BY <1>1 DEF barrierVars, BInv, BarrierTypeOK, BarrierExact, FillingExact, EmptyingExact,
                SleepersExact, Round, Came, Gone, Leaving
  <1>2. CASE BarrierNext
    BY <1>2, FinishStep, GatherStep, ReleaseStep, SleepAgainStep, LeaveStep, SpuriousStep,
       DestroyWaitStep, DestroyStep DEF BarrierNext, BarrierStep
  <1>3. QED BY <1>1, <1>2

LEMMA BInvAlways == BarrierSpec => []BInv
  BY BInvInit, BInvNext, PTL DEF BarrierSpec

(* Type correctness of the barrier (barrier.c): in particular left never   *)
(* becomes negative.                                                       *)
THEOREM BarrierTypeCorrect == BarrierSpec => []BarrierTypeOK
  <1>1. BInv => BarrierTypeOK BY DEF BInv
  <1>2. QED BY <1>1, BInvAlways, PTL

(* barrier_wait_unlocked(): the counter, the event number and the sleepers *)
(* agree with who has arrived and who has left, at every moment.           *)
THEOREM BarrierCountsExact == BarrierSpec => []BarrierExact
  <1>1. BInv => BarrierExact BY DEF BInv
  <1>2. QED BY <1>1, BInvAlways, PTL

-----------------------------------------------------------------------------
(* Once destroyed, the barrier does nothing any more.                      *)
LEMMA DeadIsStill ==
    ASSUME BInv, DestroySafe, [BarrierNext]_barrierVars, ~alive
    PROVE  UNCHANGED barrierVars
  <1> SUFFICES ASSUME BarrierNext PROVE FALSE BY DEF barrierVars
  <1>1. \A t \in Threads : pc[t] = "out" /\ t \notin cv BY DEF DestroySafe
  <1>2. QED BY <1>1 DEF BarrierNext, BarrierStep, Finish, Gather, Release, SleepAgain, Leave,
                       SpuriousWakeup, DestroyWait, Destroy, AtDoor

(* barrier_destroy() after the last barrier of its caller finds the        *)
(* barrier empty.                                                          *)
LEMMA DestroyFindsItEmpty == ASSUME BInv, Destroy PROVE DestroySafe'
  <1> USE DEF Destroy
  <1>1. Round \in Nat /\ Round = MaxRounds /\ \A t \in Threads : crossed[t] = MaxRounds
    BY BarrierAssumption, Parity DEF BInv, BarrierTypeOK, BarrierExact, FillingExact, Round
  <1>2. \A t \in Threads : arrived[t] = MaxRounds
    BY <1>1, BarrierAssumption
    DEF BInv, BarrierTypeOK, BarrierExact, FillingExact, SleepersExact
  <1>3. \A t \in Threads : t # Owner => pc[t] = "out" /\ t \notin cv
    BY <1>1, <1>2, BarrierAssumption DEF BInv, BarrierTypeOK, BarrierExact, SleepersExact
  <1>4. cv = {} BY <1>3 DEF BInv, BarrierTypeOK
  <1>5. Came = {} BY <1>1, <1>2 DEF Came
  <1>6. left = count
    BY <1>5, NoneCounted DEF BInv, BarrierTypeOK, BarrierExact, FillingExact
  <1>7. QED BY <1>1, <1>3, <1>4, <1>6, BarrierAssumption DEF DestroySafe, BInv, BarrierTypeOK

LEMMA DestroySafeNext ==
    BInv /\ DestroySafe /\ [BarrierNext]_barrierVars => DestroySafe'
  <1> SUFFICES ASSUME BInv, DestroySafe, [BarrierNext]_barrierVars PROVE DestroySafe' OBVIOUS
  <1>1. CASE ~alive
    <2>1. UNCHANGED barrierVars BY <1>1, DeadIsStill
    <2>2. QED BY <2>1 DEF barrierVars, DestroySafe
  <1>2. CASE alive /\ Destroy BY <1>2, DestroyFindsItEmpty
  <1>3. CASE alive /\ ~Destroy
    <2>1. alive'
      BY <1>3 DEF BarrierNext, BarrierStep, barrierVars, Finish, Gather, Release, SleepAgain,
                  Leave, SpuriousWakeup, DestroyWait
    <2>2. QED BY <2>1 DEF DestroySafe
  <1>4. QED BY <1>1, <1>2, <1>3

(* barrier_destroy() (barrier.c:38-63): when it returns, no thread is in   *)
(* barrier_wait() or asleep, and its assertion holds.                      *)
THEOREM BarrierDestroyedEmpty == BarrierSpec => []DestroySafe
  <1>1. BarrierInit => DestroySafe BY DEF BarrierInit, DestroySafe
  <1>2. QED BY <1>1, DestroySafeNext, BInvAlways, PTL DEF BarrierSpec

-----------------------------------------------------------------------------
(* A thread that falls asleep in the barrier is not the last.              *)
LEMMA GatherIsArrive == ASSUME BInv, NEW t \in Threads, Gather(t) PROVE Abs!AbsArrive(t)
  <1> USE DEF Gather
  <1>1. /\ Round \in Nat /\ arrived[t] = Round /\ crossed[t] = Round /\ arrived[t] < MaxRounds
        /\ t \notin Came /\ Came \in SUBSET Threads /\ Cardinality(Came) \in Nat
    BY AtDoorNotCounted
  <1>2. left + Cardinality(Came) = Cardinality(Threads) /\ left > 1 /\ left \in Nat
    BY DEF BInv, BarrierTypeOK, BarrierExact, FillingExact
  <1>3. \E u \in Threads \ {t} : arrived[u] <= arrived[t]
    <2>1. SUFFICES ASSUME \A u \in Threads \ {t} : ~(arrived[u] <= arrived[t]) PROVE FALSE
      OBVIOUS
    <2>2. \A u \in Threads \ {t} : arrived[u] = Round + 1
      BY <1>1, <2>1 DEF BInv, BarrierTypeOK, BarrierExact, FillingExact
    <2>3. Came \cup {t} = Threads BY <1>1, <2>2 DEF Came
    <2>4. Cardinality(Threads) = Cardinality(Came) + 1 BY <1>1, <2>3, OneMore
    <2>5. QED BY <1>1, <1>2, <2>4
  <1>4. QED BY <1>1, <1>3 DEF Abs!AbsArrive

LEMMA ReleaseIsArriveLast ==
    ASSUME BInv, NEW t \in Threads, Release(t) PROVE Abs!AbsArriveLast(t)
  <1>1. /\ Round \in Nat /\ arrived[t] = Round /\ crossed[t] = Round /\ arrived[t] < MaxRounds
        /\ \A u \in Threads : u # t => arrived[u] = Round + 1
    BY LastArrives
  <1>2. QED BY <1>1 DEF Release, Abs!AbsArriveLast

LEMMA LeaveIsCross == ASSUME BInv, NEW t \in Threads, Leave(t) PROVE Abs!AbsCross(t)
  <1>1. /\ Round \in Nat /\ crossed[t] = Round
        /\ \A u \in Threads : arrived[u] = Round + 1
    BY LeavesOpenBarrier
  <1>2. QED BY <1>1 DEF Leave, Abs!AbsCross

LEMMA StepIsAbstract ==
    BInv /\ [BarrierNext]_barrierVars => [Abs!AbsNext]_(Abs!absVars)
  <1> SUFFICES ASSUME BInv, [BarrierNext]_barrierVars PROVE [Abs!AbsNext]_(Abs!absVars)
    OBVIOUS
  <1>1. ASSUME NEW t \in Threads, Gather(t) \/ Release(t) \/ Leave(t) PROVE Abs!AbsNext
    BY <1>1, GatherIsArrive, ReleaseIsArriveLast, LeaveIsCross DEF Abs!AbsNext
  <1>2. ASSUME NEW t \in Threads, Finish(t) \/ SleepAgain(t) \/ SpuriousWakeup(t)
        PROVE  UNCHANGED Abs!absVars
    BY <1>2 DEF Finish, SleepAgain, SpuriousWakeup, Abs!absVars
  <1>3. CASE DestroyWait \/ Destroy \/ UNCHANGED barrierVars
    BY <1>3 DEF DestroyWait, Destroy, barrierVars, Abs!absVars
  <1>4. QED BY <1>1, <1>2, <1>3 DEF BarrierNext, BarrierStep

(* Refinement: for every group of threads and every number of barriers,    *)
(* barrier_wait() of barrier.c lets a thread return only when every thread *)
(* has reached the same barrier.                                           *)
THEOREM BarrierRefinesAbstract == BarrierSpec => BarrierImplementsAbstract
  <1>1. BarrierInit => Abs!AbsInit BY DEF BarrierInit, Abs!AbsInit
  <1>2. QED BY <1>1, StepIsAbstract, BInvAlways, PTL
            DEF BarrierSpec, BarrierImplementsAbstract, Abs!AbsSpec

-----------------------------------------------------------------------------
(***************************************************************************)
(* The collectives.  All threads make the same calls and each call crosses *)
(* the same barriers, so threads that have crossed as many barriers are at *)
(* the same place of the same call (InStep); no counting over the calls is *)
(* needed.  serialize_threads() separates the last copy from utility_ptr   *)
(* from the first change of the area behind it: nobody is past it while a  *)
(* thread is still to copy.                                                *)
(***************************************************************************)
(* t is inside barrier_wait(), past in().                                  *)
Waits(t) == crossed[t] < arrived[t]

(* Whose data pi_thread_bcast() spreads.                                   *)
DataRoot(t) == IF Kind(t) = "bcast" THEN Root ELSE Leader

(* The contributions of a set of threads to the n-th call.                 *)
From(n, S) == {<<n, u>> : u \in S}

(* What t has behind it at the last barrier it crossed: the call, and      *)
(* whether that was the first half of a reduction.                         *)
Half(t) == stage[t] \in {"reduced", "mpi", "bcast"} /\ Kind(t) = "allreduce"
Past(t) == IF stage[t] \in {"user", "copied"} \/ Half(t) THEN call[t] ELSE call[t] - 1

(* How many times t will have been through serialize_threads() when it     *)
(* comes to the next barrier.                                              *)
Serialized(t) == IF stage[t] \in {"reduced", "copied"} THEN scrossed[t] + 1 ELSE scrossed[t]

(* A thread is at a stage of the call it makes.                            *)
StagesInv ==
    /\ call \in [Threads -> Nat]
    /\ stage \in [Threads -> {"user", "reduce", "reduced", "mpi", "bcast", "copied", "bare"}]
    /\ DOMAIN buf = Threads
    /\ \A t \in Threads :
        /\ call[t] <= Len(Calls)
        /\ stage[t] # "user" => call[t] > 0
        /\ stage[t] \in {"reduce", "reduced"} => Kind(t) = "allreduce"
        /\ stage[t] \in {"mpi", "bcast", "copied"} => Kind(t) \in {"allreduce", "bcast"}
        /\ stage[t] = "bare" => Kind(t) = "wait"
        /\ Waits(t) => stage[t] \in {"reduce", "bcast", "bare"}

(* The barrier of serialize_threads().                                     *)
SerialInv ==
    /\ sarrived \in [Threads -> Nat] /\ scrossed \in [Threads -> Nat]
    /\ \A t \in Threads :
        /\ sarrived[t] \in {scrossed[t], scrossed[t] + 1}
        /\ sarrived[t] # scrossed[t] => stage[t] \in {"reduced", "copied"}
        /\ \A u \in Threads : scrossed[t] <= sarrived[u]

(* Threads that have crossed as many barriers have the same behind them;   *)
(* one that is ahead has behind it what the other is waiting for.          *)
InStep ==
    \A t, u \in Threads :
        /\ crossed[t] = crossed[u] =>
               Past(t) = Past(u) /\ (Half(t) <=> Half(u)) /\ Serialized(t) = Serialized(u)
        /\ crossed[t] = crossed[u] + 1 =>
               /\ Past(t) = call[u]
               /\ Half(t) <=> stage[u] = "reduce"
               /\ Serialized(t) = (IF stage[u] = "bare" THEN scrossed[u] ELSE scrossed[u] + 1)

(* What the data area of a thread holds at each stage.                     *)
BufInv ==
    \A t \in Threads :
        /\ stage[t] \in {"user", "copied"} /\ call[t] > 0 => buf[t] = Expected(call[t], t)
        /\ stage[t] = "reduced" => buf[t] = From(call[t], Threads)
        /\ stage[t] \in {"mpi", "bcast"} /\ Kind(t) = "allreduce" =>
               buf[t] = From(call[t], Threads)
                          \cup (IF stage[t] = "bcast" /\ t = Leader THEN From(call[t], {MPI}) ELSE {})
        /\ \/ stage[t] \in {"mpi", "bcast"} /\ Kind(t) = "bcast"
           \/ stage[t] = "bare"
           \/ stage[t] = "reduce" /\ ~Waits(t)
           => buf[t] = From(call[t], {t})

(* utility_ptr while the barrier fills: the partial reduction of those who *)
(* have come, or the area of the root once it has come.                    *)
FillingUtil ==
    ~Leaving => \A t \in Threads : Waits(t) =>
        /\ stage[t] = "reduce" => util \in Came /\ buf[util] = From(call[t], Came)
        /\ stage[t] = "bcast" /\ t = DataRoot(t) => util = t

(* utility_ptr while it empties: what those still inside are to copy.      *)
EmptyingUtil ==
    Leaving => \A t \in Threads : Waits(t) =>
        /\ stage[t] = "reduce" => util \in Threads /\ buf[util] = From(call[t], Threads)
        /\ stage[t] = "bcast" => util \in Threads /\ buf[util] = Expected(call[t], t)

CInv == BInv /\ StagesInv /\ SerialInv /\ InStep /\ BufInv /\ FillingUtil /\ EmptyingUtil

(* A step of a collective is a step of its barrier, or leaves it alone.    *)
LEMMA PiStepIsBarrierStep == [Next]_vars => [BarrierNext]_barrierVars
  <1> SUFFICES ASSUME [Next]_vars PROVE [BarrierNext]_barrierVars OBVIOUS
  <1>1. CASE UNCHANGED vars BY <1>1 DEF vars
  <1>2. CASE Clear BY <1>2 DEF Clear, BarrierNext
  <1>3. ASSUME NEW t \in Threads, Spurious(t) PROVE BarrierNext
    BY <1>3 DEF Spurious, BarrierNext
  <1>4. ASSUME NEW t \in Threads, ThreadStep(t) PROVE [BarrierNext]_barrierVars
    <2>1. BarrierStep(t) \/ UNCHANGED barrierVars
      BY <1>4 DEF ThreadStep, BarrierStep, Begin, MpiInner, Serialize, BareWait, Doze,
                  ReduceGather, ReduceRelease, ReduceLeave, BcastGather, BcastRelease, BcastLeave
    <2>2. QED BY <2>1 DEF BarrierNext
  <1>5. QED BY <1>1, <1>2, <1>3, <1>4 DEF Next

(* Where the barrier stands, seen from a pair of threads.                  *)
LEMMA BarrierShape ==
    ASSUME BInv
    PROVE  /\ Round \in Nat
           /\ arrived \in [Threads -> Nat] /\ crossed \in [Threads -> Nat]
           /\ ~Leaving => /\ \A t \in Threads : crossed[t] = Round
                          /\ Came = {t \in Threads : Waits(t)}
           /\ Leaving => \A t \in Threads : /\ crossed[t] \in {Round, Round + 1}
                                            /\ Waits(t) <=> crossed[t] = Round
           /\ \A t, u \in Threads : crossed[t] = crossed[u] + 1 => Leaving /\ Waits(u)
  <1> USE DEF BInv, BarrierTypeOK
  <1>1. Round \in Nat BY Parity DEF Round
  <1>2. ASSUME ~Leaving
        PROVE /\ \A t \in Threads : crossed[t] = Round
              /\ Came = {t \in Threads : Waits(t)}
    BY <1>1, <1>2 DEF BarrierExact, FillingExact, Came, Waits
  <1>3. ASSUME Leaving
        PROVE \A t \in Threads : /\ crossed[t] \in {Round, Round + 1}
                                 /\ Waits(t) <=> crossed[t] = Round
    BY <1>1, <1>3 DEF BarrierExact, EmptyingExact, Waits
  <1>4. ASSUME NEW t \in Threads, NEW u \in Threads, crossed[t] = crossed[u] + 1
        PROVE  Leaving /\ Waits(u)
    <2>1. Leaving BY <1>1, <1>2, <1>4
    <2>2. QED BY <1>1, <1>3, <1>4, <2>1
  <1>5. QED BY <1>1, <1>2, <1>3, <1>4

(* Two threads that are about to cross the same barrier are in the same    *)
(* call and at the same stage of it.                                       *)
LEMMA SameDoor ==
    ASSUME CInv, NEW t \in Threads, NEW u \in Threads, crossed[t] = crossed[u],
           stage[t] \in {"reduce", "bcast", "bare"}, stage[u] \in {"reduce", "bcast", "bare"}
    PROVE  call[t] = call[u] /\ stage[t] = stage[u] /\ Kind(t) = Kind(u)
  <1>1. Past(t) = Past(u) /\ (Half(t) <=> Half(u)) BY DEF CInv, InStep
  <1>2. call[t] \in Nat /\ call[u] \in Nat /\ call[t] > 0 /\ call[u] > 0
    BY DEF CInv, StagesInv
  <1>3. call[t] = call[u] BY <1>1, <1>2 DEF Past
  <1>4. Kind(t) = Kind(u) BY <1>3 DEF Kind
  <1>5. stage[t] = stage[u] BY <1>1, <1>4 DEF Half, CInv, StagesInv
  <1>6. QED BY <1>3, <1>4, <1>5

(* While a thread is still to copy, those that have crossed the barrier    *)
(* are held by serialize_threads().                                        *)
LEMMA AheadIsHeld ==
    ASSUME CInv, NEW t \in Threads, NEW u \in Threads, crossed[t] = crossed[u] + 1,
           stage[u] \in {"reduce", "bcast"}
    PROVE  stage[t] \in {"reduced", "copied"} /\ call[t] = call[u]
  <1>1. Past(t) = call[u] /\ Serialized(t) = scrossed[u] + 1 BY DEF CInv, InStep
  <1>2. sarrived[u] = scrossed[u] /\ scrossed[t] <= sarrived[u]
        /\ scrossed[t] \in Nat /\ scrossed[u] \in Nat
    BY DEF CInv, SerialInv
  <1>3. stage[t] \in {"reduced", "copied"} BY <1>1, <1>2 DEF Serialized
  <1>4. QED BY <1>1, <1>3 DEF Past, Half, CInv, StagesInv

LEMMA CInvInit == Init => CInv
  <1> SUFFICES ASSUME Init PROVE CInv OBVIOUS
  <1> USE DEF Init, BarrierInit, Ser!AbsInit
  <1>1. BInv BY BInvInit
  <1>2. \A t \in Threads : ~Waits(t) /\ ~Half(t) /\ Past(t) = 0 /\ Serialized(t) = 0
    BY DEF Waits, Half, Past, Serialized
  <1>3. Len(Calls) \in Nat BY CallsAssumption
  <1>4. StagesInv BY <1>2, <1>3 DEF StagesInv
  <1>5. SerialInv BY DEF SerialInv
  <1>6. InStep BY <1>2 DEF InStep
  <1>7. BufInv BY DEF BufInv
  <1>8. FillingUtil /\ EmptyingUtil BY <1>2 DEF FillingUtil, EmptyingUtil
  <1>9. QED BY <1>1, <1>4, <1>5, <1>6, <1>7, <1>8 DEF CInv

(* Threads that only move between the mutex and the condition.             *)
LEMMA QuietCollective ==
    ASSUME CInv, BInv', UNCHANGED <<left, count, event, arrived, crossed>>,
           UNCHANGED <<collVars, serVars>>
    PROVE  CInv'
  <1> USE DEF collVars, serVars, CInv, Waits, Kind
  <1>1. StagesInv' BY DEF StagesInv
  <1>2. SerialInv' BY DEF SerialInv
  <1>3. InStep' BY DEF InStep, Past, Half, Serialized
  <1>4. BufInv' BY DEF BufInv
  <1>5. FillingUtil' BY DEF FillingUtil, Leaving, Came, Round, DataRoot
  <1>6. EmptyingUtil' BY DEF EmptyingUtil, Leaving
  <1>7. QED BY <1>1, <1>2, <1>3, <1>4, <1>5, <1>6

(* A thread outside the barrier that keeps what it has behind it stays in  *)
(* step with the others.                                                   *)
LEMMA KeepsStep ==
    ASSUME CInv, NEW t \in Threads, ~Waits(t), UNCHANGED crossed,
           Past(t)' = Past(t), Half(t)' <=> Half(t), Serialized(t)' = Serialized(t),
           \A u \in Threads \ {t} : /\ stage'[u] = stage[u] /\ call'[u] = call[u]
                                    /\ scrossed'[u] = scrossed[u]
    PROVE  InStep'
  <1>1. \A u \in Threads : Past(u)' = Past(u) /\ (Half(u)' <=> Half(u)) /\ Serialized(u)' = Serialized(u)
    BY DEF Past, Half, Serialized, Kind
  <1>2. \A w, u \in Threads : crossed[w] = crossed[u] + 1 => u # t BY BarrierShape DEF CInv
  <1>3. QED BY <1>1, <1>2 DEF InStep, CInv

(* A thread outside the barrier does not touch the area behind utility_ptr *)
(* as long as it matters.                                                  *)
LEMMA KeepsUtil ==
    ASSUME CInv, NEW t \in Threads, ~Waits(t), UNCHANGED barrierVars, UNCHANGED util,
           buf'[t] = buf[t] \/ stage[t] \notin {"reduced", "copied"},
           \A u \in Threads \ {t} : stage'[u] = stage[u] /\ call'[u] = call[u] /\ buf'[u] = buf[u]
    PROVE  FillingUtil' /\ EmptyingUtil'
  <1>0. UNCHANGED <<Leaving, Came>> /\ \A u \in Threads : Waits(u)' = Waits(u)
    BY DEF barrierVars, Leaving, Came, Round, Waits
  <1>1. \A u \in Threads \ {t} : /\ Kind(u)' = Kind(u) /\ DataRoot(u)' = DataRoot(u)
                                 /\ Expected(call[u], u)' = Expected(call[u], u)
    BY DEF Kind, DataRoot
  <1>2. FillingUtil'
    <2>1. SUFFICES ASSUME ~Leaving, NEW u \in Threads, Waits(u), u # t
                   PROVE  /\ stage[u] = "reduce" => util \in Came /\ buf'[util] = From(call[u], Came)
                          /\ stage[u] = "bcast" /\ u = DataRoot(u) => util = u
      BY <1>0, <1>1 DEF FillingUtil
    <2>2. Came = {w \in Threads : Waits(w)} BY <2>1, BarrierShape DEF CInv
    <2>3. QED BY <2>1, <2>2 DEF CInv, FillingUtil
  <1>3. EmptyingUtil'
    <2>1. SUFFICES ASSUME Leaving, NEW u \in Threads, Waits(u), u # t, stage[u] \in {"reduce", "bcast"}
                   PROVE  util \in Threads /\ buf'[util] = buf[util]
      BY <1>0, <1>1 DEF EmptyingUtil, CInv
    <2>2. crossed[t] = crossed[u] + 1 BY <2>1, BarrierShape DEF CInv
    <2>3. buf'[t] = buf[t] BY <2>1, <2>2, AheadIsHeld
    <2>4. QED BY <2>1, <2>3 DEF CInv, EmptyingUtil
  <1>4. QED BY <1>2, <1>3

LEMMA BeginStep == ASSUME CInv, BInv', NEW t \in Threads, Begin(t) PROVE CInv'
  <1> USE DEF Begin, To
  <1>1. /\ call[t] \in Nat /\ ~Waits(t) /\ DOMAIN buf = Threads /\ sarrived[t] = scrossed[t]
        /\ stage[t] = "user" /\ call[t] < Len(Calls)
    BY DEF CInv, StagesInv, SerialInv
  <1>2. Len(Calls) \in Nat /\ Calls[call[t] + 1] \in {"allreduce", "bcast", "wait"}
    BY <1>1, CallsAssumption
  <1>3. /\ call' \in [Threads -> Nat] /\ call'[t] = call[t] + 1 /\ Kind(t)' = Calls[call[t] + 1]
        /\ stage'[t] = FirstStage(Calls[call[t] + 1]) /\ buf'[t] = From(call[t] + 1, {t})
        /\ DOMAIN buf' = Threads /\ DOMAIN stage' = Threads
        /\ \A u \in Threads \ {t} : stage'[u] = stage[u] /\ call'[u] = call[u] /\ buf'[u] = buf[u]
    BY <1>1 DEF CInv, StagesInv, Kind, From
  <1>4. \/ Kind(t)' = "allreduce" /\ stage'[t] = "reduce"
        \/ Kind(t)' = "bcast" /\ stage'[t] = "mpi"
        \/ Kind(t)' = "wait" /\ stage'[t] = "bare"
    BY <1>2, <1>3 DEF FirstStage
  <1>5. UNCHANGED <<arrived, crossed>> /\ \A u \in Threads : Waits(u)' = Waits(u)
    BY DEF barrierVars, Waits
  <1>6. \A u \in Threads \ {t} : Kind(u)' = Kind(u) /\ Expected(call[u], u)' = Expected(call[u], u)
    BY <1>3 DEF Kind
  <1>7. StagesInv'
    <2>1. stage' \in [Threads -> {"user", "reduce", "reduced", "mpi", "bcast", "copied", "bare"}]
      BY <1>3, <1>4 DEF CInv, StagesInv
    <2>2. QED BY <1>1, <1>2, <1>3, <1>4, <1>5, <1>6, <2>1 DEF CInv, StagesInv
  <1>8. SerialInv' BY <1>1, <1>3 DEF CInv, SerialInv, serVars
  <1>9. InStep'
    <2>1. Past(t) = call[t] /\ ~Half(t) /\ Serialized(t) = scrossed[t] BY <1>1 DEF Past, Half, Serialized
    <2>2. ~Half(t)' BY <1>4 DEF Half
    <2>3. Past(t)' = call[t] BY <1>1, <1>3, <1>4, <2>2 DEF Past
    <2>4. Serialized(t)' = scrossed[t] BY <1>4 DEF Serialized, serVars
    <2>5. \A u \in Threads \ {t} : scrossed'[u] = scrossed[u] BY DEF serVars
    <2>6. QED BY <1>1, <1>3, <1>5, <2>1, <2>2, <2>3, <2>4, <2>5, KeepsStep
  <1>10. BufInv'
    BY <1>1, <1>3, <1>4, <1>5, <1>6 DEF CInv, BufInv, From
  <1>11. FillingUtil' /\ EmptyingUtil' BY <1>1, <1>3, KeepsUtil
  <1>12. QED BY <1>7, <1>8, <1>9, <1>10, <1>11 DEF CInv

LEMMA MpiInnerStep == ASSUME CInv, BInv', NEW t \in Threads, MpiInner(t) PROVE CInv'
  <1> USE DEF MpiInner, To
  <1>1. /\ call[t] \in Nat /\ ~Waits(t) /\ DOMAIN buf = Threads /\ sarrived[t] = scrossed[t]
        /\ stage[t] = "mpi" /\ call[t] > 0 /\ Kind(t) \in {"allreduce", "bcast"}
    BY DEF CInv, StagesInv, SerialInv
  <1>3. /\ stage'[t] = "bcast" /\ call' = call /\ DOMAIN buf' = Threads
        /\ buf'[t] = IF Kind(t) = "allreduce" /\ t = Leader
                        THEN buf[t] \cup From(call[t], {MPI}) ELSE buf[t]
        /\ \A u \in Threads \ {t} : stage'[u] = stage[u] /\ call'[u] = call[u] /\ buf'[u] = buf[u]
    BY <1>1 DEF CInv, StagesInv, From
  <1>5. UNCHANGED <<arrived, crossed>> /\ \A u \in Threads : Waits(u)' = Waits(u)
    BY DEF barrierVars, Waits
  <1>6. \A u \in Threads : Kind(u)' = Kind(u) /\ Expected(call[u], u)' = Expected(call[u], u)
    BY <1>3 DEF Kind
  <1>7. StagesInv' BY <1>1, <1>3, <1>5, <1>6 DEF CInv, StagesInv
  <1>8. SerialInv' BY <1>1, <1>3 DEF CInv, SerialInv, serVars
  <1>9. InStep'
    <2>1. Half(t)' <=> Half(t) BY <1>1, <1>3, <1>6 DEF Half
    <2>2. Past(t)' = Past(t) BY <1>1, <1>3, <2>1 DEF Past
    <2>3. Serialized(t)' = Serialized(t) BY <1>1, <1>3 DEF Serialized, serVars
    <2>4. \A u \in Threads \ {t} : scrossed'[u] = scrossed[u] BY DEF serVars
    <2>5. QED BY <1>1, <1>3, <1>5, <2>1, <2>2, <2>3, <2>4, KeepsStep
  <1>10. BufInv'
    <2>1. ASSUME NEW u \in Threads, u # t
          PROVE  stage'[u] = stage[u] /\ call'[u] = call[u] /\ buf'[u] = buf[u] /\ Kind(u)' = Kind(u)
      BY <1>3, <1>6, <2>1
    <2>2. Kind(t) = "allreduce" => buf[t] = From(call[t], Threads) BY <1>1 DEF CInv, BufInv
    <2>3. Kind(t) = "bcast" => buf[t] = From(call[t], {t}) BY <1>1 DEF CInv, BufInv
    <2>4. Kind(t) = "allreduce" =>
            buf'[t] = From(call[t], Threads) \cup (IF t = Leader THEN From(call[t], {MPI}) ELSE {})
      BY <1>3, <2>2
    <2>5. Kind(t) = "bcast" => buf'[t] = From(call[t], {t}) BY <1>3, <2>3
    <2>6. QED BY <1>1, <1>3, <1>5, <1>6, <2>1, <2>4, <2>5 DEF CInv, BufInv
  <1>11. FillingUtil' /\ EmptyingUtil' BY <1>1, <1>3, KeepsUtil
  <1>12. QED BY <1>7, <1>8, <1>9, <1>10, <1>11 DEF CInv

LEMMA SerializeStep == ASSUME CInv, BInv', NEW t \in Threads, Serialize(t) PROVE CInv'
  <1> USE DEF Serialize, To
  <1>1. /\ call[t] \in Nat /\ ~Waits(t) /\ DOMAIN buf = Threads
        /\ stage[t] \in {"reduced", "copied"} /\ call[t] > 0
        /\ stage[t] = "reduced" => Kind(t) = "allreduce"
    BY DEF CInv, StagesInv
  <1>2. /\ \A u \in Threads \ {t} : stage'[u] = stage[u] /\ scrossed'[u] = scrossed[u]
                                    /\ sarrived'[u] = sarrived[u]
        /\ sarrived' \in [Threads -> Nat] /\ scrossed' \in [Threads -> Nat]
        /\ \/ stage' = stage /\ scrossed' = scrossed /\ sarrived[t] = scrossed[t]
              /\ sarrived'[t] = sarrived[t] + 1
           \/ stage' = [stage EXCEPT ![t] = AfterSerialize(stage[t])]
              /\ scrossed'[t] = scrossed[t] + 1 /\ sarrived'[t] = scrossed[t] + 1
    <2>1. /\ sarrived \in [Threads -> Nat] /\ scrossed \in [Threads -> Nat] /\ DOMAIN stage = Threads
          /\ sarrived[t] \in {scrossed[t], scrossed[t] + 1}
      BY DEF CInv, StagesInv, SerialInv
    <2>2. CASE Ser!AbsArrive(t) /\ UNCHANGED stage BY <2>1, <2>2 DEF Ser!AbsArrive
    <2>3. CASE Ser!AbsArriveLast(t) /\ To(t, AfterSerialize(stage[t]))
      BY <2>1, <2>3 DEF Ser!AbsArriveLast
    <2>4. CASE Ser!AbsCross(t) /\ To(t, AfterSerialize(stage[t]))
      BY <2>1, <2>4 DEF Ser!AbsCross
    <2>5. QED BY <2>2, <2>3, <2>4
  <1>4. \A u \in Threads : scrossed'[t] <= sarrived'[u]
    BY <1>2 DEF CInv, SerialInv, Ser!AbsArrive, Ser!AbsArriveLast, Ser!AbsCross
  <1>5. /\ UNCHANGED <<arrived, crossed>> /\ \A u \in Threads : Waits(u)' = Waits(u)
        /\ UNCHANGED <<buf, call, util>>
    BY DEF barrierVars, Waits
  <1>6. \A u \in Threads : Kind(u)' = Kind(u) /\ Expected(call[u], u)' = Expected(call[u], u)
    BY <1>5 DEF Kind
  <1>7. CASE stage' = stage
    <2>1. StagesInv' BY <1>5, <1>6, <1>7 DEF CInv, StagesInv
    <2>2. scrossed' = scrossed /\ sarrived[t] = scrossed[t] /\ sarrived'[t] = sarrived[t] + 1
      BY <1>1, <1>2, <1>7 DEF CInv, StagesInv, AfterSerialize
    <2>3. SerialInv' BY <1>1, <1>2, <1>4, <1>7, <2>2 DEF CInv, SerialInv
    <2>4. InStep'
      BY <1>5, <1>6, <1>7, <2>2 DEF CInv, InStep, Past, Half, Serialized
    <2>5. BufInv' BY <1>5, <1>6, <1>7 DEF CInv, BufInv
    <2>6. FillingUtil' /\ EmptyingUtil' BY <1>1, <1>5, <1>7, KeepsUtil
    <2>7. QED BY <2>1, <2>3, <2>4, <2>5, <2>6 DEF CInv
  <1>8. CASE stage' # stage
    <2>1. /\ \/ stage[t] = "reduced" /\ stage'[t] = "mpi"
             \/ stage[t] = "copied" /\ stage'[t] = "user"
          /\ stage' \in [Threads -> {"user", "reduce", "reduced", "mpi", "bcast", "copied", "bare"}]
          /\ scrossed'[t] = scrossed[t] + 1 /\ sarrived'[t] = scrossed[t] + 1
      BY <1>1, <1>2, <1>8 DEF CInv, StagesInv, AfterSerialize
    <2>2. StagesInv' BY <1>1, <1>2, <1>5, <1>6, <2>1 DEF CInv, StagesInv
    <2>3. SerialInv' BY <1>2, <1>4, <2>1 DEF CInv, SerialInv
    <2>4. InStep'
      <3>1. Half(t)' <=> Half(t) BY <1>1, <1>6, <2>1 DEF Half
      <3>2. Past(t)' = Past(t) BY <1>1, <1>5, <2>1, <3>1 DEF Past
      <3>3. Serialized(t)' = Serialized(t) BY <2>1 DEF Serialized, CInv, SerialInv
      <3>4. QED BY <1>1, <1>2, <1>5, <3>1, <3>2, <3>3, KeepsStep
    <2>5. BufInv'
      <3>1. stage[t] = "reduced" => buf[t] = From(call[t], Threads) BY DEF CInv, BufInv
      <3>2. stage[t] = "copied" => buf[t] = Expected(call[t], t) BY <1>1 DEF CInv, BufInv
      <3>3. QED BY <1>1, <1>2, <1>5, <1>6, <2>1, <3>1, <3>2 DEF CInv, BufInv
    <2>6. FillingUtil' /\ EmptyingUtil' BY <1>1, <1>2, <1>5, KeepsUtil
    <2>7. QED BY <2>2, <2>3, <2>4, <2>5, <2>6 DEF CInv
  <1>9. QED BY <1>7, <1>8

(* What every barrier_wait() of a thread that is not the last does to the  *)
(* invariant: only utility_ptr and the data areas are left to look at.     *)
LEMMA GatherKeeps ==
    ASSUME CInv, BInv', NEW t \in Threads, Gather(t), stage[t] \in {"reduce", "bcast", "bare"},
           UNCHANGED <<serVars, stage, call>>, DOMAIN buf' = Threads
    PROVE  /\ StagesInv' /\ SerialInv' /\ InStep' /\ EmptyingUtil'
           /\ ~Leaving /\ ~Waits(t) /\ Waits(t)' /\ t \notin Came /\ Came' = Came \cup {t}
           /\ Came = {u \in Threads : Waits(u)}
           /\ \A u \in Threads : crossed[u] = crossed[t]
           /\ \A u \in Threads \ {t} : Waits(u)' <=> Waits(u)
           /\ \A u \in Threads : Kind(u)' = Kind(u)
           /\ left + Cardinality(Came) = Cardinality(Threads)
           /\ left \in Nat /\ Cardinality(Came) \in Nat
  <1> USE DEF Gather
  <1>1. /\ ~Leaving /\ arrived[t] = Round /\ crossed[t] = Round /\ Round \in Nat
        /\ t \notin Came /\ Came \in SUBSET Threads /\ Cardinality(Came) \in Nat
    BY AtDoorNotCounted DEF CInv
  <1>2. /\ arrived \in [Threads -> Nat] /\ Came = {u \in Threads : Waits(u)}
        /\ \A u \in Threads : crossed[u] = Round
    BY <1>1, BarrierShape DEF CInv
  <1>3. ~Waits(t) /\ Waits(t)' /\ \A u \in Threads \ {t} : Waits(u)' <=> Waits(u)
    BY <1>1, <1>2 DEF Waits
  <1>4. Came' = Came \cup {t} BY <1>1, <1>2 DEF Came, Round
  <1>5. \A u \in Threads : Kind(u)' = Kind(u) BY DEF Kind
  <1>6. StagesInv' BY <1>3, <1>5 DEF CInv, StagesInv
  <1>7. SerialInv' BY DEF CInv, SerialInv, serVars
  <1>8. InStep' BY <1>5 DEF CInv, InStep, Past, Half, Serialized, serVars
  <1>9. EmptyingUtil' BY <1>1 DEF EmptyingUtil, Leaving
  <1>10. left \in Nat /\ left + Cardinality(Came) = Cardinality(Threads)
    BY <1>1 DEF CInv, BInv, BarrierTypeOK, BarrierExact, FillingExact
  <1>11. QED BY <1>1, <1>2, <1>3, <1>4, <1>5, <1>6, <1>7, <1>8, <1>9, <1>10

(* in() of the reduction: the area of the thread that comes holds what all *)
(* who have come brought.                                                  *)
LEMMA ReducesAll ==
    ASSUME CInv, NEW t \in Threads, stage[t] = "reduce", ~Waits(t), ~Leaving, t \notin Came,
           left \in Nat, Cardinality(Came) \in Nat,
           left + Cardinality(Came) = Cardinality(Threads)
    PROVE  /\ DOMAIN AllreduceIn(t, left - 1) = Threads
           /\ AllreduceIn(t, left - 1)[t] = From(call[t], Came \cup {t})
           /\ \A u \in Threads \ {t} : AllreduceIn(t, left - 1)[u] = buf[u]
  <1>1. DOMAIN buf = Threads /\ buf[t] = From(call[t], {t}) BY DEF CInv, StagesInv, BufInv
  <1>2. Came \in SUBSET Threads BY DEF Came
  <1>3. Cardinality(Threads) \in Nat BY SomeThread
  <1>4. CASE Came = {}
    <2>1. ~(left - 1 < Cardinality(Threads) - 1) BY <1>3, <1>4, NoneCounted
    <2>2. AllreduceIn(t, left - 1) = buf BY <2>1 DEF AllreduceIn
    <2>3. Came \cup {t} = {t} BY <1>4
    <2>4. QED BY <1>1, <2>2, <2>3
  <1>5. CASE Came # {}
    <2>1. PICK w \in Came : TRUE BY <1>5
    <2>2. Cardinality(Came) # 0 BY <1>2, <1>5, Counted, FS_EmptySet
    <2>3. left - 1 < Cardinality(Threads) - 1 BY <1>3, <2>2
    <2>4. AllreduceIn(t, left - 1) = [buf EXCEPT ![t] = @ \cup buf[util]]
      BY <2>3 DEF AllreduceIn
    <2>5. Waits(w) /\ crossed[w] = crossed[t] BY <2>1, BarrierShape DEF CInv, Came
    <2>6. stage[w] \in {"reduce", "bcast", "bare"} BY <2>5 DEF CInv, StagesInv, Came
    <2>7. call[w] = call[t] /\ stage[w] = "reduce" BY <2>1, <2>5, <2>6, SameDoor DEF Came
    <2>8. buf[util] = From(call[t], Came) BY <2>1, <2>5, <2>7 DEF CInv, FillingUtil, Came
    <2>9. From(call[t], {t}) \cup From(call[t], Came) = From(call[t], Came \cup {t})
      BY DEF From
    <2>10. QED BY <1>1, <2>4, <2>8, <2>9
  <1>6. QED BY <1>4, <1>5

LEMMA ReduceGatherStep == ASSUME CInv, BInv', NEW t \in Threads, ReduceGather(t) PROVE CInv'
  <1> USE DEF ReduceGather
  <1>1. DOMAIN buf' = Threads BY DEF AllreduceIn, CInv, StagesInv
  <1>2. /\ StagesInv' /\ SerialInv' /\ InStep' /\ EmptyingUtil'
        /\ ~Leaving /\ ~Waits(t) /\ Waits(t)' /\ t \notin Came /\ Came' = Came \cup {t}
        /\ Came = {u \in Threads : Waits(u)}
        /\ \A u \in Threads : crossed[u] = crossed[t]
        /\ \A u \in Threads \ {t} : Waits(u)' <=> Waits(u)
        /\ \A u \in Threads : Kind(u)' = Kind(u)
        /\ left + Cardinality(Came) = Cardinality(Threads)
        /\ left \in Nat /\ Cardinality(Came) \in Nat
    BY <1>1, GatherKeeps
  <1>3. buf'[t] = From(call[t], Came') /\ \A u \in Threads \ {t} : buf'[u] = buf[u]
    BY <1>2, ReducesAll
  <1>4. \A u \in Threads : Expected(call[u], u)' = Expected(call[u], u) OBVIOUS
  <1>5. BufInv' BY <1>2, <1>3, <1>4, ZenonT(30) DEF CInv, BufInv
  <1>6. FillingUtil'
    <2>1. ASSUME NEW u \in Threads, Waits(u)' PROVE stage[u] = "reduce" /\ call[u] = call[t]
      BY <1>2, <2>1, SameDoor DEF CInv, StagesInv
    <2>2. util' \in Came' BY <1>2
    <2>3. QED BY <1>3, <2>1, <2>2 DEF FillingUtil
  <1>7. QED BY <1>2, <1>5, <1>6 DEF CInv

LEMMA BcastGatherStep == ASSUME CInv, BInv', NEW t \in Threads, BcastGather(t) PROVE CInv'
  <1> USE DEF BcastGather
  <1>1. DOMAIN buf' = Threads BY DEF CInv, StagesInv
  <1>2. /\ StagesInv' /\ SerialInv' /\ InStep' /\ EmptyingUtil'
        /\ ~Leaving /\ Waits(t)'
        /\ \A u \in Threads : crossed[u] = crossed[t]
        /\ \A u \in Threads \ {t} : Waits(u)' <=> Waits(u)
        /\ \A u \in Threads : Kind(u)' = Kind(u)
    BY <1>1, GatherKeeps
  <1>3. \A u \in Threads : Expected(call[u], u)' = Expected(call[u], u) /\ DataRoot(u)' = DataRoot(u)
    BY <1>2 DEF DataRoot
  <1>4. BufInv' BY <1>2, <1>3 DEF CInv, BufInv
  <1>5. FillingUtil'
    <2>1. ASSUME NEW u \in Threads, Waits(u)' PROVE stage[u] = "bcast" /\ Kind(u) = Kind(t)
      BY <1>2, <2>1, SameDoor DEF CInv, StagesInv
    <2>2. util' = IF t = DataRoot(t) THEN t ELSE util BY DEF BcastIn, DataRoot
    <2>3. ASSUME NEW u \in Threads, Waits(u)', u = DataRoot(u) PROVE util' = u
      <3>1. DataRoot(t) = u BY <2>1, <2>3 DEF DataRoot
      <3>2. CASE u = t BY <2>2, <3>1, <3>2
      <3>3. CASE u # t
        <4>1. util = u BY <1>2, <2>1, <2>3, <3>3 DEF CInv, FillingUtil
        <4>2. QED BY <2>2, <3>1, <3>3, <4>1
      <3>4. QED BY <3>2, <3>3
    <2>4. QED BY <1>3, <2>1, <2>3 DEF FillingUtil
  <1>6. QED BY <1>2, <1>4, <1>5 DEF CInv

LEMMA BareGatherStep ==
    ASSUME CInv, BInv', NEW t \in Threads, stage[t] = "bare", Gather(t),
           UNCHANGED <<serVars, collVars>>
    PROVE  CInv'
  <1> USE DEF collVars
  <1>1. DOMAIN buf' = Threads BY DEF CInv, StagesInv
  <1>2. /\ StagesInv' /\ SerialInv' /\ InStep' /\ EmptyingUtil'
        /\ Waits(t)'
        /\ \A u \in Threads : crossed[u] = crossed[t]
        /\ \A u \in Threads \ {t} : Waits(u)' <=> Waits(u)
        /\ \A u \in Threads : Kind(u)' = Kind(u)
    BY <1>1, GatherKeeps
  <1>3. BufInv' BY <1>2 DEF CInv, BufInv
  <1>4. FillingUtil'
    <2>1. ASSUME NEW u \in Threads, Waits(u)' PROVE stage[u] = "bare"
      BY <1>2, <2>1, SameDoor DEF CInv, StagesInv
    <2>2. QED BY <2>1 DEF FillingUtil
  <1>5. QED BY <1>2, <1>3, <1>4 DEF CInv

(* The stage after the barrier of a stage.                                 *)
Through(s) == CASE s = "reduce" -> "reduced" [] s = "bcast" -> "copied" [] s = "bare" -> "user"

(* What every return from barrier_wait() does to the invariant.  The       *)
(* threads that are still inside are at the stage that t leaves.           *)
LEMMA CrossKeeps ==
    ASSUME CInv, BInv', NEW t \in Threads, Release(t) \/ Leave(t),
           stage[t] \in {"reduce", "bcast", "bare"}, To(t, Through(stage[t])),
           UNCHANGED <<serVars, call>>, DOMAIN buf' = Threads
    PROVE  /\ StagesInv' /\ SerialInv' /\ InStep' /\ FillingUtil'
           /\ ~Waits(t)'
           /\ \A u \in Threads : Waits(u)' => /\ u # t /\ Waits(u)
                                              /\ call[u] = call[t] /\ stage[u] = stage[t]
           /\ \A u \in Threads : Kind(u)' = Kind(u)
           /\ stage'[t] = Through(stage[t]) /\ call[t] > 0
           /\ \A u \in Threads \ {t} : stage'[u] = stage[u] /\ (Waits(u)' <=> Waits(u))
  <1> DEFINE r == Round
  <1>1. /\ r \in Nat /\ crossed[t] = r /\ crossed' = [crossed EXCEPT ![t] = r + 1]
        /\ \A u \in Threads \ {t} : /\ arrived[u] = r + 1 /\ arrived'[u] = r + 1
                                    /\ crossed[u] \in {r, r + 1} /\ crossed'[u] = crossed[u]
        /\ arrived'[t] = r + 1 /\ crossed'[t] = r + 1
    <2>1. crossed \in [Threads -> Nat] /\ arrived \in [Threads -> Nat]
      BY DEF CInv, BInv, BarrierTypeOK
    <2>2. CASE Release(t)
      <3>1. /\ Round \in Nat /\ crossed[t] = Round /\ arrived[t] = Round
            /\ \A u \in Threads : crossed[u] = Round /\ (u # t => arrived[u] = Round + 1)
        BY <2>2, LastArrives DEF CInv
      <3>2. QED BY <2>1, <2>2, <3>1 DEF Release
    <2>3. CASE Leave(t)
      <3>1. /\ Round \in Nat /\ crossed[t] = Round
            /\ \A u \in Threads : arrived[u] = Round + 1 /\ crossed[u] \in {Round, Round + 1}
        BY <2>3, LeavesOpenBarrier DEF CInv
      <3>2. QED BY <2>1, <2>3, <3>1 DEF Leave
    <2>4. QED BY <2>2, <2>3
  <1> HIDE DEF r
  <1>2. /\ ~Waits(t)'
        /\ \A u \in Threads \ {t} : /\ Waits(u)' <=> Waits(u)
                                    /\ Waits(u) <=> crossed[u] = r
    BY <1>1 DEF Waits
  <1>3. ASSUME NEW u \in Threads, u # t, Waits(u)
        PROVE  call[u] = call[t] /\ stage[u] = stage[t]
    <2>1. stage[u] \in {"reduce", "bcast", "bare"} BY <1>3 DEF CInv, StagesInv
    <2>2. QED BY <1>1, <1>2, <1>3, <2>1, SameDoor
  <1>4. stage'[t] = Through(stage[t]) /\ \A u \in Threads \ {t} : stage'[u] = stage[u]
    BY DEF To, CInv, StagesInv
  <1>5. \A u \in Threads : Kind(u)' = Kind(u) BY DEF Kind
  <1>6. /\ call[t] \in Nat /\ call[t] > 0 /\ sarrived[t] = scrossed[t] /\ scrossed[t] \in Nat
        /\ stage[t] = "reduce" => Kind(t) = "allreduce"
        /\ stage[t] = "bcast" => Kind(t) \in {"allreduce", "bcast"}
        /\ stage[t] = "bare" => Kind(t) = "wait"
    BY DEF CInv, StagesInv, SerialInv
  <1>7. \/ stage[t] = "reduce" /\ stage'[t] = "reduced"
        \/ stage[t] = "bcast" /\ stage'[t] = "copied"
        \/ stage[t] = "bare" /\ stage'[t] = "user"
    BY <1>4 DEF Through
  <1>8. StagesInv'
    <2>1. stage' \in [Threads -> {"user", "reduce", "reduced", "mpi", "bcast", "copied", "bare"}]
      BY <1>4, <1>7 DEF To, CInv, StagesInv
    <2>2. QED BY <1>2, <1>4, <1>5, <1>6, <1>7, <2>1 DEF CInv, StagesInv
  <1>9. SerialInv' BY <1>4, <1>6, <1>7 DEF CInv, SerialInv, serVars
  <1>10. /\ Past(t)' = call[t]
         /\ Half(t)' <=> stage[t] = "reduce"
         /\ Serialized(t)' = IF stage[t] = "bare" THEN scrossed[t] ELSE scrossed[t] + 1
    BY <1>5, <1>6, <1>7 DEF Past, Half, Serialized, serVars
  <1>11. \A u \in Threads \ {t} : /\ Past(u)' = Past(u) /\ (Half(u)' <=> Half(u))
                                  /\ Serialized(u)' = Serialized(u)
    BY <1>4, <1>5 DEF Past, Half, Serialized, serVars
  <1>12. InStep'
    <2>1. ASSUME NEW u \in Threads, u # t, crossed[u] = r + 1
          PROVE  Past(u)' = Past(t)' /\ (Half(u)' <=> Half(t)') /\ Serialized(u)' = Serialized(t)'
      <3>1. crossed[u] = crossed[t] + 1 BY <1>1, <2>1
      <3>2. Past(u) = call[t] /\ (Half(u) <=> stage[t] = "reduce")
            /\ Serialized(u) = IF stage[t] = "bare" THEN scrossed[t] ELSE scrossed[t] + 1
        BY <3>1 DEF CInv, InStep
      <3>3. QED BY <1>10, <1>11, <2>1, <3>2
    <2>2. ASSUME NEW u \in Threads, u # t, crossed[u] = r
          PROVE  /\ Past(t)' = call[u] /\ (Half(t)' <=> stage[u] = "reduce")
                 /\ Serialized(t)' = IF stage[u] = "bare" THEN scrossed[u] ELSE scrossed[u] + 1
      <3>1. call[u] = call[t] /\ stage[u] = stage[t] BY <1>2, <1>3, <2>2
      <3>2. Serialized(u) = Serialized(t) BY <1>1, <2>2 DEF CInv, InStep
      <3>3. scrossed[u] = scrossed[t] BY <3>1, <3>2 DEF Serialized
      <3>4. QED BY <1>10, <3>1, <3>3
    <2>3. SUFFICES ASSUME NEW w \in Threads, NEW u \in Threads
                   PROVE  /\ crossed'[w] = crossed'[u] =>
                               /\ Past(w)' = Past(u)' /\ (Half(w)' <=> Half(u)')
                               /\ Serialized(w)' = Serialized(u)'
                          /\ crossed'[w] = crossed'[u] + 1 =>
                               /\ Past(w)' = call'[u]
                               /\ Half(w)' <=> stage'[u] = "reduce"
                               /\ Serialized(w)' = IF stage'[u] = "bare" THEN scrossed'[u]
                                                   ELSE scrossed'[u] + 1
      BY DEF InStep
    <2>4. CASE w = t /\ u = t BY <1>1, <2>4
    <2>5. CASE w = t /\ u # t
      <3>1. crossed'[t] = crossed'[u] => crossed[u] = r + 1 BY <1>1, <2>5
      <3>2. crossed'[t] = crossed'[u] + 1 => crossed[u] = r BY <1>1, <2>5
      <3>3. QED BY <1>4, <2>1, <2>2, <2>5, <3>1, <3>2 DEF serVars
    <2>6. CASE w # t /\ u = t
      <3>1. crossed'[w] = crossed'[t] => crossed[w] = r + 1 BY <1>1, <2>6
      <3>2. crossed'[w] # crossed'[t] + 1 BY <1>1, <2>6
      <3>3. QED BY <2>1, <2>6, <3>1, <3>2
    <2>7. CASE w # t /\ u # t
      BY <1>1, <1>4, <1>11, <2>7 DEF CInv, InStep, serVars
    <2>8. QED BY <2>4, <2>5, <2>6, <2>7
  <1>13. FillingUtil'
    <2>1. SUFFICES ASSUME ~Leaving', NEW u \in Threads, Waits(u)' PROVE FALSE
      BY DEF FillingUtil
    <2>2. crossed'[u] = Round' /\ crossed'[t] = Round' BY <2>1 DEF BInv, BarrierExact, FillingExact
    <2>3. QED BY <1>1, <1>2, <2>1, <2>2
  <1>14. QED BY <1>2, <1>3, <1>4, <1>5, <1>6, <1>8, <1>9, <1>12, <1>13

(* The areas of the others are not touched, and t has its own right.       *)
LEMMA CrossBuf ==
    ASSUME CInv, NEW t \in Threads, UNCHANGED call,
           \A u \in Threads \ {t} : stage'[u] = stage[u] /\ buf'[u] = buf[u] /\ (Waits(u)' <=> Waits(u)),
           \/ stage'[t] = "reduced" /\ buf'[t] = From(call[t], Threads)
           \/ stage'[t] \in {"copied", "user"} /\ buf'[t] = Expected(call[t], t)
    PROVE  BufInv'
  <1>1. \A u \in Threads : Kind(u)' = Kind(u) /\ Expected(call[u], u)' = Expected(call[u], u)
    BY DEF Kind
  <1>2. ASSUME NEW u \in Threads
        PROVE  /\ (stage[u] \in {"user", "copied"} /\ call[u] > 0 => buf[u] = Expected(call[u], u))'
               /\ (stage[u] = "reduced" => buf[u] = From(call[u], Threads))'
               /\ (stage[u] \in {"mpi", "bcast"} /\ Kind(u) = "allreduce" =>
                     buf[u] = From(call[u], Threads)
                       \cup (IF stage[u] = "bcast" /\ u = Leader THEN From(call[u], {MPI}) ELSE {}))'
               /\ (\/ stage[u] \in {"mpi", "bcast"} /\ Kind(u) = "bcast"
                   \/ stage[u] = "bare"
                   \/ stage[u] = "reduce" /\ ~Waits(u)
                   => buf[u] = From(call[u], {u}))'
    <2>1. CASE u = t BY <1>1, <2>1
    <2>2. CASE u # t
      <3>1. /\ stage'[u] = stage[u] /\ buf'[u] = buf[u] /\ (Waits(u)' <=> Waits(u)) /\ call'[u] = call[u]
            /\ Kind(u)' = Kind(u) /\ Expected(call[u], u)' = Expected(call[u], u)
        BY <1>1, <2>2
      <3>2. BufInv BY DEF CInv
      <3>3. QED BY <3>1, <3>2, Zenon DEF BufInv
    <2>3. QED BY <2>1, <2>2
  <1>3. QED BY <1>2, Zenon DEF BufInv

LEMMA ReduceReleaseStep == ASSUME CInv, BInv', NEW t \in Threads, ReduceRelease(t) PROVE CInv'
  <1> USE DEF ReduceRelease
  <1>1. /\ ~Leaving /\ arrived[t] = Round /\ crossed[t] = Round /\ Round \in Nat
        /\ t \notin Came /\ Came \in SUBSET Threads /\ Cardinality(Came) \in Nat
    BY AtDoorNotCounted DEF Release, CInv
  <1>2. ~Waits(t) BY <1>1 DEF Waits
  <1>3. left \in Nat /\ left + Cardinality(Came) = Cardinality(Threads) /\ left = 1
    BY <1>1 DEF Release, CInv, BInv, BarrierTypeOK, BarrierExact, FillingExact
  <1>4. Came \cup {t} = Threads
    <2>1. Cardinality(Came) + 1 = Cardinality(Threads) BY <1>1, <1>3
    <2>2. QED BY <1>1, <2>1, OneMore
  <1>5. /\ DOMAIN buf' = Threads /\ buf'[t] = From(call[t], Threads)
        /\ \A u \in Threads \ {t} : buf'[u] = buf[u]
    BY <1>1, <1>2, <1>3, <1>4, ReducesAll DEF Out
  <1>6. stage[t] = "reduce" /\ Through(stage[t]) = "reduced" BY DEF Through
  <1>7. /\ StagesInv' /\ SerialInv' /\ InStep' /\ FillingUtil'
        /\ \A u \in Threads : Waits(u)' => /\ u # t /\ call[u] = call[t] /\ stage[u] = stage[t]
        /\ stage'[t] = "reduced"
        /\ \A u \in Threads \ {t} : stage'[u] = stage[u] /\ (Waits(u)' <=> Waits(u))
    BY <1>5, <1>6, CrossKeeps
  <1>8. BufInv' BY <1>5, <1>7, CrossBuf
  <1>9. EmptyingUtil' BY <1>5, <1>6, <1>7 DEF EmptyingUtil
  <1>10. QED BY <1>7, <1>8, <1>9 DEF CInv

LEMMA ReduceLeaveStep == ASSUME CInv, BInv', NEW t \in Threads, ReduceLeave(t) PROVE CInv'
  <1> USE DEF ReduceLeave
  <1>1. Leaving /\ Waits(t)
    <2>1. Leaving BY LeavesOpenBarrier DEF CInv
    <2>2. QED BY <2>1 DEF Leave, CInv, BInv, BarrierExact, SleepersExact, Waits
  <1>2. util \in Threads /\ buf[util] = From(call[t], Threads) BY <1>1 DEF CInv, EmptyingUtil
  <1>3. /\ DOMAIN buf' = Threads /\ buf'[t] = From(call[t], Threads)
        /\ \A u \in Threads \ {t} : buf'[u] = buf[u]
    BY <1>2 DEF Out, CInv, StagesInv
  <1>4. buf'[util] = From(call[t], Threads) BY <1>2, <1>3
  <1>5. stage[t] = "reduce" /\ Through(stage[t]) = "reduced" BY DEF Through
  <1>6. /\ StagesInv' /\ SerialInv' /\ InStep' /\ FillingUtil'
        /\ \A u \in Threads : Waits(u)' => /\ u # t /\ call[u] = call[t] /\ stage[u] = stage[t]
        /\ stage'[t] = "reduced"
        /\ \A u \in Threads \ {t} : stage'[u] = stage[u] /\ (Waits(u)' <=> Waits(u))
    BY <1>3, <1>5, CrossKeeps
  <1>7. BufInv' BY <1>3, <1>6, CrossBuf
  <1>8. EmptyingUtil' BY <1>2, <1>4, <1>5, <1>6 DEF EmptyingUtil
  <1>9. QED BY <1>6, <1>7, <1>8 DEF CInv

(* The area of the root holds what the call is to leave everywhere.        *)
LEMMA RootHasIt ==
    ASSUME CInv, NEW t \in Threads, stage[t] = "bcast", t = DataRoot(t)
    PROVE  buf[t] = Expected(call[t], t)
  <1>1. Kind(t) \in {"allreduce", "bcast"} BY DEF CInv, StagesInv
  <1>2. CASE Kind(t) = "bcast"
    <2>1. t = Root /\ buf[t] = {<<call[t], t>>} BY <1>2 DEF DataRoot, CInv, BufInv, From
    <2>2. QED BY <1>2, <2>1 DEF Expected, Kind
  <1>3. CASE Kind(t) = "allreduce"
    <2>1. t = Leader BY <1>3 DEF DataRoot
    <2>2. buf[t] = From(call[t], Threads) \cup From(call[t], {MPI}) BY <1>3, <2>1 DEF CInv, BufInv
    <2>3. QED BY <1>3, <2>2 DEF Expected, Kind, From
  <1>4. QED BY <1>1, <1>2, <1>3

(* What a broadcast or a reduction leaves is the same for all.             *)
LEMMA SameForAll ==
    ASSUME NEW n, Calls[n] \in {"allreduce", "bcast"}, NEW t, NEW u
    PROVE  Expected(n, t) = Expected(n, u)
  BY DEF Expected

LEMMA BcastReleaseStep == ASSUME CInv, BInv', NEW t \in Threads, BcastRelease(t) PROVE CInv'
  <1> USE DEF BcastRelease
  <1>1. /\ Round \in Nat /\ crossed[t] = Round
        /\ \A u \in Threads : crossed[u] = Round /\ (u # t => arrived[u] = Round + 1)
    BY LastArrives DEF CInv
  <1>2. ~Leaving BY DEF Release
  <1>3. stage[t] = "bcast" /\ Kind(t) \in {"allreduce", "bcast"} /\ DOMAIN buf = Threads
    BY DEF CInv, StagesInv
  <1>4. DataRoot(t) \in Threads BY CallsAssumption DEF DataRoot
  <1>5. util' = DataRoot(t) /\ BcastIn(t) = DataRoot(t) /\ buf[DataRoot(t)] = Expected(call[t], t)
    <2>0. BcastIn(t) = IF t = DataRoot(t) THEN t ELSE util BY DEF BcastIn, DataRoot
    <2>1. CASE t = DataRoot(t) BY <1>3, <2>0, <2>1, RootHasIt
    <2>2. CASE t # DataRoot(t)
      <3>1. PICK u \in Threads : u = DataRoot(t) BY <1>4
      <3>2. Waits(u) /\ crossed[u] = crossed[t] BY <1>1, <2>2, <3>1 DEF Waits
      <3>3. stage[u] = "bcast" /\ call[u] = call[t] /\ Kind(u) = Kind(t)
        BY <1>3, <3>1, <3>2, SameDoor DEF CInv, StagesInv
      <3>4. u = DataRoot(u) BY <3>1, <3>3 DEF DataRoot
      <3>5. util = u BY <1>2, <3>2, <3>3, <3>4 DEF CInv, FillingUtil
      <3>6. buf[u] = Expected(call[u], u) BY <3>3, <3>4, RootHasIt
      <3>7. Expected(call[t], u) = Expected(call[t], t) BY <1>3, SameForAll DEF Kind
      <3>8. QED BY <2>0, <2>2, <3>1, <3>3, <3>5, <3>6, <3>7
    <2>3. QED BY <2>1, <2>2
  <1>6. /\ DOMAIN buf' = Threads /\ buf'[t] = Expected(call[t], t)
        /\ \A u \in Threads \ {t} : buf'[u] = buf[u]
    BY <1>3, <1>4, <1>5 DEF Out
  <1>7. buf'[util'] = Expected(call[t], t) BY <1>4, <1>5, <1>6
  <1>8. Through(stage[t]) = "copied" BY <1>3 DEF Through
  <1>9. /\ StagesInv' /\ SerialInv' /\ InStep' /\ FillingUtil'
        /\ \A u \in Threads : Waits(u)' => /\ u # t /\ call[u] = call[t] /\ stage[u] = stage[t]
        /\ stage'[t] = "copied"
        /\ \A u \in Threads \ {t} : stage'[u] = stage[u] /\ (Waits(u)' <=> Waits(u))
    BY <1>3, <1>6, <1>8, CrossKeeps
  <1>10. BufInv' BY <1>6, <1>9, CrossBuf
  <1>11. EmptyingUtil'
    <2>1. \A u \in Threads : Expected(call[t], u) = Expected(call[t], t) BY <1>3, SameForAll DEF Kind
    <2>2. QED BY <1>3, <1>4, <1>5, <1>7, <1>9, <2>1 DEF EmptyingUtil
  <1>12. QED BY <1>9, <1>10, <1>11 DEF CInv

LEMMA BcastLeaveStep == ASSUME CInv, BInv', NEW t \in Threads, BcastLeave(t) PROVE CInv'
  <1> USE DEF BcastLeave
  <1>1. Leaving /\ Waits(t)
    <2>1. Leaving BY LeavesOpenBarrier DEF CInv
    <2>2. QED BY <2>1 DEF Leave, CInv, BInv, BarrierExact, SleepersExact, Waits
  <1>2. stage[t] = "bcast" /\ Kind(t) \in {"allreduce", "bcast"} /\ DOMAIN buf = Threads
    BY DEF CInv, StagesInv
  <1>3. util \in Threads /\ buf[util] = Expected(call[t], t) BY <1>1 DEF CInv, EmptyingUtil
  <1>4. /\ DOMAIN buf' = Threads /\ buf'[t] = Expected(call[t], t)
        /\ \A u \in Threads \ {t} : buf'[u] = buf[u]
    BY <1>2, <1>3 DEF Out
  <1>5. buf'[util] = Expected(call[t], t) BY <1>3, <1>4
  <1>6. Through(stage[t]) = "copied" BY <1>2 DEF Through
  <1>7. /\ StagesInv' /\ SerialInv' /\ InStep' /\ FillingUtil'
        /\ \A u \in Threads : Waits(u)' => /\ u # t /\ call[u] = call[t] /\ stage[u] = stage[t]
        /\ stage'[t] = "copied"
        /\ \A u \in Threads \ {t} : stage'[u] = stage[u] /\ (Waits(u)' <=> Waits(u))
    BY <1>2, <1>4, <1>6, CrossKeeps
  <1>8. BufInv' BY <1>4, <1>7, CrossBuf
  <1>9. EmptyingUtil'
    <2>1. \A u \in Threads : Expected(call[t], u) = Expected(call[t], t) BY <1>2, SameForAll DEF Kind
    <2>2. QED BY <1>2, <1>3, <1>5, <1>7, <2>1 DEF EmptyingUtil
  <1>10. QED BY <1>7, <1>8, <1>9 DEF CInv

LEMMA BareCrossStep ==
    ASSUME CInv, BInv', NEW t \in Threads, stage[t] = "bare", Release(t) \/ Leave(t),
           To(t, "user"), UNCHANGED <<serVars, call, util, buf>>
    PROVE  CInv'
  <1>1. Through(stage[t]) = "user" BY DEF Through
  <1>2. DOMAIN buf' = Threads /\ buf[t] = {<<call[t], t>>} /\ Kind(t) = "wait"
    BY DEF CInv, StagesInv, BufInv, From
  <1>3. buf[t] = Expected(call[t], t) BY <1>2 DEF Expected, Kind
  <1>4. /\ StagesInv' /\ SerialInv' /\ InStep' /\ FillingUtil'
        /\ \A u \in Threads : Waits(u)' => /\ u # t /\ call[u] = call[t] /\ stage[u] = stage[t]
        /\ stage'[t] = "user"
        /\ \A u \in Threads \ {t} : stage'[u] = stage[u] /\ (Waits(u)' <=> Waits(u))
    BY <1>1, <1>2, CrossKeeps
  <1>5. BufInv' BY <1>3, <1>4, CrossBuf
  <1>6. EmptyingUtil' BY <1>4 DEF EmptyingUtil
  <1>7. QED BY <1>4, <1>5, <1>6 DEF CInv

LEMMA CInvNext == CInv /\ [Next]_vars => CInv'
  <1> SUFFICES ASSUME CInv, [Next]_vars PROVE CInv' OBVIOUS
  <1>1. BInv' BY PiStepIsBarrierStep, BInvNext DEF CInv
  <1>2. CASE UNCHANGED vars BY <1>1, <1>2, QuietCollective DEF vars, barrierVars
  <1>3. CASE Clear
    BY <1>1, <1>3, QuietCollective DEF Clear, DestroyWait, Destroy
  <1>4. ASSUME NEW t \in Threads, Spurious(t) PROVE CInv'
    BY <1>1, <1>4, QuietCollective DEF Spurious, SpuriousWakeup
  <1>5. ASSUME NEW t \in Threads, Doze(t) PROVE CInv'
    BY <1>1, <1>5, QuietCollective DEF Doze, Finish, SleepAgain
  <1>6. ASSUME NEW t \in Threads, BareWait(t) PROVE CInv'
    <2>1. stage[t] = "bare" /\ UNCHANGED <<serVars, call, util, buf>> BY <1>6 DEF BareWait
    <2>2. CASE Gather(t) /\ UNCHANGED stage BY <1>1, <2>1, <2>2, BareGatherStep DEF collVars
    <2>3. CASE (Release(t) \/ Leave(t)) /\ To(t, "user") BY <1>1, <2>1, <2>3, BareCrossStep
    <2>4. QED BY <1>6, <2>2, <2>3 DEF BareWait
  <1>7. ASSUME NEW t \in Threads, ThreadStep(t) PROVE CInv'
    BY <1>1, <1>5, <1>6, <1>7, BeginStep, MpiInnerStep, SerializeStep, ReduceGatherStep,
       ReduceReleaseStep, ReduceLeaveStep, BcastGatherStep, BcastReleaseStep, BcastLeaveStep
    DEF ThreadStep
  <1>8. QED BY <1>2, <1>3, <1>4, <1>7 DEF Next

(* pi_allreduce() and pi_bcast() are exact for any number of threads, any  *)
(* sequence of calls, any root and any spurious wakeups: every thread      *)
(* comes back with the whole reduction, or with the root's data, and with  *)
(* nothing of another call.                                                *)
THEOREM CollectivesAreExact == Spec => []CollectiveExact
  <1>1. CInv => CollectiveExact BY DEF CInv, BufInv, CollectiveExact
  <1>2. QED BY <1>1, CInvInit, CInvNext, PTL DEF Spec

(* The collectives use the barrier as BarrierSpec says, so that what is    *)
(* proved of it holds of them: it is destroyed empty and implements        *)
(* AbstractBarrier.                                                        *)
THEOREM CollectivesUseBarrier ==
    Spec => BarrierSpec /\ []BarrierExact /\ []DestroySafe /\ BarrierImplementsAbstract
  <1>1. Init => BarrierInit BY DEF Init
  <1>2. Spec => BarrierSpec BY <1>1, PiStepIsBarrierStep, PTL DEF Spec, BarrierSpec
  <1>3. QED BY <1>2, BarrierCountsExact, BarrierDestroyedEmpty, BarrierRefinesAbstract, PTL
=============================================================================
