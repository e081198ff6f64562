------------------------------ MODULE Barrier ------------------------------
(***************************************************************************)
(* The reusable barrier of utils/barrier.c.  All of its state is guarded   *)
(* by one mutex, so an action is what a thread does from taking the mutex  *)
(* to releasing it or to falling asleep in pthread_cond_wait().  cv is the *)
(* set of threads asleep on the condition; POSIX lets a sleeper wake up    *)
(* without a reason (SpuriousWakeup).  arrived and crossed are history     *)
(* variables: how many barriers a thread has reached and returned from.    *)
(***************************************************************************)
EXTENDS Integers, FiniteSets

CONSTANTS Threads,     \* the threads that share the barrier
          MaxRounds,   \* bound: how often a thread calls barrier_wait
          Owner        \* the thread that calls barrier_destroy in the end

ASSUME BarrierAssumption ==
    IsFiniteSet(Threads) /\ Owner \in Threads /\ MaxRounds \in Nat

VARIABLES left, count, event,  \* the fields of barrier_t
          cv,                  \* threads asleep on barrier->cv
          pc,                  \* where a thread is in barrier_wait
          saved,               \* its local copy of event
          alive,               \* FALSE once barrier_destroy has returned
          arrived, crossed     \* history

barrierVars == <<left, count, event, cv, pc, saved, alive, arrived, crossed>>

-----------------------------------------------------------------------------
(* barrier_init(barrier, NULL, count), before the threads start.           *)
BarrierInit ==
    /\ left = Cardinality(Threads) /\ count = Cardinality(Threads) /\ event = 0
    /\ cv = {} /\ alive = TRUE
    /\ pc = [t \in Threads |-> "out"]
    /\ saved = [t \in Threads |-> 0]
    /\ arrived = [t \in Threads |-> 0]
    /\ crossed = [t \in Threads |-> 0]

Odd(n) == n % 2 = 1

(* Mutant: the previous barrier is not waited for.                         *)
NeverLeaving == FALSE

(* Condition of the loop of barrier_finish_unlocked(): the previous        *)
(* barrier still has threads to let out.                                   *)
Leaving == Odd(event)

(* t holds the mutex in barrier_wait_unlocked(), before or inside          *)
(* barrier_finish_unlocked().                                              *)
AtDoor(t) ==
    /\ alive /\ t \notin cv
    /\ \/ pc[t] = "out" /\ arrived[t] < MaxRounds
       \/ pc[t] = "finish"

(* barrier_finish_unlocked(): asleep until the previous barrier is empty.  *)
Finish(t) ==
    /\ AtDoor(t) /\ Leaving
    /\ pc' = [pc EXCEPT ![t] = "finish"]
    /\ cv' = cv \cup {t}
    /\ UNCHANGED <<left, count, event, saved, alive, arrived, crossed>>

(* barrier_wait_unlocked() of a thread that is not the last: in() is       *)
(* called with left - 1, then the thread sleeps.                           *)
Gather(t) ==
    /\ AtDoor(t) /\ ~Leaving /\ left # 1
    /\ left' = left - 1
    /\ saved' = [saved EXCEPT ![t] = event]
    /\ pc' = [pc EXCEPT ![t] = "wait"]
    /\ cv' = cv \cup {t}
    /\ arrived' = [arrived EXCEPT ![t] = @ + 1]
    /\ UNCHANGED <<count, event, alive, crossed>>

(* The last thread calls in(0), opens the barrier, wakes everybody and     *)
(* leaves at once: out(0), left = 1, and a second step of event when it is *)
(* alone.                                                                  *)
Release(t) ==
    /\ AtDoor(t) /\ ~Leaving /\ left = 1
    /\ left' = 1
    /\ event' = IF count = 1 THEN event + 2 ELSE event + 1
    /\ cv' = {}
    /\ pc' = [pc EXCEPT ![t] = "out"]
    /\ arrived' = [arrived EXCEPT ![t] = @ + 1]
    /\ crossed' = [crossed EXCEPT ![t] = @ + 1]
    /\ UNCHANGED <<count, saved, alive>>

(* Condition of the do-while loop: event has not moved since t slept.      *)
StillClosed(t) == event = saved[t]

(* Woken for nothing: back to sleep.                                       *)
SleepAgain(t) ==
    /\ pc[t] = "wait" /\ t \notin cv /\ StillClosed(t)
    /\ cv' = cv \cup {t}
    /\ UNCHANGED <<left, count, event, pc, saved, alive, arrived, crossed>>

(* Mutant: the last one out does not wake those who wait for it.           *)
LeaveSilently(t) ==
    /\ pc[t] = "wait" /\ t \notin cv /\ ~StillClosed(t)
    /\ left' = left + 1
    /\ event' = IF left + 1 = count THEN event + 1 ELSE event
    /\ pc' = [pc EXCEPT ![t] = "out"]
    /\ crossed' = [crossed EXCEPT ![t] = @ + 1]
    /\ UNCHANGED <<count, cv, saved, alive, arrived>>

(* Leaving an open barrier: out(left), then ++left; the last one out steps *)
(* event and wakes those who wait for the next barrier.                    *)
Leave(t) ==
    /\ pc[t] = "wait" /\ t \notin cv /\ ~StillClosed(t)
    /\ left' = left + 1
    /\ IF left + 1 = count THEN event' = event + 1 /\ cv' = {}
                           ELSE UNCHANGED <<event, cv>>
    /\ pc' = [pc EXCEPT ![t] = "out"]
    /\ crossed' = [crossed EXCEPT ![t] = @ + 1]
    /\ UNCHANGED <<count, saved, alive, arrived>>

SpuriousWakeup(t) ==
    /\ t \in cv
    /\ cv' = cv \ {t}
    /\ UNCHANGED <<left, count, event, pc, saved, alive, arrived, crossed>>

(* Mutant: barrier_destroy() without barrier_finish_unlocked().            *)
DestroyAtOnce ==
    /\ alive /\ pc[Owner] = "out"
    /\ crossed[Owner] = MaxRounds
    /\ alive' = FALSE
    /\ UNCHANGED <<left, count, event, cv, pc, saved, arrived, crossed>>

(* barrier_destroy() by a thread that is through its last barrier: first   *)
(* barrier_finish_unlocked(), then the check that left = count.            *)
DestroyWait ==
    /\ alive /\ pc[Owner] \in {"out", "destroy"} /\ Owner \notin cv
    /\ crossed[Owner] = MaxRounds /\ Leaving
    /\ pc' = [pc EXCEPT ![Owner] = "destroy"]
    /\ cv' = cv \cup {Owner}
    /\ UNCHANGED <<left, count, event, saved, alive, arrived, crossed>>

Destroy ==
    /\ alive /\ pc[Owner] \in {"out", "destroy"} /\ Owner \notin cv
    /\ crossed[Owner] = MaxRounds /\ ~Leaving
    /\ pc' = [pc EXCEPT ![Owner] = "out"]
    /\ alive' = FALSE
    /\ UNCHANGED <<left, count, event, cv, saved, arrived, crossed>>

BarrierStep(t) == Finish(t) \/ Gather(t) \/ Release(t) \/ SleepAgain(t) \/ Leave(t)

BarrierNext ==
    \/ \E t \in Threads : BarrierStep(t) \/ SpuriousWakeup(t)
    \/ DestroyWait \/ Destroy

BarrierSpec == BarrierInit /\ [][BarrierNext]_barrierVars

-----------------------------------------------------------------------------
(* Every field keeps its type.                                             *)
BarrierTypeOK ==
    /\ left \in Nat /\ count \in Nat /\ event \in Nat
    /\ cv \subseteq Threads /\ alive \in BOOLEAN
    /\ pc \in [Threads -> {"out", "finish", "wait", "destroy"}]
    /\ saved \in [Threads -> Nat]
    /\ arrived \in [Threads -> Nat] /\ crossed \in [Threads -> Nat]

(* The barrier that is being filled or emptied, counted from 0.            *)
Round == event \div 2
Came  == {t \in Threads : arrived[t] = Round + 1}
Gone  == {t \in Threads : crossed[t] = Round + 1}

(* While the barrier fills, left counts the threads that have not come; no *)
(* thread is ahead or behind by more than that one barrier.                *)
FillingExact ==
    ~Leaving => /\ \A t \in Threads : crossed[t] = Round /\ arrived[t] \in {Round, Round + 1}
                /\ left + Cardinality(Came) = count

(* While it empties, left counts the threads that are out, and a thread    *)
(* that is out has not been let into the next barrier: the same counter    *)
(* serves both directions without mixing two barriers.                     *)
EmptyingExact ==
    Leaving => /\ \A t \in Threads : arrived[t] = Round + 1 /\ crossed[t] \in {Round, Round + 1}
               /\ left = Cardinality(Gone)
               /\ left < count

(* A thread asleep in the barrier compares event with the right number.    *)
SleepersExact ==
    \A t \in Threads :
        /\ pc[t] = "wait" <=> crossed[t] < arrived[t]
        /\ pc[t] = "wait" => saved[t] = 2 * crossed[t]
        /\ pc[t] = "finish" => arrived[t] < MaxRounds
        /\ pc[t] = "destroy" => t = Owner /\ crossed[t] = MaxRounds
        /\ arrived[t] <= MaxRounds
        /\ t \in cv => pc[t] # "out"

(* barrier_wait_unlocked() (barrier.c:107-155): "Even if a fast thread     *)
(* reaches the next barrier while the slow one hardly escaped the previous *)
(* one, the barrier data will not be messed up" (barrier.h:29-31).         *)
BarrierExact ==
    /\ left > 0 /\ count = Cardinality(Threads)
    /\ FillingExact /\ EmptyingExact /\ SleepersExact

(* barrier_destroy() (barrier.c:38-63) frees the lock and the condition    *)
(* only when no thread is inside barrier_wait() or asleep on the           *)
(* condition, and its assertion left == count holds.                       *)
DestroySafe ==
    ~alive => /\ left = count /\ cv = {}
              /\ \A t \in Threads : pc[t] = "out" /\ crossed[t] = MaxRounds

Abs == INSTANCE AbstractBarrier

(* The barrier of barrier.c implements the promise of AbstractBarrier:     *)
(* barrier_wait() "only returns when all the threads have reached it".     *)
BarrierImplementsAbstract == Abs!AbsSpec
=============================================================================
