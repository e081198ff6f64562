-------------------------- MODULE AbstractBarrier --------------------------
(***************************************************************************)
(* What a reusable barrier promises to a fixed group of threads            *)
(* (utils/barrier.h: "The function only returns when all the threads have  *)
(* reached it"; "It is safe to call barrier_wait several times in a row"). *)
(* A thread has arrived at its n-th barrier when arrived[t] = n and has    *)
(* returned from it when crossed[t] = n.  Barrier.tla implements this      *)
(* module; PiCollective uses it for the system's own pthread barrier.      *)
(***************************************************************************)
EXTENDS Naturals

CONSTANTS Threads,     \* the threads that meet at the barrier
          MaxRounds    \* bound: how often a thread calls barrier_wait

VARIABLES arrived, crossed

absVars == <<arrived, crossed>>

AbsInit == arrived = [t \in Threads |-> 0] /\ crossed = [t \in Threads |-> 0]

(* t reaches its next barrier while another thread is still to come.       *)
AbsArrive(t) ==
    /\ arrived[t] = crossed[t] /\ arrived[t] < MaxRounds
    /\ \E u \in Threads \ {t} : arrived[u] <= arrived[t]
    /\ arrived' = [arrived EXCEPT ![t] = @ + 1]
    /\ UNCHANGED crossed

(* t is the last to come and goes through at once.                         *)
AbsArriveLast(t) ==
    /\ arrived[t] = crossed[t] /\ arrived[t] < MaxRounds
    /\ \A u \in Threads \ {t} : arrived[u] > arrived[t]
    /\ arrived' = [arrived EXCEPT ![t] = @ + 1]
    /\ crossed' = [crossed EXCEPT ![t] = @ + 1]

(* t returns from a barrier every thread has reached.                      *)
AbsCross(t) ==
    /\ crossed[t] < arrived[t]
    /\ \A u \in Threads : arrived[u] >= arrived[t]
    /\ crossed' = [crossed EXCEPT ![t] = @ + 1]
    /\ UNCHANGED arrived

AbsNext == \E t \in Threads : AbsArrive(t) \/ AbsArriveLast(t) \/ AbsCross(t)

AbsSpec == AbsInit /\ [][AbsNext]_absVars
=============================================================================
