-------------------------------- MODULE FilterIo --------------------------------
(***************************************************************************)
(* The relation pipeline of the filter programs (dup1, dup2, purge, ...):  *)
(* inflight_rels_buffer of utils/filter_io.hpp with the loop of            *)
(* filter_rels_obj::backend_call that feeds it, under the locking layer    *)
(* ifb_locking_posix.                                                      *)
(*                                                                         *)
(* The owner reads relations and puts each active one in a slot of a ring  *)
(* (level 0); the threads of level k take the slots that level k - 1 has   *)
(* completed and apply the k-th function.  What the mutex m[k] protects is *)
(* one action.                                                             *)
(***************************************************************************)
EXTENDS Integers, FiniteSets

CONSTANTS
    Levels,      \* number of functions
    Workers,     \* the consumer threads
    LevelOf,     \* [Workers -> 1..Levels]: the function each one runs
    Owner,       \* the thread of backend_call
    Size,        \* SIZE_BUF_REL
    NRels,       \* relations in the input
    Active,      \* the numbers of those to process
    SizeMax,     \* SIZE_MAX
    NoSlot

ASSUME FilterAssumption ==
    /\ Levels \in Nat \ {0} /\ Size \in Nat \ {0} /\ NRels \in Nat
    /\ IsFiniteSet(Workers) /\ LevelOf \in [Workers -> 1..Levels]
    /\ \A k \in 1..Levels : \E t \in Workers : LevelOf[t] = k
    /\ Owner \notin Workers
    /\ Active \subseteq 0..NRels - 1
    /\ SizeMax \in Nat /\ SizeMax > NRels + Size
    /\ NoSlot \notin 0..Size - 1

VARIABLES
    completed,   \* completed[k], SizeMax after drain() has closed level k
    scheduled,   \* scheduled[k]
    x,           \* status_table::x: the level that last completed a slot
    active,      \* number of threads in each level
    rels,        \* number of the relation in each slot, -1 at first
    nrels,       \* relations read
    closing,     \* the level drain() is about to close
    pc,          \* where each thread is
    slot,        \* the slot each thread works on
    handled      \* relations to which each level has applied its function

bufVars == <<completed, scheduled, x, active>>
vars == <<bufVars, rels, nrels, closing, pc, slot, handled>>

Threads == Workers \cup {Owner}
Level == 0..Levels
Slots == 0..Size - 1
LevelOfThread(t) == IF t = Owner THEN 0 ELSE LevelOf[t]
Prev(k) == IF k = 0 THEN Levels ELSE k - 1

Init ==
    /\ completed = [k \in Level |-> 0]
    /\ scheduled = [k \in Level |-> 0]
    /\ x = [i \in Slots |-> 0]
    /\ active = [k \in Level |-> 0]
    /\ rels = [i \in Slots |-> -1]
    /\ nrels = 0
    /\ closing = 0
    /\ pc = [t \in Threads |-> "enter"]
    /\ slot = [t \in Threads |-> NoSlot]
    /\ handled = [k \in Level |-> {}]

To(t, where) == pc' = [pc EXCEPT ![t] = where]

(***************************************************************************)
(* The threads that sleep on bored[k]: schedule() of the next level, and   *)
(* drain() of level k.  t goes on at where, and wakes them all.            *)
(***************************************************************************)
Bored(k) == {t \in Threads : \/ pc[t] = "bored" /\ Prev(LevelOfThread(t)) = k
                             \/ pc[t] = "drain_bored" /\ closing = k}

Broadcast(t, where, k) ==
    pc' = [u \in Threads |->
             IF u = t THEN where
             ELSE IF u \notin Bored(k) THEN pc[u]
             ELSE IF pc[u] = "bored" THEN "schedule" ELSE "drain"]

(***************************************************************************)
(* enter(): count the thread, then wait for all others at sync_point.      *)
(***************************************************************************)
Enter(t) ==
    /\ pc[t] = "enter"
    /\ active' = [active EXCEPT ![LevelOfThread(t)] = @ + 1]
    /\ To(t, "sync")
    /\ UNCHANGED <<completed, scheduled, x, rels, nrels, closing, slot, handled>>

SyncPoint ==
    /\ \A t \in Threads : pc[t] = "sync"
    /\ pc' = [t \in Threads |-> IF t = Owner THEN "read" ELSE "schedule"]
    /\ UNCHANGED <<bufVars, rels, nrels, closing, slot, handled>>

(***************************************************************************)
(* The owner's loop: a relation that is not active is only counted; after  *)
(* the last one comes drain(), which first takes the owner out of level 0. *)
(***************************************************************************)
ReadRelation ==
    /\ pc[Owner] = "read" /\ nrels < NRels
    /\ IF nrels \in Active
       THEN To(Owner, "schedule") /\ UNCHANGED nrels
       ELSE nrels' = nrels + 1 /\ UNCHANGED pc
    /\ UNCHANGED <<bufVars, rels, closing, slot, handled>>

StartDrain ==
    /\ pc[Owner] = "read" /\ nrels = NRels
    /\ active' = [active EXCEPT ![0] = @ - 1]
    /\ To(Owner, "drain")
    /\ UNCHANGED <<completed, scheduled, x, rels, nrels, closing, slot, handled>>

(***************************************************************************)
(* schedule(k), under m[k - 1]: sleep, learn that level k - 1 is closed    *)
(* and everything was taken, or take the next slot.                        *)
(***************************************************************************)
(* Mutant: a whole ring and one more slot may be in flight.                *)
NothingToScheduleOffByOne(k) ==
    scheduled[k] = (IF k = 0 THEN Size + 1 ELSE 0) + completed[Prev(k)]

NothingToSchedule(k) ==
    scheduled[k] = (IF k = 0 THEN Size ELSE 0) + completed[Prev(k)]

(* Mutant: the level ends as soon as the one before it is closed.          *)
AllTakenAtOnce(k) == completed[Prev(k)] = SizeMax

AllTaken(k) == completed[Prev(k)] = SizeMax /\ scheduled[Prev(k)] = scheduled[k]

Schedule(t) ==
    LET k == LevelOfThread(t)
        s == scheduled[k]
    IN  /\ pc[t] = "schedule"
        /\ \/ /\ NothingToSchedule(k)
              /\ To(t, "bored")
              /\ UNCHANGED <<bufVars, slot>>
           \/ /\ ~NothingToSchedule(k) /\ AllTaken(k)
              /\ To(t, "leave")
              /\ UNCHANGED <<bufVars, slot>>
           \/ /\ ~NothingToSchedule(k) /\ ~AllTaken(k)
              /\ scheduled' = [scheduled EXCEPT ![k] = s + 1]
              /\ slot' = [slot EXCEPT ![t] = s % Size]
              /\ x' = IF k = 0 THEN [x EXCEPT ![s % Size] = -1] ELSE x
              /\ To(t, "work")
              /\ UNCHANGED <<completed, active>>
        /\ UNCHANGED <<rels, nrels, closing, handled>>

(***************************************************************************)
(* The thread's function: the owner parses the relation into the slot, a   *)
(* worker of level k runs the k-th function on it.                         *)
(***************************************************************************)
Work(t) ==
    LET k == LevelOfThread(t) IN
    /\ pc[t] = "work"
    /\ rels' = IF t = Owner THEN [rels EXCEPT ![slot[t]] = nrels] ELSE rels
    /\ handled' = [handled EXCEPT ![k] = @ \cup {rels'[slot[t]]}]
    /\ To(t, "complete")
    /\ UNCHANGED <<bufVars, nrels, closing, slot>>

(***************************************************************************)
(* complete(k, rel), under m[k].  The index of the relation is recovered   *)
(* from its slot as the one in completed[k] .. completed[k] + Size - 1.    *)
(***************************************************************************)
(* Mutant: the rounding is to the nearest multiple below.                  *)
AbsoluteIndexBelow(i, c) == i + ((c - i + Size) \div Size - 1) * Size

AbsoluteIndex(i, c) == i + ((c - i + Size - 1) \div Size) * Size

(* The first index from c on that level k has not completed, at most last. *)
CatchUp(c, last, k) == CHOOSE i \in c..last :
    /\ \A j \in c..i - 1 : x[j % Size] >= k
    /\ i = last \/ x[i % Size] < k

(* Mutant: the level is marked as completed up to the thread's relation.   *)
CompletedUpToMine(k, me) == me + 1

CompletedAfter(k, me) ==
    LET c == CatchUp(completed[k], me, k) IN IF c = me THEN me + 1 ELSE c

(* Mutant: nobody is told.                                                 *)
CompleteSilently(t) ==
    LET k == LevelOfThread(t)
        me == AbsoluteIndex(slot[t], completed[k])
    IN  /\ pc[t] = "complete"
        /\ completed' = [completed EXCEPT ![k] = CompletedAfter(k, me)]
        /\ x' = [x EXCEPT ![slot[t]] = @ + 1]
        /\ To(t, IF t = Owner THEN "read" ELSE "schedule")
        /\ nrels' = IF t = Owner THEN nrels + 1 ELSE nrels
        /\ slot' = [slot EXCEPT ![t] = NoSlot]
        /\ UNCHANGED <<scheduled, active, rels, closing, handled>>

Complete(t) ==
    LET k == LevelOfThread(t)
        me == AbsoluteIndex(slot[t], completed[k])
    IN  /\ pc[t] = "complete"
        /\ completed' = [completed EXCEPT ![k] = CompletedAfter(k, me)]
        /\ x' = [x EXCEPT ![slot[t]] = @ + 1]
        /\ Broadcast(t, IF t = Owner THEN "read" ELSE "schedule", k)
        /\ nrels' = IF t = Owner THEN nrels + 1 ELSE nrels
        /\ slot' = [slot EXCEPT ![t] = NoSlot]
        /\ UNCHANGED <<scheduled, active, rels, closing, handled>>

(***************************************************************************)
(* The end of schedule() when it returns a null pointer, under m[k].       *)
(***************************************************************************)
Leave(t) ==
    LET k == LevelOfThread(t) IN
    /\ pc[t] = "leave"
    /\ completed' = [completed EXCEPT ![k] = CatchUp(@, scheduled[k], k)]
    /\ active' = [active EXCEPT ![k] = @ - 1]
    /\ Broadcast(t, "end", k)
    /\ UNCHANGED <<scheduled, x, rels, nrels, closing, slot, handled>>

(***************************************************************************)
(* One turn of the loop of drain(), under m[closing].                      *)
(***************************************************************************)
Drain ==
    /\ pc[Owner] = "drain" /\ closing <= Levels
    /\ IF active[closing] > 0
       THEN /\ To(Owner, "drain_bored")
            /\ UNCHANGED <<completed, closing>>
       ELSE /\ completed' = [completed EXCEPT ![closing] = SizeMax]
            /\ Broadcast(Owner, "drain", closing)
            /\ closing' = closing + 1
    /\ UNCHANGED <<scheduled, x, active, rels, nrels, slot, handled>>

EndDrain ==
    /\ pc[Owner] = "drain" /\ closing = Levels + 1
    /\ To(Owner, "end")
    /\ UNCHANGED <<bufVars, rels, nrels, closing, slot, handled>>

(* pthread_cond_wait may return for no reason.                             *)
SpuriousWakeup(t) ==
    /\ pc[t] \in {"bored", "drain_bored"}
    /\ To(t, IF pc[t] = "bored" THEN "schedule" ELSE "drain")
    /\ UNCHANGED <<bufVars, rels, nrels, closing, slot, handled>>

AllEnded == \A t \in Threads : pc[t] = "end"

Ended == AllEnded /\ UNCHANGED vars

ThreadStep(t) == Enter(t) \/ Schedule(t) \/ Work(t) \/ Complete(t) \/ Leave(t)

OwnerStep == SyncPoint \/ ReadRelation \/ StartDrain \/ Drain \/ EndDrain

Next ==
    \/ \E t \in Threads : ThreadStep(t) \/ SpuriousWakeup(t)
    \/ OwnerStep
    \/ Ended

Spec == Init /\ [][Next]_vars

(* Every thread that can run does; nobody counts on spurious wakeups.      *)
FairSpec == Spec /\ (\A t \in Threads : WF_vars(ThreadStep(t))) /\ WF_vars(OwnerStep)

--------------------------------------------------------------------------------
(* Every variable has its type; no counter but a closed one passes the     *)
(* number of relations.                                                    *)
FilterTypeOK ==
    /\ completed \in [Level -> 0..NRels \cup {SizeMax}]
    /\ scheduled \in [Level -> 0..NRels]
    /\ x \in [Slots -> -1..Levels]
    /\ active \in [Level -> 0..Cardinality(Threads)]
    /\ rels \in [Slots -> -1..NRels - 1]
    /\ nrels \in 0..NRels /\ closing \in 0..Levels + 1
    /\ slot \in [Threads -> Slots \cup {NoSlot}]
    /\ handled \in [Level -> SUBSET (-1..NRels - 1)]

(***************************************************************************)
(* "scheduled_0 >= ... >= completed_{n-1} >= scheduled_0 - SIZE_BUF_REL":  *)
(* the invariant written next to the counters, for the levels that drain() *)
(* has not closed.  Each counter is under another mutex.                   *)
(***************************************************************************)
PipelineOrder ==
    /\ FilterTypeOK
    /\ \A k \in Level : completed[k] # SizeMax => completed[k] <= scheduled[k]
    /\ \A k \in 1..Levels : scheduled[k] <= completed[k - 1]
    /\ \A k \in 1..Levels : scheduled[k] <= scheduled[k - 1]
    /\ scheduled[0] <= completed[Levels] + Size

(***************************************************************************)
(* A level gets a relation once, and after the level before it: whatever a *)
(* thread is about to work on is untouched by its own level and was        *)
(* handled by the previous one, and the owner only overwrites a slot whose *)
(* relation the last level has handled.                                    *)
(***************************************************************************)
OnceAndInOrder ==
    \A t \in Threads : pc[t] = "work" =>
        LET k == LevelOfThread(t)
            r == rels[slot[t]]
        IN  /\ t = Owner => r = -1 \/ r \in handled[Levels]
            /\ t # Owner => r \in handled[k - 1] \ handled[k]
            /\ \A u \in Threads \ {t} : slot[u] # slot[t]

(***************************************************************************)
(* The relation whose slot a thread hands to complete() is found again: it *)
(* is the one with this number among the active relations, no matter how   *)
(* far other threads have moved completed[k] since it was scheduled.       *)
(***************************************************************************)
IndexRecovered ==
    \A t \in Threads : pc[t] = "complete" =>
        /\ AbsoluteIndex(slot[t], completed[LevelOfThread(t)])
             = Cardinality({a \in Active : a < rels[slot[t]]})
        /\ x[slot[t]] = LevelOfThread(t) - 1

(***************************************************************************)
(* Once a level is closed its threads are gone and every active relation   *)
(* has passed it: the termination marker overtakes no relation, although   *)
(* completed[k] may lag behind the slots that are completed.               *)
(***************************************************************************)
ClosedMeansHandled ==
    \A k \in Level : completed[k] = SizeMax =>
        /\ handled[k] = Active
        /\ \A t \in Workers : LevelOf[t] = k => pc[t] = "end"

(* The pipeline ends: no thread is left asleep on bored[k].                *)
FilterEnds == <>AllEnded
================================================================================
