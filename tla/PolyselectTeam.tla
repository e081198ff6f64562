--------------------------- MODULE PolyselectTeam ---------------------------
(***************************************************************************)
(* A team of threads of polynomial selection: thread_loop() of             *)
(* polyselect.cpp with the counters and condition variables of             *)
(* polyselect_thread_team.cpp.  The last thread that enters the sync zone  *)
(* leads: it takes the next leading coefficient ad, posts a script of      *)
(* tasks to the threads in the zone and winds the zone down.  A task cuts  *)
(* the primes into one share per thread; it is "plain" (the roots, the     *)
(* inversions) or has a "barrier" in the middle (the collision searches,   *)
(* which may leave matches to be processed later, outside of the zone).    *)
(* All counters are guarded by the team lock.  An action is what a thread  *)
(* does up to the next place where it may lose the lock; a thread with     *)
(* lock = t keeps the lock at its end.  pthread_cond_wait() returns only   *)
(* after a broadcast: the waits of i_am_ready() and leave_sync_zone() do   *)
(* not test a condition again and would not survive a spurious wakeup.     *)
(***************************************************************************)
EXTENDS Integers, FiniteSets, Sequences

CONSTANTS Threads,  \* the threads of the team
          Script,   \* the tasks of one ad: a sequence of "plain" and "barrier"
          idx_max,  \* how many ad there are
          MaxJobs,  \* bound: matches that are found in all
          NONE

ASSUME TeamAssumption ==
    /\ IsFiniteSet(Threads) /\ NONE \notin Threads
    /\ Script \in Seq({"plain", "barrier"}) /\ Script # <<>>
    /\ idx_max \in Nat /\ MaxJobs \in Nat

VARIABLES ready, sync, async, sync2, roaming,  \* team->count
          expected, posted,  \* team->task: how many threads it is for, and its number
          done, idx,         \* team->done, main->idx
          jobs, own, found,  \* league->async_jobs, thread->async_jobs, matches so far
          barIn, barOut, barCount,  \* roaming_barrier: arrived, let out, its size
          lock, asleep,      \* holder of the team lock, threads in pthread_cond_wait
          pc, index_in_sync_zone,
          step, mine, quit   \* the leader's place in the script, the task that t is
                             \* working on, and whether t leaves the loop after the zone

counters == <<ready, sync, async, sync2, roaming>>
taskVars == <<expected, posted, done, idx>>
jobVars  == <<jobs, own, found>>
barVars  == <<barIn, barOut, barCount>>
local    == <<index_in_sync_zone, step, mine, quit>>
vars     == <<counters, taskVars, jobVars, barVars, lock, asleep, pc, local>>

Size == Cardinality(Threads)

(* polyselect_thread_team_init() and the creation of the threads.          *)
Init ==
    /\ ready = 0 /\ sync = 0 /\ async = 0 /\ sync2 = 0 /\ roaming = 0
    /\ expected = 0 /\ posted = 0 /\ done = FALSE /\ idx = 0
    /\ jobs = 0 /\ own = [t \in Threads |-> 0] /\ found = 0
    /\ barIn = {} /\ barOut = {} /\ barCount = 0
    /\ lock = NONE /\ asleep = {}
    /\ pc = [t \in Threads |-> "start"]
    /\ index_in_sync_zone = [t \in Threads |-> 0]
    /\ step = [t \in Threads |-> 0] /\ mine = [t \in Threads |-> 0]
    /\ quit = [t \in Threads |-> FALSE]

Kind(n) == Script[((n - 1) % Len(Script)) + 1]

(* t has the lock, or can have it, and is not asleep.                      *)
Runs(t) == lock \in {NONE, t} /\ t \notin asleep

To(t, p)  == pc' = [pc EXCEPT ![t] = p]
Keep(t)   == lock' = t
Unlock    == lock' = NONE

(* pthread_cond_broadcast: the threads that sleep at p get up.             *)
Woken(p)  == {t \in asleep : pc[t] = p}

(* pthread_cond_wait at p: releases the lock.                              *)
Sleep(t, p, others) == To(t, p) /\ asleep' = others \cup {t} /\ Unlock

-----------------------------------------------------------------------------
(* polyselect_thread_team_i_am_ready().                                    *)
IAmReady(t) ==
    /\ pc[t] = "start" /\ Runs(t)
    /\ ready' = ready + 1
    /\ IF ready + 1 = Size
         THEN asleep' = asleep \ Woken("ready_full") /\ To(t, "loop") /\ Keep(t)
         ELSE Sleep(t, "ready_full", asleep)
    /\ UNCHANGED <<sync, async, sync2, roaming, taskVars, jobVars, barVars, local>>

(* The head of the loop, after a wait without a condition to test again.   *)
AtLoop(t) == pc[t] \in {"loop", "ready_full", "sync_empty"} /\ ~quit[t] /\ Runs(t)

(* A match is taken from the league's list: enter_async, unlock.           *)
TakeJob(t) ==
    /\ AtLoop(t) /\ jobs > 0
    /\ jobs' = jobs - 1
    /\ async' = async + 1 /\ ready' = ready - 1
    /\ To(t, "match") /\ Unlock
    /\ UNCHANGED <<sync, sync2, roaming, taskVars, own, found, barVars, asleep, local>>

LeaveAsync(t) ==
    /\ pc[t] = "match" /\ Runs(t)
    /\ async' = async - 1 /\ ready' = ready + 1
    /\ To(t, "loop") /\ Keep(t)
    /\ UNCHANGED <<sync, sync2, roaming, taskVars, jobVars, barVars, asleep, local>>

(* "schedule work only when we're __last__ to enter this state".           *)
Leads == ready - 1 = 0 /\ sync2 = 0

(* enter_sync_zone(): t gets the next index, then leaves for good when the *)
(* team is done, leads, or waits for a task.                               *)
EnterSyncZone(t) ==
    /\ AtLoop(t) /\ jobs = 0
    /\ ready' = ready - 1 /\ sync' = sync + 1
    /\ index_in_sync_zone' = [index_in_sync_zone EXCEPT ![t] = sync]
    /\ \/ done /\ To(t, "exited") /\ Unlock /\ UNCHANGED <<asleep, done, idx, step, quit>>
       \/ /\ ~done /\ Leads /\ idx < idx_max
          /\ idx' = idx + 1
          /\ step' = [step EXCEPT ![t] = 0]
          /\ To(t, "lead") /\ Keep(t) /\ UNCHANGED <<asleep, done, quit>>
       \/ /\ ~done /\ Leads /\ idx = idx_max
          /\ done' = TRUE
          /\ step' = [step EXCEPT ![t] = Len(Script)]
          /\ quit' = [quit EXCEPT ![t] = TRUE]
          /\ To(t, "lead") /\ Keep(t) /\ UNCHANGED <<asleep, idx>>
       \/ ~done /\ ~Leads /\ Sleep(t, "job", asleep) /\ UNCHANGED <<done, idx, step, quit>>
    /\ UNCHANGED <<async, sync2, roaming, expected, posted, jobVars, barVars, mine>>

(* enter_sync_task and enter_roaming, then the lock is released.           *)
EnterTask(t, n) ==
    /\ sync2' = sync2 + 1 /\ roaming' = roaming + 1
    /\ mine' = [mine EXCEPT ![t] = n]
    /\ Unlock

(* post_work() by the leader, up to the unlocked section of its own share. *)
(* barrier_resize_unlocked() finds the barrier empty: see LeaderAlone.     *)
PostWork(t) ==
    /\ pc[t] = "lead" /\ Runs(t) /\ step[t] < Len(Script)
    /\ expected' = sync /\ posted' = posted + 1
    /\ barCount' = sync
    /\ asleep' = asleep \ Woken("job")
    /\ EnterTask(t, posted + 1)
    /\ step' = [step EXCEPT ![t] = @ + 1]
    /\ To(t, "lead_share")
    /\ UNCHANGED <<ready, sync, async, done, idx, jobVars, barIn, barOut, index_in_sync_zone,
                   quit>>

(* A thread that waits for a task gets the lock: the stop, a task that it  *)
(* is too late for, or a task.                                             *)
WakeForJob(t) ==
    /\ pc[t] = "job" /\ Runs(t)
    /\ \/ expected = 0 /\ To(t, "leave") /\ Keep(t) /\ UNCHANGED <<asleep, sync2, roaming, mine>>
       \/ /\ expected # 0
          /\ IF expected > index_in_sync_zone[t]
               THEN EnterTask(t, posted) /\ To(t, "share") /\ UNCHANGED asleep
               ELSE Sleep(t, "job", asleep) /\ UNCHANGED <<sync2, roaming, mine>>
    /\ UNCHANGED <<ready, sync, async, taskVars, jobVars, barVars, index_in_sync_zone, step,
                   quit>>

-----------------------------------------------------------------------------
(* roaming_barrier(): the barrier of barrier.c as AbstractBarrier has it,  *)
(* for barCount threads; a thread that comes again waits until the others  *)
(* are out.  The last to come does not sleep.                              *)
InShare(t) == pc[t] \in {"share", "lead_share"}
PastBarrier(t) == IF pc[t] \in {"share", "at_barrier"} THEN "shared" ELSE "lead_shared"

RoamingBarrier(t) ==
    /\ InShare(t) /\ Kind(mine[t]) = "barrier" /\ Runs(t) /\ barOut = {}
    /\ IF Cardinality(barIn) + 1 = barCount
         THEN barOut' = barIn /\ barIn' = {} /\ To(t, PastBarrier(t))
         ELSE /\ barIn' = barIn \cup {t} /\ UNCHANGED barOut
              /\ To(t, IF pc[t] = "share" THEN "at_barrier" ELSE "lead_at_barrier")
    /\ UNCHANGED <<counters, taskVars, jobVars, barCount, lock, asleep, local>>

LeaveBarrier(t) ==
    /\ t \in barOut /\ Runs(t)
    /\ barOut' = barOut \ {t}
    /\ To(t, PastBarrier(t))
    /\ UNCHANGED <<counters, taskVars, jobVars, barIn, barCount, lock, asleep, local>>

(* Mutant: leave_sync_task() is forgotten.                                 *)
ShareDoneStays(t) ==
    /\ Runs(t)
    /\ InShare(t) \/ pc[t] \in {"shared", "lead_shared"}
    /\ roaming' = roaming - 1
    /\ UNCHANGED <<ready, sync, async, sync2, taskVars, jobVars, barVars, local>>

(* The end of a share: matches go to the thread's own list, leave_roaming. *)
ShareDone(t) ==
    /\ Runs(t)
    /\ \/ InShare(t) /\ Kind(mine[t]) = "plain" /\ UNCHANGED <<own, found>>
       \/ /\ pc[t] \in {"shared", "lead_shared"}
          /\ \/ UNCHANGED <<own, found>>
             \/ found < MaxJobs /\ found' = found + 1 /\ own' = [own EXCEPT ![t] = @ + 1]
    /\ roaming' = roaming - 1
    /\ sync2' = sync2 - 1
    /\ UNCHANGED <<ready, sync, async, taskVars, jobs, barVars, local>>

(* A worker: leave_sync_task(), then it waits for the next task.           *)
WorkerDone(t) ==
    /\ pc[t] \in {"share", "shared"} /\ ShareDone(t)
    /\ Sleep(t, "job", IF sync2 - 1 = 0 THEN asleep \ Woken("sync2") ELSE asleep)

(* Mutant: the leader does not wait for the others.                        *)
LeaderHurries(t) ==
    /\ pc[t] \in {"lead_share", "lead_shared"} /\ ShareDone(t)
    /\ To(t, "lead") /\ Keep(t) /\ UNCHANGED asleep

(* The leader at the end of post_work(): waits until sync2 = 0.            *)
LeaderDone(t) ==
    /\ pc[t] \in {"lead_share", "lead_shared"} /\ ShareDone(t)
    /\ IF sync2 - 1 = 0 THEN To(t, "lead") /\ Keep(t) /\ UNCHANGED asleep
                        ELSE Sleep(t, "sync2", asleep)

WakeForSync2(t) ==
    /\ pc[t] = "sync2" /\ Runs(t)
    /\ IF sync2 = 0 THEN To(t, "lead") /\ Keep(t) /\ UNCHANGED asleep
                    ELSE Sleep(t, "sync2", asleep)
    /\ UNCHANGED <<counters, taskVars, jobVars, barVars, local>>

(* post_work_stop(): its loop on sync2 is not entered (LeaderAlone).       *)
PostWorkStop(t) ==
    /\ pc[t] = "lead" /\ Runs(t) /\ step[t] = Len(Script)
    /\ expected' = 0
    /\ asleep' = asleep \ Woken("job")
    /\ To(t, "leave") /\ Keep(t)
    /\ UNCHANGED <<counters, posted, done, idx, jobVars, barVars, local>>

(* Mutant: the matches of the thread stay in its own list.                 *)
LeaveWithMatches(t) ==
    /\ pc[t] = "leave" /\ Runs(t)
    /\ ready' = ready + 1 /\ sync' = sync - 1
    /\ IF sync - 1 = 0
         THEN asleep' = asleep \ Woken("sync_empty") /\ To(t, "loop") /\ Keep(t)
         ELSE Sleep(t, "sync_empty", asleep)
    /\ UNCHANGED <<async, sync2, roaming, taskVars, jobVars, barVars, local>>

(* The thread's matches go to the league's list, then leave_sync_zone().   *)
LeaveSyncZone(t) ==
    /\ pc[t] = "leave" /\ Runs(t)
    /\ jobs' = jobs + own[t] /\ own' = [own EXCEPT ![t] = 0]
    /\ ready' = ready + 1 /\ sync' = sync - 1
    /\ IF sync - 1 = 0
         THEN asleep' = asleep \ Woken("sync_empty") /\ To(t, "loop") /\ Keep(t)
         ELSE Sleep(t, "sync_empty", asleep)
    /\ UNCHANGED <<async, sync2, roaming, taskVars, found, barVars, local>>

(* The leader that found no more ad leaves the loop after the zone.        *)
Exit(t) ==
    /\ pc[t] \in {"loop", "sync_empty"} /\ quit[t] /\ Runs(t)
    /\ To(t, "exited") /\ Unlock
    /\ UNCHANGED <<counters, taskVars, jobVars, barVars, asleep, local>>

ThreadStep(t) ==
    \/ IAmReady(t) \/ TakeJob(t) \/ LeaveAsync(t) \/ EnterSyncZone(t) \/ PostWork(t)
    \/ WakeForJob(t) \/ RoamingBarrier(t) \/ LeaveBarrier(t) \/ WorkerDone(t)
    \/ LeaderDone(t) \/ WakeForSync2(t) \/ PostWorkStop(t) \/ LeaveSyncZone(t) \/ Exit(t)

Next == \E t \in Threads : ThreadStep(t)

(* The system runs every thread, and every thread that waits for the lock  *)
(* gets it in the end although others take it again and again.             *)
Spec == Init /\ [][Next]_vars /\ \A t \in Threads : SF_vars(ThreadStep(t))

-----------------------------------------------------------------------------
(* The counters are never negative: they are unsigned in the code.         *)
TeamTypeOK ==
    /\ {ready, sync, async, sync2, roaming, expected, posted, idx, jobs, found, barCount} \subseteq Nat
    /\ own \in [Threads -> Nat] /\ index_in_sync_zone \in [Threads -> Nat]
    /\ step \in [Threads -> 0 .. Len(Script)] /\ mine \in [Threads -> Nat]
    /\ quit \in [Threads -> BOOLEAN] /\ done \in BOOLEAN
    /\ barIn \subseteq Threads /\ barOut \subseteq Threads /\ asleep \subseteq Threads
    /\ lock \in Threads \cup {NONE}

(* Where a thread is counted.  A thread that has left the loop stays       *)
(* counted where it was: as ready when it led the last time (quit), in     *)
(* sync otherwise.                                                         *)
At(places) == {t \in Threads : pc[t] \in places}
InTask  == At({"share", "at_barrier", "shared", "lead_share", "lead_at_barrier", "lead_shared"})
InZone  == InTask \cup At({"lead", "sync2", "job", "leave"}) \cup {t \in At({"exited"}) : ~quit[t]}
InMatch == At({"match"})
IsReady == At({"ready_full", "loop", "sync_empty"}) \cup {t \in At({"exited"}) : quit[t]}

(* polyselect_thread_team.hpp:82-89: "At any point inside the main loop,   *)
(* we have the invariant: count.ready + count.sync + count.async == size", *)
(* "we always has roaming <= sync2 <= sync": the counters agree with where *)
(* the threads are, in every interleaving, late matches and exits          *)
(* included.                                                               *)
CountersExact ==
    /\ ready = Cardinality(IsReady) /\ async = Cardinality(InMatch)
    /\ sync = Cardinality(InZone)
    /\ sync2 = Cardinality(InTask) /\ roaming = sync2

Leaders == {t \in Threads : pc[t] \in {"lead", "lead_share", "lead_at_barrier", "lead_shared", "sync2"}}

(* polyselect.cpp:547: "we're effectively the only one in the team, here,  *)
(* so we can safely touch these unlocked": a thread that comes back from a *)
(* match while an ad is in progress does not start another ad.  The code   *)
(* does not keep this with three threads (run team_two_leaders).           *)
OneLeader == Cardinality(Leaders) <= 1

(* Between two tasks, and when it posts the stop, the leader has the lock, *)
(* nobody is in a task and the barrier is empty                            *)
(* (polyselect_thread_team.cpp:283-289), so that barrier_resize_unlocked() *)
(* may change it.  Holds for any number of leaders.                        *)
LeaderAlone ==
    \A t \in Threads : pc[t] = "lead" =>
        /\ lock = t /\ sync2 = 0 /\ roaming = 0
        /\ barIn = {} /\ barOut = {}

AllExited == \A t \in Threads : pc[t] = "exited"

(* No match is left in a list when the team is gone: the thread that moved *)
(* matches to the league's list looks at the list again before it leaves.  *)
NoMatchLost == AllExited => jobs = 0 /\ \A t \in Threads : own[t] = 0

(* polyselect_thread_team.cpp:400-402: "we want the full wind-down         *)
(* sequence to terminate before we can start entering threads in a sync    *)
(* zone again": the wait for the empty zone is over in the end, nobody     *)
(* sleeps for ever on it and all threads leave.  The code does not keep    *)
(* this with three threads (run team_ends).                                *)
TeamEnds == <>AllExited
=============================================================================
