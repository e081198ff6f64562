------------------------ MODULE PolyselectTeamProofs ------------------------
(***************************************************************************)
(* The counters of a team of polynomial selection are right for a team of  *)
(* any size, any script, any number of ad and of matches - also in the     *)
(* executions in which two threads lead or the team never ends.  Every     *)
(* action moves one thread to another place; CountMove turns that into a   *)
(* change of the four groups in which threads are counted.  The inductive  *)
(* invariant is CountersExact with the types of pc and quit and the fact   *)
(* that a thread in the barrier is at the barrier.                         *)
(*                                                                         *)
(* LInv adds that a leader is alone and where matches can be: in the list  *)
(* while somebody is in the loop to take them, or with a thread that has a *)
(* task in hand, which cannot be the last to leave.                        *)
(***************************************************************************)
EXTENDS PolyselectTeam, FiniteSetTheorems, TLAPS

Places == {"start", "ready_full", "loop", "match", "lead", "lead_share", "lead_at_barrier",
           "lead_shared", "sync2", "job", "share", "at_barrier", "shared", "leave",
           "sync_empty", "exited"}

(* A thread in the barrier is at the barrier.                              *)
BarrierKept ==
    /\ barIn \subseteq Threads /\ barOut \subseteq Threads /\ barIn \cap barOut = {}
    /\ \A t \in barIn \cup barOut : pc[t] \in {"at_barrier", "lead_at_barrier"}

TInv ==
    /\ pc \in [Threads -> Places] /\ quit \in [Threads -> BOOLEAN]
    /\ BarrierKept
    /\ CountersExact

(* Where a thread at place p is counted; q says whether it led last.       *)
TaskAt(p)     == p \in {"share", "at_barrier", "shared", "lead_share", "lead_at_barrier", "lead_shared"}
ZoneAt(p, q)  == TaskAt(p) \/ p \in {"lead", "sync2", "job", "leave"} \/ (p = "exited" /\ ~q)
ReadyAt(p, q) == p \in {"ready_full", "loop", "sync_empty"} \/ (p = "exited" /\ q)
One(b)        == IF b THEN 1 ELSE 0

(* The counters follow a move of t to p.                                   *)
Recounted(t, p) ==
    /\ ready' = ready + One(ReadyAt(p, quit'[t])) - One(ReadyAt(pc[t], quit[t]))
    /\ async' = async + One(p = "match") - One(pc[t] = "match")
    /\ sync' = sync + One(ZoneAt(p, quit'[t])) - One(ZoneAt(pc[t], quit[t]))
    /\ sync2' = sync2 + One(TaskAt(p)) - One(TaskAt(pc[t]))
    /\ roaming' = roaming + One(TaskAt(p)) - One(TaskAt(pc[t]))

(* Two groups that differ in t at most.                                    *)
LEMMA DifferInOne ==
    ASSUME NEW A \in SUBSET Threads, NEW B \in SUBSET Threads, NEW t \in Threads,
           \A u \in Threads \ {t} : u \in A <=> u \in B
    PROVE  /\ Cardinality(A) \in Nat /\ Cardinality(B) \in Nat
           /\ Cardinality(B) = Cardinality(A) + One(t \in B) - One(t \in A)
  <1>1. IsFiniteSet(A) /\ IsFiniteSet(B) BY TeamAssumption, FS_Subset
  <1>2. A \ {t} = B \ {t} OBVIOUS
  <1>3. /\ Cardinality(A) \in Nat /\ Cardinality(B) \in Nat
        /\ Cardinality(A \ {t}) = Cardinality(A) - One(t \in A)
        /\ Cardinality(B \ {t}) = Cardinality(B) - One(t \in B)
    BY <1>1, FS_CardinalityType, FS_RemoveElement DEF One
  <1>4. One(t \in A) \in {0, 1} /\ One(t \in B) \in {0, 1} BY DEF One
  <1>5. Cardinality(A) - One(t \in A) = Cardinality(B) - One(t \in B) BY <1>2, <1>3
  <1>6. QED BY <1>3, <1>4, <1>5

(* Thread t moves to place p: what becomes of the four groups.             *)
LEMMA CountMove ==
    ASSUME TInv, NEW t \in Threads, NEW p \in Places, To(t, p),
           quit' \in [Threads -> BOOLEAN], \A u \in Threads \ {t} : quit'[u] = quit[u]
    PROVE  /\ {ready, async, sync, sync2, roaming} \subseteq Nat
           /\ Cardinality(IsReady)' = ready + One(ReadyAt(p, quit'[t])) - One(ReadyAt(pc[t], quit[t]))
           /\ Cardinality(InMatch)' = async + One(p = "match") - One(pc[t] = "match")
           /\ Cardinality(InZone)' = sync + One(ZoneAt(p, quit'[t])) - One(ZoneAt(pc[t], quit[t]))
           /\ Cardinality(InTask)' = sync2 + One(TaskAt(p)) - One(TaskAt(pc[t]))
           /\ pc' \in [Threads -> Places]
  <1> USE DEF TInv, To
  <1>1. pc' \in [Threads -> Places] /\ pc'[t] = p /\ \A u \in Threads \ {t} : pc'[u] = pc[u]
    OBVIOUS
  <1>2. /\ IsReady \in SUBSET Threads /\ IsReady' \in SUBSET Threads
        /\ \A u \in Threads \ {t} : u \in IsReady <=> u \in IsReady'
        /\ t \in IsReady <=> ReadyAt(pc[t], quit[t])
        /\ t \in IsReady' <=> ReadyAt(p, quit'[t])
    BY <1>1, Zenon DEF IsReady, At, ReadyAt
  <1>3. /\ InMatch \in SUBSET Threads /\ InMatch' \in SUBSET Threads
        /\ \A u \in Threads \ {t} : u \in InMatch <=> u \in InMatch'
        /\ t \in InMatch <=> pc[t] = "match"
        /\ t \in InMatch' <=> p = "match"
    BY <1>1 DEF InMatch, At
  <1>4. /\ InTask \in SUBSET Threads /\ InTask' \in SUBSET Threads
        /\ \A u \in Threads \ {t} : u \in InTask <=> u \in InTask'
        /\ t \in InTask <=> TaskAt(pc[t])
        /\ t \in InTask' <=> TaskAt(p)
    BY <1>1 DEF InTask, At, TaskAt
  <1>5. /\ InZone \in SUBSET Threads /\ InZone' \in SUBSET Threads
        /\ \A u \in Threads \ {t} : u \in InZone <=> u \in InZone'
        /\ t \in InZone <=> ZoneAt(pc[t], quit[t])
        /\ t \in InZone' <=> ZoneAt(p, quit'[t])
    BY <1>1, <1>4, Zenon DEF InZone, At, ZoneAt
  <1>6. /\ Cardinality(IsReady') = Cardinality(IsReady) + One(t \in IsReady') - One(t \in IsReady)
        /\ Cardinality(IsReady) \in Nat
    BY <1>2, DifferInOne
  <1>7. /\ Cardinality(InMatch') = Cardinality(InMatch) + One(t \in InMatch') - One(t \in InMatch)
        /\ Cardinality(InMatch) \in Nat
    BY <1>3, DifferInOne
  <1>8. /\ Cardinality(InTask') = Cardinality(InTask) + One(t \in InTask') - One(t \in InTask)
        /\ Cardinality(InTask) \in Nat
    BY <1>4, DifferInOne
  <1>9. /\ Cardinality(InZone') = Cardinality(InZone) + One(t \in InZone') - One(t \in InZone)
        /\ Cardinality(InZone) \in Nat
    BY <1>5, DifferInOne
  <1>10. QED BY <1>1, <1>2, <1>3, <1>4, <1>5, <1>6, <1>7, <1>8, <1>9 DEF CountersExact, One

LEMMA TInvInit == Init => TInv
  <1> SUFFICES ASSUME Init PROVE TInv OBVIOUS
  <1>1. IsReady = {} /\ InMatch = {} /\ InTask = {} /\ InZone = {}
    BY DEF Init, IsReady, InMatch, InTask, InZone, At
  <1>2. CountersExact BY <1>1, FS_EmptySet DEF Init, CountersExact
  <1>3. QED BY <1>2 DEF Init, TInv, BarrierKept, Places

LEMMA CountersNat == ASSUME TInv PROVE {ready, async, sync, sync2, roaming} \subseteq Nat
  <1>1. \A S \in SUBSET Threads : Cardinality(S) \in Nat
    BY TeamAssumption, FS_Subset, FS_CardinalityType
  <1>2. /\ IsReady \in SUBSET Threads /\ InMatch \in SUBSET Threads
        /\ InZone \in SUBSET Threads /\ InTask \in SUBSET Threads
    BY DEF IsReady, InMatch, InZone, InTask, At
  <1>3. QED BY <1>1, <1>2 DEF TInv, CountersExact

(* A move that the counters follow keeps the invariant.                    *)
LEMMA Moved ==
    ASSUME TInv, NEW t \in Threads, NEW p \in Places, To(t, p),
           quit' \in [Threads -> BOOLEAN], \A u \in Threads \ {t} : quit'[u] = quit[u],
           Recounted(t, p), BarrierKept'
    PROVE  TInv'
  <1>1. roaming = sync2 BY DEF TInv, CountersExact
  <1>2. CountersExact' BY <1>1, CountMove DEF CountersExact, Recounted
  <1>3. QED BY <1>2, CountMove DEF TInv

LEMMA IAmReadyCounts == ASSUME TInv, NEW t \in Threads, IAmReady(t) PROVE TInv'
  <1> DEFINE p == IF ready + 1 = Size THEN "loop" ELSE "ready_full"
  <1>1. p \in Places /\ To(t, p) BY DEF Places, IAmReady, Sleep, barVars, local
  <1>2. quit' = quit BY DEF IAmReady, Sleep, barVars, local
  <1>3. ~ReadyAt(pc[t], quit[t]) /\ pc[t] # "match" /\ ~ZoneAt(pc[t], quit[t]) /\ ~TaskAt(pc[t])
    BY DEF ReadyAt, ZoneAt, TaskAt, IAmReady, Sleep, barVars, local
  <1>4. ReadyAt(p, quit'[t]) /\ p # "match" /\ ~ZoneAt(p, quit'[t]) /\ ~TaskAt(p)
    BY <1>2 DEF ReadyAt, ZoneAt, TaskAt, IAmReady, Sleep, barVars, local
  <1>5. Recounted(t, p) BY <1>3, <1>4, CountersNat DEF Recounted, One, IAmReady, Sleep, barVars, local
  <1>6. BarrierKept' BY <1>3 DEF TInv, BarrierKept, To, TaskAt, ZoneAt, IAmReady, Sleep, barVars, local
  <1>7. QED BY <1>1, <1>2, <1>5, <1>6, Moved DEF TInv

LEMMA TakeJobCounts == ASSUME TInv, NEW t \in Threads, TakeJob(t) PROVE TInv'
  <1> DEFINE p == "match"
  <1>1. p \in Places /\ To(t, p) BY DEF Places, TakeJob, AtLoop, barVars, local
  <1>2. quit' = quit BY DEF TakeJob, AtLoop, barVars, local
  <1>3. ReadyAt(pc[t], quit[t]) /\ pc[t] # "match" /\ ~ZoneAt(pc[t], quit[t]) /\ ~TaskAt(pc[t])
    BY DEF ReadyAt, ZoneAt, TaskAt, TakeJob, AtLoop, barVars, local
  <1>4. ~ReadyAt(p, quit'[t]) /\ p = "match" /\ ~ZoneAt(p, quit'[t]) /\ ~TaskAt(p)
    BY <1>2 DEF ReadyAt, ZoneAt, TaskAt, TakeJob, AtLoop, barVars, local
  <1>5. Recounted(t, p) BY <1>3, <1>4, CountersNat DEF Recounted, One, TakeJob, AtLoop, barVars, local
  <1>6. BarrierKept' BY <1>3 DEF TInv, BarrierKept, To, TaskAt, ZoneAt, TakeJob, AtLoop, barVars, local
  <1>7. QED BY <1>1, <1>2, <1>5, <1>6, Moved DEF TInv

LEMMA LeaveAsyncCounts == ASSUME TInv, NEW t \in Threads, LeaveAsync(t) PROVE TInv'
  <1> DEFINE p == "loop"
  <1>1. p \in Places /\ To(t, p) BY DEF Places, LeaveAsync, barVars, local
  <1>2. quit' = quit BY DEF LeaveAsync, barVars, local
  <1>3. ~ReadyAt(pc[t], quit[t]) /\ pc[t] = "match" /\ ~ZoneAt(pc[t], quit[t]) /\ ~TaskAt(pc[t])
    BY DEF ReadyAt, ZoneAt, TaskAt, LeaveAsync, barVars, local
  <1>4. ReadyAt(p, quit'[t]) /\ p # "match" /\ ~ZoneAt(p, quit'[t]) /\ ~TaskAt(p)
    BY <1>2 DEF ReadyAt, ZoneAt, TaskAt, LeaveAsync, barVars, local
  <1>5. Recounted(t, p) BY <1>3, <1>4, CountersNat DEF Recounted, One, LeaveAsync, barVars, local
  <1>6. BarrierKept' BY <1>3 DEF TInv, BarrierKept, To, TaskAt, ZoneAt, LeaveAsync, barVars, local
  <1>7. QED BY <1>1, <1>2, <1>5, <1>6, Moved DEF TInv

LEMMA PostWorkCounts == ASSUME TInv, NEW t \in Threads, PostWork(t) PROVE TInv'
  <1> DEFINE p == "lead_share"
  <1>1. p \in Places /\ To(t, p) BY DEF Places, PostWork, EnterTask
  <1>2. quit' = quit BY DEF PostWork, EnterTask
  <1>3. ~ReadyAt(pc[t], quit[t]) /\ pc[t] # "match" /\ ZoneAt(pc[t], quit[t]) /\ ~TaskAt(pc[t])
    BY DEF ReadyAt, ZoneAt, TaskAt, PostWork, EnterTask
  <1>4. ~ReadyAt(p, quit'[t]) /\ p # "match" /\ ZoneAt(p, quit'[t]) /\ TaskAt(p)
    BY <1>2 DEF ReadyAt, ZoneAt, TaskAt, PostWork, EnterTask
  <1>5. Recounted(t, p) BY <1>3, <1>4, CountersNat DEF Recounted, One, PostWork, EnterTask
  <1>6. BarrierKept' BY <1>3 DEF TInv, BarrierKept, To, TaskAt, ZoneAt, PostWork, EnterTask
  <1>7. QED BY <1>1, <1>2, <1>5, <1>6, Moved DEF TInv

LEMMA WakeForSync2Counts == ASSUME TInv, NEW t \in Threads, WakeForSync2(t) PROVE TInv'
  <1> DEFINE p == IF sync2 = 0 THEN "lead" ELSE "sync2"
  <1>1. p \in Places /\ To(t, p) BY DEF Places, WakeForSync2, Sleep, barVars, local, counters
  <1>2. quit' = quit BY DEF WakeForSync2, Sleep, barVars, local, counters
  <1>3. ~ReadyAt(pc[t], quit[t]) /\ pc[t] # "match" /\ ZoneAt(pc[t], quit[t]) /\ ~TaskAt(pc[t])
    BY DEF ReadyAt, ZoneAt, TaskAt, WakeForSync2, Sleep, barVars, local, counters
  <1>4. ~ReadyAt(p, quit'[t]) /\ p # "match" /\ ZoneAt(p, quit'[t]) /\ ~TaskAt(p)
    BY <1>2 DEF ReadyAt, ZoneAt, TaskAt, WakeForSync2, Sleep, barVars, local, counters
  <1>5. Recounted(t, p) BY <1>3, <1>4, CountersNat DEF Recounted, One, WakeForSync2, Sleep, barVars, local, counters
  <1>6. BarrierKept' BY <1>3 DEF TInv, BarrierKept, To, TaskAt, ZoneAt, WakeForSync2, Sleep, barVars, local, counters
  <1>7. QED BY <1>1, <1>2, <1>5, <1>6, Moved DEF TInv

LEMMA PostWorkStopCounts == ASSUME TInv, NEW t \in Threads, PostWorkStop(t) PROVE TInv'
  <1> DEFINE p == "leave"
  <1>1. p \in Places /\ To(t, p) BY DEF Places, PostWorkStop, barVars, local, counters
  <1>2. quit' = quit BY DEF PostWorkStop, barVars, local, counters
  <1>3. ~ReadyAt(pc[t], quit[t]) /\ pc[t] # "match" /\ ZoneAt(pc[t], quit[t]) /\ ~TaskAt(pc[t])
    BY DEF ReadyAt, ZoneAt, TaskAt, PostWorkStop, barVars, local, counters
  <1>4. ~ReadyAt(p, quit'[t]) /\ p # "match" /\ ZoneAt(p, quit'[t]) /\ ~TaskAt(p)
    BY <1>2 DEF ReadyAt, ZoneAt, TaskAt, PostWorkStop, barVars, local, counters
  <1>5. Recounted(t, p) BY <1>3, <1>4, CountersNat DEF Recounted, One, PostWorkStop, barVars, local, counters
  <1>6. BarrierKept' BY <1>3 DEF TInv, BarrierKept, To, TaskAt, ZoneAt, PostWorkStop, barVars, local, counters
  <1>7. QED BY <1>1, <1>2, <1>5, <1>6, Moved DEF TInv

LEMMA LeaveSyncZoneCounts == ASSUME TInv, NEW t \in Threads, LeaveSyncZone(t) PROVE TInv'
  <1> DEFINE p == IF sync - 1 = 0 THEN "loop" ELSE "sync_empty"
  <1>1. p \in Places /\ To(t, p) BY DEF Places, LeaveSyncZone, Sleep, barVars, local
  <1>2. quit' = quit BY DEF LeaveSyncZone, Sleep, barVars, local
  <1>3. ~ReadyAt(pc[t], quit[t]) /\ pc[t] # "match" /\ ZoneAt(pc[t], quit[t]) /\ ~TaskAt(pc[t])
    BY DEF ReadyAt, ZoneAt, TaskAt, LeaveSyncZone, Sleep, barVars, local
  <1>4. ReadyAt(p, quit'[t]) /\ p # "match" /\ ~ZoneAt(p, quit'[t]) /\ ~TaskAt(p)
    BY <1>2 DEF ReadyAt, ZoneAt, TaskAt, LeaveSyncZone, Sleep, barVars, local
  <1>5. Recounted(t, p) BY <1>3, <1>4, CountersNat DEF Recounted, One, LeaveSyncZone, Sleep, barVars, local
  <1>6. BarrierKept' BY <1>3 DEF TInv, BarrierKept, To, TaskAt, ZoneAt, LeaveSyncZone, Sleep, barVars, local
  <1>7. QED BY <1>1, <1>2, <1>5, <1>6, Moved DEF TInv

LEMMA ExitCounts == ASSUME TInv, NEW t \in Threads, Exit(t) PROVE TInv'
  <1> DEFINE p == "exited"
  <1>1. p \in Places /\ To(t, p) BY DEF Places, Exit, barVars, local, counters
  <1>2. quit' = quit BY DEF Exit, barVars, local, counters
  <1>3. ReadyAt(pc[t], quit[t]) /\ pc[t] # "match" /\ ~ZoneAt(pc[t], quit[t]) /\ ~TaskAt(pc[t])
    BY DEF ReadyAt, ZoneAt, TaskAt, Exit, barVars, local, counters
  <1>4. ReadyAt(p, quit'[t]) /\ p # "match" /\ ~ZoneAt(p, quit'[t]) /\ ~TaskAt(p)
    BY <1>2 DEF ReadyAt, ZoneAt, TaskAt, Exit, barVars, local, counters
  <1>5. Recounted(t, p) BY <1>3, <1>4, CountersNat DEF Recounted, One, Exit, barVars, local, counters
  <1>6. BarrierKept' BY <1>3 DEF TInv, BarrierKept, To, TaskAt, ZoneAt, Exit, barVars, local, counters
  <1>7. QED BY <1>1, <1>2, <1>5, <1>6, Moved DEF TInv

LEMMA WorkerDoneCounts == ASSUME TInv, NEW t \in Threads, WorkerDone(t) PROVE TInv'
  <1> DEFINE p == "job"
  <1>1. p \in Places /\ To(t, p) BY DEF Places, WorkerDone, ShareDone, Sleep, InShare, barVars, local
  <1>2. quit' = quit BY DEF WorkerDone, ShareDone, Sleep, InShare, barVars, local
  <1>3. ~ReadyAt(pc[t], quit[t]) /\ pc[t] # "match" /\ ZoneAt(pc[t], quit[t]) /\ TaskAt(pc[t])
    BY DEF ReadyAt, ZoneAt, TaskAt, WorkerDone, ShareDone, Sleep, InShare, barVars, local
  <1>4. ~ReadyAt(p, quit'[t]) /\ p # "match" /\ ZoneAt(p, quit'[t]) /\ ~TaskAt(p)
    BY <1>2 DEF ReadyAt, ZoneAt, TaskAt, WorkerDone, ShareDone, Sleep, InShare, barVars, local
  <1>5. Recounted(t, p) BY <1>3, <1>4, CountersNat DEF Recounted, One, WorkerDone, ShareDone, Sleep, InShare, barVars, local
  <1>6. BarrierKept' BY <1>3 DEF TInv, BarrierKept, To, TaskAt, ZoneAt, WorkerDone, ShareDone, Sleep, InShare, barVars, local
  <1>7. QED BY <1>1, <1>2, <1>5, <1>6, Moved DEF TInv

LEMMA LeaderDoneCounts == ASSUME TInv, NEW t \in Threads, LeaderDone(t) PROVE TInv'
  <1> DEFINE p == IF sync2 - 1 = 0 THEN "lead" ELSE "sync2"
  <1>1. p \in Places /\ To(t, p) BY DEF Places, LeaderDone, ShareDone, Sleep, InShare, barVars, local
  <1>2. quit' = quit BY DEF LeaderDone, ShareDone, Sleep, InShare, barVars, local
  <1>3. ~ReadyAt(pc[t], quit[t]) /\ pc[t] # "match" /\ ZoneAt(pc[t], quit[t]) /\ TaskAt(pc[t])
    BY DEF ReadyAt, ZoneAt, TaskAt, LeaderDone, ShareDone, Sleep, InShare, barVars, local
  <1>4. ~ReadyAt(p, quit'[t]) /\ p # "match" /\ ZoneAt(p, quit'[t]) /\ ~TaskAt(p)
    BY <1>2 DEF ReadyAt, ZoneAt, TaskAt, LeaderDone, ShareDone, Sleep, InShare, barVars, local
  <1>5. Recounted(t, p) BY <1>3, <1>4, CountersNat DEF Recounted, One, LeaderDone, ShareDone, Sleep, InShare, barVars, local
  <1>6. BarrierKept' BY <1>3 DEF TInv, BarrierKept, To, TaskAt, ZoneAt, LeaderDone, ShareDone, Sleep, InShare, barVars, local
  <1>7. QED BY <1>1, <1>2, <1>5, <1>6, Moved DEF TInv

LEMMA EnterSyncZoneCounts == ASSUME TInv, NEW t \in Threads, EnterSyncZone(t) PROVE TInv'
  <1> USE DEF EnterSyncZone, AtLoop, Sleep, barVars
  <1>1. PICK p \in {"exited", "lead", "job"} : To(t, p) /\ (p = "exited" => quit' = quit)
    OBVIOUS
  <1>2. quit' \in [Threads -> BOOLEAN] /\ \A u \in Threads \ {t} : quit'[u] = quit[u]
    BY DEF TInv
  <1>3. p \in Places BY DEF Places
  <1>4. /\ ReadyAt(pc[t], quit[t]) /\ ~ReadyAt(p, quit'[t]) /\ pc[t] # "match" /\ p # "match"
        /\ ~ZoneAt(pc[t], quit[t]) /\ ZoneAt(p, quit'[t]) /\ ~TaskAt(pc[t]) /\ ~TaskAt(p)
    BY <1>1 DEF ReadyAt, ZoneAt, TaskAt
  <1>5. Recounted(t, p) BY <1>4, CountersNat DEF Recounted, One
  <1>6. BarrierKept' BY <1>1 DEF TInv, BarrierKept, To
  <1>7. QED BY <1>1, <1>2, <1>3, <1>5, <1>6, Moved

LEMMA WakeForJobCounts == ASSUME TInv, NEW t \in Threads, WakeForJob(t) PROVE TInv'
  <1> USE DEF WakeForJob, Sleep, EnterTask, barVars
  <1>1. PICK p \in {"leave", "job", "share"} :
            /\ To(t, p)
            /\ sync2' = sync2 + One(p = "share") /\ roaming' = roaming + One(p = "share")
    BY CountersNat DEF One
  <1>2. quit' = quit /\ p \in Places BY DEF Places
  <1>3. /\ ~ReadyAt(pc[t], quit[t]) /\ ~ReadyAt(p, quit'[t]) /\ pc[t] # "match" /\ p # "match"
        /\ ZoneAt(pc[t], quit[t]) /\ ZoneAt(p, quit'[t])
        /\ ~TaskAt(pc[t]) /\ (TaskAt(p) <=> p = "share")
    BY <1>1 DEF ReadyAt, ZoneAt, TaskAt
  <1>4. Recounted(t, p) BY <1>1, <1>3, CountersNat DEF Recounted, One
  <1>5. BarrierKept' BY <1>1 DEF TInv, BarrierKept, To
  <1>6. QED BY <1>1, <1>2, <1>4, <1>5, Moved DEF TInv

LEMMA RoamingBarrierCounts == ASSUME TInv, NEW t \in Threads, RoamingBarrier(t) PROVE TInv'
  <1> USE DEF RoamingBarrier, InShare, PastBarrier
  <1>1. PICK p \in {"shared", "lead_shared", "at_barrier", "lead_at_barrier"} : To(t, p)
    OBVIOUS
  <1>2. quit' = quit /\ p \in Places BY DEF Places, local
  <1>3. /\ ~ReadyAt(pc[t], quit[t]) /\ ~ReadyAt(p, quit'[t]) /\ pc[t] # "match" /\ p # "match"
        /\ ZoneAt(pc[t], quit[t]) /\ ZoneAt(p, quit'[t]) /\ TaskAt(pc[t]) /\ TaskAt(p)
    BY DEF ReadyAt, ZoneAt, TaskAt
  <1>4. Recounted(t, p) BY <1>3, CountersNat DEF Recounted, One, counters
  <1>5. BarrierKept' BY DEF TInv, BarrierKept, To
  <1>6. QED BY <1>1, <1>2, <1>4, <1>5, Moved DEF TInv

LEMMA LeaveBarrierCounts == ASSUME TInv, NEW t \in Threads, LeaveBarrier(t) PROVE TInv'
  <1> USE DEF LeaveBarrier, PastBarrier
  <1>1. PICK p \in {"shared", "lead_shared"} : To(t, p) OBVIOUS
  <1>2. quit' = quit /\ p \in Places BY DEF Places, local
  <1>3. pc[t] \in {"at_barrier", "lead_at_barrier"} BY DEF TInv, BarrierKept
  <1>4. /\ ~ReadyAt(pc[t], quit[t]) /\ ~ReadyAt(p, quit'[t]) /\ pc[t] # "match" /\ p # "match"
        /\ ZoneAt(pc[t], quit[t]) /\ ZoneAt(p, quit'[t]) /\ TaskAt(pc[t]) /\ TaskAt(p)
    BY <1>3 DEF ReadyAt, ZoneAt, TaskAt
  <1>5. Recounted(t, p) BY <1>4, CountersNat DEF Recounted, One, counters
  <1>6. BarrierKept' BY <1>1 DEF TInv, BarrierKept, To
  <1>7. QED BY <1>1, <1>2, <1>5, <1>6, Moved DEF TInv

LEMMA TInvNext == TInv /\ [Next]_vars => TInv'
  <1> SUFFICES ASSUME TInv, [Next]_vars PROVE TInv' OBVIOUS
  <1>1. CASE UNCHANGED vars
    BY <1>1 DEF vars, counters, barVars, local, TInv, BarrierKept, CountersExact, IsReady, InMatch, InTask,
                InZone, At
  <1>2. CASE Next
    BY <1>2, IAmReadyCounts, TakeJobCounts, LeaveAsyncCounts, EnterSyncZoneCounts,
       PostWorkCounts, WakeForJobCounts, RoamingBarrierCounts, LeaveBarrierCounts,
       WorkerDoneCounts, LeaderDoneCounts, WakeForSync2Counts, PostWorkStopCounts,
       LeaveSyncZoneCounts, ExitCounts
    DEF Next, ThreadStep
  <1>3. QED BY <1>1, <1>2

(* polyselect_thread_team.hpp:79-86 for every team: the five counters that *)
(* decide who leads, who waits and when the zone is empty always agree     *)
(* with where the threads are.                                             *)
THEOREM TeamCountersExact == Spec => []CountersExact
  <1>1. TInv => CountersExact BY DEF TInv
  <1>2. QED BY <1>1, TInvInit, TInvNext, PTL DEF Spec

-----------------------------------------------------------------------------
(***************************************************************************)
(* The leader and the matches, also for a team of any size.  A thread that *)
(* has matches in its own list is in the zone and comes back to the loop;  *)
(* the leader that found no more ad has none; and while the league's list  *)
(* is not empty there is a thread that will look at it again.              *)
(***************************************************************************)
MatchInv ==
    /\ \A t \in Threads : own[t] > 0 => ZoneAt(pc[t], FALSE) /\ pc[t] # "exited" /\ ~quit[t]
    /\ \A t \in Threads : quit[t] =>
          /\ pc[t] \in {"lead", "leave", "loop", "sync_empty", "exited"}
          /\ pc[t] = "lead" => step[t] = Len(Script)
    /\ jobs > 0 => \E t \in Threads : ~quit[t] /\ pc[t] # "exited"

LInv == TInv /\ TeamTypeOK /\ LeaderAlone /\ MatchInv

LEMMA LInvInit == Init => LInv
  <1> SUFFICES ASSUME Init PROVE LInv OBVIOUS
  <1>1. Len(Script) \in Nat BY TeamAssumption
  <1>2. TeamTypeOK
    <2>1. /\ ready \in Nat /\ sync \in Nat /\ async \in Nat /\ sync2 \in Nat /\ roaming \in Nat
          /\ expected \in Nat /\ posted \in Nat /\ idx \in Nat /\ jobs \in Nat /\ found \in Nat
          /\ barCount \in Nat
      BY DEF Init
    <2>2. /\ own \in [Threads -> Nat] /\ index_in_sync_zone \in [Threads -> Nat]
          /\ step \in [Threads -> 0 .. Len(Script)] /\ mine \in [Threads -> Nat]
      BY <1>1 DEF Init
    <2>3. quit \in [Threads -> BOOLEAN] BY DEF Init
    <2>4. done \in BOOLEAN BY DEF Init
    <2>5. /\ barIn \subseteq Threads /\ barOut \subseteq Threads /\ asleep \subseteq Threads
          /\ lock \in Threads \cup {NONE}
      BY DEF Init
    <2>6. QED BY <2>1, <2>2, <2>3, <2>4, <2>5 DEF TeamTypeOK
  <1>3. LeaderAlone /\ MatchInv BY DEF Init, LeaderAlone, MatchInv
  <1>4. QED BY <1>2, <1>3, TInvInit DEF LInv

LEMMA CountersNatNext ==
    ASSUME TInv' PROVE {ready, async, sync, sync2, roaming}' \subseteq Nat
  <1>1. \A S \in SUBSET Threads : Cardinality(S) \in Nat
    BY TeamAssumption, FS_Subset, FS_CardinalityType
  <1>2. /\ IsReady' \in SUBSET Threads /\ InMatch' \in SUBSET Threads
        /\ InZone' \in SUBSET Threads /\ InTask' \in SUBSET Threads
    BY DEF IsReady, InMatch, InZone, InTask, At
  <1>3. QED BY <1>1, <1>2 DEF TInv, CountersExact

LEMMA NatTypes ==
    ASSUME TeamTypeOK
    PROVE  /\ sync \in Nat /\ expected \in Nat /\ posted \in Nat /\ idx \in Nat
           /\ jobs \in Nat /\ found \in Nat /\ barCount \in Nat
           /\ own \in [Threads -> Nat] /\ index_in_sync_zone \in [Threads -> Nat]
           /\ step \in [Threads -> 0 .. Len(Script)] /\ mine \in [Threads -> Nat]
  <1>1. sync \in Nat /\ expected \in Nat /\ posted \in Nat /\ idx \in Nat BY Zenon DEF TeamTypeOK
  <1>2. jobs \in Nat /\ found \in Nat /\ barCount \in Nat BY Zenon DEF TeamTypeOK
  <1>3. QED BY <1>1, <1>2, Zenon DEF TeamTypeOK

LEMMA TypesKept ==
    ASSUME TInv, TInv', TeamTypeOK, NEW t \in Threads, ThreadStep(t)
    PROVE  TeamTypeOK'
  <1>1. ready' \in Nat /\ async' \in Nat /\ sync' \in Nat /\ sync2' \in Nat /\ roaming' \in Nat
    BY CountersNatNext
  <1>2. barIn' \subseteq Threads /\ barOut' \subseteq Threads BY DEF TInv, BarrierKept
  <1>3. quit' \in [Threads -> BOOLEAN] BY DEF TInv
  <1>4. Len(Script) \in Nat BY TeamAssumption
  <1> USE DEF ThreadStep, IAmReady, TakeJob, LeaveAsync, EnterSyncZone, AtLoop, PostWork,
        EnterTask, WakeForJob, RoamingBarrier, LeaveBarrier, WorkerDone, LeaderDone, ShareDone,
        WakeForSync2, PostWorkStop, LeaveSyncZone, Exit, Sleep, Keep, Unlock,
        counters, taskVars, jobVars, barVars, local
  <1>5. lock' \in Threads \cup {NONE} /\ asleep' \subseteq Threads
    BY DEF TeamTypeOK, Woken
  <1>6. \/ UNCHANGED <<expected, posted, barCount>>
        \/ expected' = sync /\ posted' = posted + 1 /\ barCount' = sync
        \/ expected' = 0 /\ UNCHANGED <<posted, barCount>>
    OBVIOUS
  <1>8. (UNCHANGED idx \/ idx' = idx + 1) /\ (UNCHANGED done \/ done' = TRUE) OBVIOUS
  <1>10. \/ UNCHANGED step
         \/ step' = [step EXCEPT ![t] = 0] \/ step' = [step EXCEPT ![t] = Len(Script)]
         \/ step[t] < Len(Script) /\ step' = [step EXCEPT ![t] = @ + 1]
    OBVIOUS
  <1>12. \/ UNCHANGED mine \/ mine' = [mine EXCEPT ![t] = posted]
         \/ mine' = [mine EXCEPT ![t] = posted + 1]
    OBVIOUS
  <1>14. \/ UNCHANGED index_in_sync_zone
         \/ index_in_sync_zone' = [index_in_sync_zone EXCEPT ![t] = sync]
    OBVIOUS
  <1>16. /\ UNCHANGED own \/ own' = [own EXCEPT ![t] = 0] \/ own' = [own EXCEPT ![t] = @ + 1]
         /\ UNCHANGED jobs \/ (jobs > 0 /\ jobs' = jobs - 1) \/ jobs' = jobs + own[t]
         /\ UNCHANGED found \/ found' = found + 1
    OBVIOUS
  <1> HIDE DEF ThreadStep
  <1> USE NatTypes
  <1>7. expected' \in Nat /\ posted' \in Nat /\ barCount' \in Nat
    BY <1>6
  <1>9. idx' \in Nat BY <1>8
  <1>19. done' \in BOOLEAN BY <1>8, Zenon DEF TeamTypeOK
  <1>11. step' \in [Threads -> 0 .. Len(Script)]
    <2>1. ASSUME NEW n \in 0 .. Len(Script), step' = [step EXCEPT ![t] = n]
          PROVE  step' \in [Threads -> 0 .. Len(Script)]
      BY <2>1
    <2>2. step[t] < Len(Script) => step[t] + 1 \in 0 .. Len(Script) BY <1>4
    <2>3. 0 \in 0 .. Len(Script) /\ Len(Script) \in 0 .. Len(Script) BY <1>4
    <2>4. QED BY <1>10, <2>1, <2>2, <2>3
  <1>13. mine' \in [Threads -> Nat]
    <2>1. ASSUME NEW n \in Nat, mine' = [mine EXCEPT ![t] = n] PROVE mine' \in [Threads -> Nat]
      BY <2>1
    <2>2. posted + 1 \in Nat OBVIOUS
    <2>3. QED BY <1>12, <2>1, <2>2
  <1>15. index_in_sync_zone' \in [Threads -> Nat] BY <1>14
  <1>17. jobs' \in Nat /\ found' \in Nat /\ own' \in [Threads -> Nat]
    <2>1. ASSUME NEW n \in Nat, own' = [own EXCEPT ![t] = n] PROVE own' \in [Threads -> Nat]
      BY <2>1
    <2>2. own[t] \in Nat /\ own[t] + 1 \in Nat /\ 0 \in Nat OBVIOUS
    <2>3. own' \in [Threads -> Nat] BY <1>16, <2>1, <2>2
    <2>4. jobs' \in Nat /\ found' \in Nat BY <1>16, <2>2, SMTT(30)
    <2>5. QED BY <2>3, <2>4
  <1>18. QED BY <1>1, <1>2, <1>3, <1>5, <1>7, <1>9, <1>11, <1>13, <1>15, <1>17, <1>19 DEF TeamTypeOK

(* A thread comes to lead with the lock, when nobody is in a task; and     *)
(* nobody else moves while it has the lock.                                *)
LEMMA LeaderStaysAlone ==
    ASSUME TInv, TInv', TeamTypeOK, LeaderAlone, NEW t \in Threads, ThreadStep(t)
    PROVE  LeaderAlone'
  <1> SUFFICES ASSUME NEW u \in Threads, pc'[u] = "lead"
               PROVE  /\ lock' = u /\ sync2' = 0 /\ roaming' = 0
                      /\ barIn' = {} /\ barOut' = {}
    BY DEF LeaderAlone
  <1> USE DEF ThreadStep, IAmReady, TakeJob, LeaveAsync, EnterSyncZone, AtLoop, PostWork,
        EnterTask, WakeForJob, RoamingBarrier, LeaveBarrier, WorkerDone, LeaderDone, ShareDone,
        WakeForSync2, PostWorkStop, LeaveSyncZone, Exit, Sleep, Keep, Unlock, PastBarrier,
        counters, taskVars, jobVars, barVars, local
  <1>1. Runs(t) OBVIOUS
  <1>2. pc \in [Threads -> Places] BY DEF TInv
  <1>3. \A v \in Threads \ {t} : pc'[v] = pc[v] BY <1>2 DEF To
  <1>4. u = t
    <2>1. SUFFICES ASSUME u # t PROVE FALSE OBVIOUS
    <2>2. pc[u] = "lead" BY <1>3, <2>1
    <2>3. lock = u BY <2>2 DEF LeaderAlone
    <2>4. QED BY <1>1, <2>1, <2>3, TeamAssumption DEF Runs
  <1>5. lock' = t /\ sync2' = 0
    BY <1>2, <1>4, CountersNat DEF To, Leads
  <1>6. InTask' = {}
    <2>1. InTask' \in SUBSET Threads BY DEF InTask, At
    <2>2. IsFiniteSet(InTask') BY <2>1, TeamAssumption, FS_Subset
    <2>3. Cardinality(InTask') = 0 BY <1>5 DEF TInv, CountersExact
    <2>4. QED BY <2>2, <2>3, FS_EmptySet
  <1>7. barIn' = {} /\ barOut' = {}
    <2>1. \A v \in barIn' \cup barOut' : v \in InTask' BY DEF TInv, BarrierKept, InTask, At
    <2>2. QED BY <1>6, <2>1
  <1>8. roaming' = 0 BY <1>5 DEF TInv, CountersExact
  <1>9. QED BY <1>4, <1>5, <1>7, <1>8

(* Everybody but t stays where it is.                                      *)
Others(t) ==
    \A u \in Threads \ {t} : own'[u] = own[u] /\ pc'[u] = pc[u] /\ quit'[u] = quit[u] /\ step'[u] = step[u]

LEMMA OthersStay ==
    ASSUME TInv, TeamTypeOK, NEW t \in Threads, ThreadStep(t)
    PROVE  Others(t)
  <1> USE DEF ThreadStep, IAmReady, TakeJob, LeaveAsync, EnterSyncZone, PostWork, EnterTask,
        WakeForJob, RoamingBarrier, LeaveBarrier, WorkerDone, LeaderDone, ShareDone,
        WakeForSync2, PostWorkStop, LeaveSyncZone, Exit, Sleep, local, jobVars
  <1>1. pc \in [Threads -> Places] /\ quit \in [Threads -> BOOLEAN] BY DEF TInv
  <1>2. own \in [Threads -> Nat] /\ step \in [Threads -> 0 .. Len(Script)] BY NatTypes
  <1>3. \E p : pc' = [pc EXCEPT ![t] = p] BY DEF To
  <1>4. UNCHANGED quit \/ quit' = [quit EXCEPT ![t] = TRUE] OBVIOUS
  <1>5. UNCHANGED own \/ \E n : own' = [own EXCEPT ![t] = n] OBVIOUS
  <1>6. UNCHANGED step \/ \E n : step' = [step EXCEPT ![t] = n] OBVIOUS
  <1> HIDE DEF ThreadStep
  <1>7. \A u \in Threads \ {t} : pc'[u] = pc[u] BY <1>1, <1>3
  <1>8. \A u \in Threads \ {t} : quit'[u] = quit[u] BY <1>1, <1>4
  <1>9. \A u \in Threads \ {t} : own'[u] = own[u] BY <1>2, <1>5
  <1>10. \A u \in Threads \ {t} : step'[u] = step[u] BY <1>2, <1>6
  <1>11. QED BY <1>7, <1>8, <1>9, <1>10 DEF Others

(* A step that leaves a thread in the loop if it had matches, and does not *)
(* fill the list.                                                          *)
LEMMA MatchesStay ==
    ASSUME MatchInv, TeamTypeOK, TeamTypeOK', NEW t \in Threads, Others(t),
           own'[t] > 0 => ZoneAt(pc'[t], FALSE) /\ pc'[t] # "exited" /\ ~quit'[t],
           quit'[t] => /\ pc'[t] \in {"lead", "leave", "loop", "sync_empty", "exited"}
                       /\ pc'[t] = "lead" => step'[t] = Len(Script),
           jobs' > 0 => \/ jobs > 0 /\ (quit'[t] \/ pc'[t] = "exited" => quit[t] \/ pc[t] = "exited")
                        \/ ~quit'[t] /\ pc'[t] # "exited"
    PROVE  MatchInv'
  <1>1. \A u \in Threads : own'[u] > 0 => ZoneAt(pc'[u], FALSE) /\ pc'[u] # "exited" /\ ~quit'[u]
    BY Zenon DEF MatchInv, Others
  <1>2. \A u \in Threads : quit'[u] =>
          /\ pc'[u] \in {"lead", "leave", "loop", "sync_empty", "exited"}
          /\ pc'[u] = "lead" => step'[u] = Len(Script)
    BY Zenon DEF MatchInv, Others
  <1>3. jobs' > 0 => \E u \in Threads : ~quit'[u] /\ pc'[u] # "exited"
    <2> SUFFICES ASSUME jobs' > 0 PROVE \E u \in Threads : ~quit'[u] /\ pc'[u] # "exited"
      OBVIOUS
    <2>1. CASE ~quit'[t] /\ pc'[t] # "exited" BY <2>1
    <2>2. CASE jobs > 0 /\ (quit'[t] \/ pc'[t] = "exited" => quit[t] \/ pc[t] = "exited")
      <3>1. PICK u \in Threads : ~quit[u] /\ pc[u] # "exited" BY <2>2 DEF MatchInv
      <3>2. CASE u = t BY <2>2, <3>1, <3>2
      <3>3. CASE u # t
        <4>1. u \in Threads \ {t} BY <3>3
        <4>2. pc'[u] = pc[u] /\ quit'[u] = quit[u] BY <4>1, Zenon DEF Others
        <4>3. ~quit'[u] /\ pc'[u] # "exited" BY <3>1, <4>2, Zenon
        <4>4. QED BY <4>3
      <3>4. QED BY <3>2, <3>3
    <2>3. QED BY <2>1, <2>2
  <1>4. QED BY <1>1, <1>2, <1>3, Zenon DEF MatchInv

LEMMA MatchesKept ==
    ASSUME TInv, TInv', TeamTypeOK, TeamTypeOK', MatchInv, NEW t \in Threads, ThreadStep(t)
    PROVE  MatchInv'
  <1>0. Others(t) BY OthersStay
  <1>1. /\ pc \in [Threads -> Places] /\ quit[t] \in BOOLEAN /\ quit'[t] \in BOOLEAN
        /\ jobs \in Nat /\ own \in [Threads -> Nat] /\ step \in [Threads -> 0 .. Len(Script)]
    BY NatTypes DEF TInv
  <1>2. /\ own[t] \in Nat /\ (own[t] > 0 => ZoneAt(pc[t], FALSE) /\ pc[t] # "exited" /\ ~quit[t])
        /\ quit[t] => /\ pc[t] \in {"lead", "leave", "loop", "sync_empty", "exited"}
                      /\ pc[t] = "lead" => step[t] = Len(Script)
    BY <1>1 DEF MatchInv
  <1>3. CASE IAmReady(t) \/ LeaveAsync(t) \/ TakeJob(t)
    <2>1. /\ pc[t] \in {"start", "match", "loop", "ready_full", "sync_empty"} /\ ~quit[t]
          /\ UNCHANGED <<own, quit, step>>
          /\ UNCHANGED jobs \/ (jobs > 0 /\ jobs' = jobs - 1)
      BY <1>2, <1>3 DEF IAmReady, LeaveAsync, TakeJob, AtLoop, local, jobVars
    <2>2. pc'[t] # "exited" BY <1>1, <1>3 DEF IAmReady, LeaveAsync, TakeJob, Sleep, To
    <2>3. ~(own[t] > 0) BY <1>2, <2>1 DEF ZoneAt, TaskAt
    <2>4. QED BY <1>0, <2>1, <2>2, <2>3, MatchesStay
  <1>4. CASE EnterSyncZone(t)
    <2>1. /\ pc[t] \in {"loop", "ready_full", "sync_empty"} /\ ~quit[t] /\ UNCHANGED own
          /\ jobs = 0 /\ jobs' = 0
      BY <1>4 DEF EnterSyncZone, AtLoop, jobVars
    <2>2. ~(own[t] > 0) BY <1>2, <2>1 DEF ZoneAt, TaskAt
    <2>3. \/ quit' = quit
          \/ pc'[t] = "lead" /\ step'[t] = Len(Script)
      BY <1>1, <1>4 DEF EnterSyncZone, To
    <2>4. ~(jobs' > 0) BY <2>1
    <2>5. QED BY <1>0, <2>1, <2>2, <2>3, <2>4, MatchesStay
  <1>5. CASE LeaveSyncZone(t)
    <2>1. /\ pc[t] = "leave" /\ UNCHANGED <<quit, step>> /\ jobs' = jobs + own[t] /\ own'[t] = 0
      BY <1>1, <1>5 DEF LeaveSyncZone, local
    <2>2. pc'[t] \in {"loop", "sync_empty"} BY <1>1, <1>5 DEF LeaveSyncZone, Sleep, To
    <2>3. ~(own'[t] > 0) BY <2>1
    <2>4. jobs' > 0 => jobs > 0 \/ ~quit'[t]
      <3>1. CASE own[t] = 0 BY <1>1, <2>1, <3>1
      <3>2. CASE own[t] # 0
        <4>1. own[t] > 0 BY <1>2, <3>2
        <4>2. QED BY <1>2, <2>1, <4>1
      <3>3. QED BY <3>1, <3>2
    <2>5. jobs' > 0 => \/ jobs > 0 /\ (quit'[t] \/ pc'[t] = "exited" => quit[t] \/ pc[t] = "exited")
                       \/ ~quit'[t] /\ pc'[t] # "exited"
      BY <2>1, <2>2, <2>4
    <2>6. QED BY <1>0, <2>1, <2>2, <2>3, <2>5, MatchesStay
  <1>6. CASE Exit(t)
    <2>1. /\ pc[t] \in {"loop", "sync_empty"} /\ quit[t] /\ UNCHANGED <<quit, step, own, jobs>>
      BY <1>6 DEF Exit, local, jobVars
    <2>2. pc'[t] = "exited" BY <1>1, <1>6 DEF Exit, To
    <2>3. ~(own[t] > 0) BY <1>2, <2>1
    <2>4. QED BY <1>0, <2>1, <2>2, <2>3, MatchesStay
  <1>7. CASE PostWorkStop(t)
    <2>1. /\ pc[t] = "lead" /\ UNCHANGED <<quit, step, own, jobs>>
      BY <1>7 DEF PostWorkStop, local, jobVars
    <2>2. pc'[t] = "leave" BY <1>1, <1>7 DEF PostWorkStop, To
    <2>3. QED BY <1>0, <1>2, <2>1, <2>2, MatchesStay DEF ZoneAt
  <1>8. CASE \/ PostWork(t) \/ WakeForJob(t) \/ RoamingBarrier(t) \/ LeaveBarrier(t)
             \/ WorkerDone(t) \/ LeaderDone(t) \/ WakeForSync2(t)
    <2>1. UNCHANGED <<quit, jobs>>
      BY <1>8 DEF PostWork, EnterTask, WakeForJob, RoamingBarrier, LeaveBarrier, WorkerDone,
         LeaderDone, ShareDone, WakeForSync2, local, jobVars
    <2>2. pc[t] # "exited" /\ ~quit[t]
      <3>1. CASE PostWork(t)
        <4>1. step[t] \in 0 .. Len(Script) /\ step[t] < Len(Script) /\ pc[t] = "lead"
          BY <1>1, <3>1 DEF PostWork
        <4>2. step[t] # Len(Script) BY <4>1, TeamAssumption
        <4>3. QED BY <1>2, <4>1, <4>2
      <3>2. CASE LeaveBarrier(t)
        BY <1>2, <3>2 DEF LeaveBarrier, TInv, BarrierKept
      <3>3. CASE WakeForJob(t) \/ RoamingBarrier(t) \/ WorkerDone(t) \/ LeaderDone(t) \/ WakeForSync2(t)
        BY <1>2, <3>3 DEF WakeForJob, RoamingBarrier, InShare, WorkerDone, LeaderDone, WakeForSync2
      <3>4. QED BY <1>8, <3>1, <3>2, <3>3
    <2>3. ZoneAt(pc'[t], FALSE) /\ pc'[t] # "exited"
      BY <1>1, <1>8 DEF PostWork, WakeForJob, RoamingBarrier, LeaveBarrier, WorkerDone, LeaderDone,
         WakeForSync2, Sleep, To, PastBarrier, ZoneAt, TaskAt
    <2>4. QED BY <1>0, <2>1, <2>2, <2>3, MatchesStay
  <1>9. QED BY <1>3, <1>4, <1>5, <1>6, <1>7, <1>8 DEF ThreadStep

LEMMA LInvNext == LInv /\ [Next]_vars => LInv'
  <1> SUFFICES ASSUME LInv, [Next]_vars PROVE LInv' OBVIOUS
  <1>0. TInv' BY TInvNext DEF LInv
  <1>1. CASE UNCHANGED vars
    <2> USE <1>1 DEF vars, counters, taskVars, jobVars, barVars, local
    <2>1. TeamTypeOK' BY DEF LInv, TeamTypeOK
    <2>2. LeaderAlone' BY DEF LInv, LeaderAlone
    <2>3. MatchInv' BY DEF LInv, MatchInv
    <2>4. QED BY <1>0, <2>1, <2>2, <2>3 DEF LInv
  <1>2. ASSUME NEW t \in Threads, ThreadStep(t) PROVE LInv'
    <2>1. TeamTypeOK' BY <1>0, <1>2, TypesKept DEF LInv
    <2>2. LeaderAlone' BY <1>0, <1>2, LeaderStaysAlone DEF LInv
    <2>3. MatchInv' BY <1>0, <1>2, <2>1, MatchesKept DEF LInv
    <2>4. QED BY <1>0, <2>1, <2>2, <2>3 DEF LInv
  <1>3. QED BY <1>1, <1>2 DEF Next

(* polyselect_thread_team.cpp:283-289 for every team: whoever is about to  *)
(* post a task, or the stop, has the lock, and nobody is in a task or in   *)
(* the barrier.                                                            *)
THEOREM LeaderIsAlone == Spec => [](TeamTypeOK /\ LeaderAlone)
  <1>1. LInv => TeamTypeOK /\ LeaderAlone BY DEF LInv
  <1>2. QED BY <1>1, LInvInit, LInvNext, PTL DEF Spec

(* No match is lost when a team of any size ends.                          *)
THEOREM MatchesAreNotLost == Spec => []NoMatchLost
  <1>1. ASSUME LInv, AllExited PROVE jobs = 0 /\ \A t \in Threads : own[t] = 0
    <2>1. jobs \in Nat /\ own \in [Threads -> Nat] BY <1>1, NatTypes DEF LInv
    <2>2. ~(jobs > 0) BY <1>1 DEF LInv, MatchInv, AllExited
    <2>3. \A t \in Threads : ~(own[t] > 0) BY <1>1, Zenon DEF LInv, MatchInv, AllExited
    <2>4. QED BY <2>1, <2>2, <2>3
  <1>2. LInv => NoMatchLost BY <1>1 DEF NoMatchLost
  <1>3. QED BY <1>2, LInvInit, LInvNext, PTL DEF Spec
=============================================================================
