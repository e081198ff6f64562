------------------------------- MODULE ThreadPool -------------------------------
(***************************************************************************)
(* The thread pool of the lattice siever (utils/threadpool.cpp) under its  *)
(* main client, the loop of las_subjob (sieve/las.cpp): for each special-q *)
(* the client allocates buckets (queue 2), fills them (queue 0, the tasks  *)
(* may throw), starts over when buckets were full, and otherwise processes *)
(* the regions (queue 0), whose tasks leave cofactorization tasks behind   *)
(* in queue 1 that are joined much later.  This is a special-q with        *)
(* toplevel = 1 and one sublattice: with more levels, las.cpp:814-849 and  *)
(* las-fill-in-buckets.cpp:780-914 fill, drain, check for full buckets and *)
(* collect exceptions again between the regions, which is not modelled;    *)
(* nor are special-q's that are discarded before their buckets are made.   *)
(*                                                                         *)
(* All threads of the pool prefer queue 0, so all sleep on its condition   *)
(* variable.  The order of the tasks in a queue does not matter here and   *)
(* a queue is the number of its elements.                                  *)
(***************************************************************************)
EXTENDS Integers, Sequences, FiniteSets

CONSTANTS
    Workers,     \* the threads of the pool
    NTasks,      \* [{"alloc", "fill", "regions"} -> Nat]: tasks of each phase
    NSq,         \* special-q's the subjob gets
    MaxThrows,   \* bound: overflows that happen in all
    MaxDetached  \* bound: cofactorization tasks in all

Phases == {"alloc", "fill", "regions"}
Queues == {0, 1, 2}

ASSUME PoolAssumption ==
    /\ IsFiniteSet(Workers)
    /\ NTasks \in [Phases -> Nat]
    /\ NSq \in Nat /\ MaxThrows \in Nat /\ MaxDetached \in Nat

VARIABLES
    tasks, results, exceptions,   \* elements of each queue
    created, joined,              \* by queue
    kill_threads,
    wpc,       \* worker: get, asleep, run, result, exception, end
    queue,     \* worker: the queue of its task
    pc,        \* client
    phase,     \* client: the phase of the special-q it is in
    toAdd,     \* client: tasks of the phase it has not added yet
    toDrain,   \* client: the queues it has to drain
    cr,        \* client: drain_queue()'s copy of created, -1 outside
    sq,        \* special-q's left
    throws,    \* overflows that happened
    thrown     \* exceptions of the tasks since the last get_exceptions

poolVars == <<tasks, results, exceptions, created, joined, kill_threads>>
workVars == <<wpc, queue>>
clientVars == <<pc, phase, toAdd, toDrain, cr, sq>>
vars == <<poolVars, workVars, clientVars, throws, thrown>>

QueueOf(p) == IF p = "alloc" THEN 2 ELSE 0

Init ==
    /\ tasks = [q \in Queues |-> 0]
    /\ results = [q \in Queues |-> 0]
    /\ exceptions = [q \in Queues |-> 0]
    /\ created = [q \in Queues |-> 0]
    /\ joined = [q \in Queues |-> 0]
    /\ kill_threads = FALSE
    /\ wpc = [w \in Workers |-> "get"]
    /\ queue = [w \in Workers |-> 0]
    /\ pc = "next"
    /\ phase = "alloc"
    /\ toAdd = 0
    /\ toDrain = <<>>
    /\ cr = -1
    /\ sq = NSq
    /\ throws = 0
    /\ thrown = 0

(***************************************************************************)
(* add_task(): one of the threads that sleep, if any, is signalled.  The   *)
(* thread that adds goes to where (itself a worker or the client, which is *)
(* no member of Workers).                                                  *)
(***************************************************************************)
Signal(to) ==
    IF \E w \in Workers : wpc[w] = "asleep"
    THEN \E w \in Workers : wpc[w] = "asleep" /\ wpc' = [wpc EXCEPT ![w] = to]
    ELSE UNCHANGED wpc

(* Mutant: a task for a queue that nobody prefers wakes nobody.            *)
AddTaskForPreferred(q) ==
    /\ tasks' = [tasks EXCEPT ![q] = @ + 1]
    /\ created' = [created EXCEPT ![q] = @ + 1]
    /\ IF q = 0 THEN Signal("get") ELSE UNCHANGED wpc

(* Mutant: a detached task is not counted.                                 *)
AddTaskUncounted(q) ==
    /\ tasks' = [tasks EXCEPT ![q] = @ + 1]
    /\ created' = IF q = 1 THEN created ELSE [created EXCEPT ![q] = @ + 1]
    /\ Signal("get")

AddTask(q) ==
    /\ tasks' = [tasks EXCEPT ![q] = @ + 1]
    /\ created' = [created EXCEPT ![q] = @ + 1]
    /\ Signal("get")

--------------------------------------------------------------------------------
(* The workers: thread_work_on_tasks.                                      *)

AllTaskQueuesEmpty == \A q \in Queues : tasks[q] = 0

GoToSleep(w) ==
    /\ wpc[w] = "get" /\ AllTaskQueuesEmpty /\ ~kill_threads
    /\ wpc' = [wpc EXCEPT ![w] = "asleep"]
    /\ UNCHANGED <<poolVars, queue, clientVars, throws, thrown>>

Die(w) ==
    /\ wpc[w] = "get" /\ AllTaskQueuesEmpty /\ kill_threads
    /\ wpc' = [wpc EXCEPT ![w] = "end"]
    /\ UNCHANGED <<poolVars, queue, clientVars, throws, thrown>>

SpuriousWakeup(w) ==
    /\ wpc[w] = "asleep"
    /\ wpc' = [wpc EXCEPT ![w] = "get"]
    /\ UNCHANGED <<poolVars, queue, clientVars, throws, thrown>>

(* get_task(): the first queue that is not empty; queue 0 is preferred.    *)
GetTask(w) ==
    \E q \in Queues :
        /\ wpc[w] = "get"
        /\ tasks[q] > 0 /\ \A p \in Queues : p < q => tasks[p] = 0
        /\ tasks' = [tasks EXCEPT ![q] = @ - 1]
        /\ wpc' = [wpc EXCEPT ![w] = "run"]
        /\ queue' = [queue EXCEPT ![w] = q]
        /\ UNCHANGED <<results, exceptions, created, joined, kill_threads,
                       clientVars, throws, thrown>>

(***************************************************************************)
(* A region task finds a survivor and detaches its cofactorization.        *)
(***************************************************************************)
Detach(w) ==
    /\ wpc[w] = "run" /\ queue[w] = 0 /\ phase = "regions"
    /\ created[1] < MaxDetached
    /\ AddTask(1)
    /\ UNCHANGED <<results, exceptions, joined, kill_threads, queue,
                   clientVars, throws, thrown>>

TaskReturns(w) ==
    /\ wpc[w] = "run"
    /\ wpc' = [wpc EXCEPT ![w] = "result"]
    /\ UNCHANGED <<poolVars, queue, clientVars, throws, thrown>>

(* A fill task throws buckets_are_full.                                    *)
TaskThrows(w) ==
    /\ wpc[w] = "run" /\ queue[w] = 0 /\ phase = "fill"
    /\ throws < MaxThrows
    /\ throws' = throws + 1
    /\ thrown' = thrown + 1
    /\ wpc' = [wpc EXCEPT ![w] = "exception"]
    /\ UNCHANGED <<poolVars, queue, clientVars>>

(* Only the client waits for results, on the queue that it drains.         *)
WakeListener(q) ==
    pc' = IF pc = "drain_asleep" /\ Head(toDrain) = q THEN "drain" ELSE pc

AddException(w) ==
    /\ wpc[w] = "exception"
    /\ exceptions' = [exceptions EXCEPT ![queue[w]] = @ + 1]
    /\ WakeListener(queue[w])
    /\ wpc' = [wpc EXCEPT ![w] = "result"]
    /\ UNCHANGED <<tasks, results, created, joined, kill_threads, queue,
                   phase, toAdd, toDrain, cr, sq, throws, thrown>>

AddResult(w) ==
    /\ wpc[w] = "result"
    /\ results' = [results EXCEPT ![queue[w]] = @ + 1]
    /\ WakeListener(queue[w])
    /\ wpc' = [wpc EXCEPT ![w] = "get"]
    /\ UNCHANGED <<tasks, exceptions, created, joined, kill_threads, queue,
                   phase, toAdd, toDrain, cr, sq, throws, thrown>>

--------------------------------------------------------------------------------
(* The client: las_subjob, do_one_special_q and do_one_special_q_sublat.   *)

StartPhase(p) ==
    /\ pc' = "add"
    /\ phase' = p
    /\ toAdd' = NTasks[p]

(* Before a special-q: join what is there of the detached tasks.           *)
JoinDetached ==
    /\ pc = "next" /\ sq > 0 /\ results[1] > 0
    /\ results' = [results EXCEPT ![1] = @ - 1]
    /\ joined' = [joined EXCEPT ![1] = @ + 1]
    /\ UNCHANGED <<tasks, exceptions, created, kill_threads, workVars,
                   clientVars, throws, thrown>>

StartSpecialQ ==
    /\ pc = "next" /\ sq > 0 /\ results[1] = 0
    /\ sq' = sq - 1
    /\ StartPhase("alloc")
    /\ UNCHANGED <<poolVars, workVars, toDrain, cr, throws, thrown>>

ClientAddsTask ==
    /\ pc = "add" /\ toAdd > 0
    /\ AddTask(QueueOf(phase))
    /\ toAdd' = toAdd - 1
    /\ UNCHANGED <<results, exceptions, joined, kill_threads, queue,
                   pc, phase, toDrain, cr, sq, throws, thrown>>

ClientDrains ==
    /\ pc = "add" /\ toAdd = 0
    /\ pc' = "drain"
    /\ toDrain' = <<QueueOf(phase)>>
    /\ UNCHANGED <<poolVars, workVars, phase, toAdd, cr, sq, throws, thrown>>

(***************************************************************************)
(* drain_queue(): the tasks that exist when it starts are joined, sleeping *)
(* whenever there is no result.                                            *)
(***************************************************************************)
(* Mutant: only the results that are already there are joined.             *)
DrainTargetNow(q) == joined[q] + results[q]

DrainTarget(q) == created[q]

Joinable(q, target) ==
    IF results[q] < target - joined[q] THEN results[q] ELSE target - joined[q]

DrainQueue ==
    /\ pc = "drain" /\ toDrain # <<>>
    /\ LET q == Head(toDrain)
           target == IF cr < 0 THEN DrainTarget(q) ELSE cr
           n == Joinable(q, target)
       IN  /\ results' = [results EXCEPT ![q] = @ - n]
           /\ joined' = [joined EXCEPT ![q] = @ + n]
           /\ IF joined[q] + n < target
              THEN /\ pc' = "drain_asleep"
                   /\ cr' = target
                   /\ UNCHANGED toDrain
              ELSE /\ toDrain' = Tail(toDrain)
                   /\ cr' = -1
                   /\ UNCHANGED pc
    /\ UNCHANGED <<tasks, exceptions, created, kill_threads, workVars,
                   phase, toAdd, sq, throws, thrown>>

ListenerSpuriousWakeup ==
    /\ pc = "drain_asleep"
    /\ pc' = "drain"
    /\ UNCHANGED <<poolVars, workVars, phase, toAdd, toDrain, cr, sq, throws, thrown>>

(***************************************************************************)
(* What comes after the drain of each phase.  When the buckets were        *)
(* filled, the check of the buckets comes before the exceptions and may    *)
(* itself make the special-q start over.                                   *)
(***************************************************************************)
Drained(p) == pc = "drain" /\ toDrain = <<>> /\ phase = p

Allocated ==
    /\ Drained("alloc")
    /\ StartPhase("fill")
    /\ UNCHANGED <<poolVars, workVars, toDrain, cr, sq, throws, thrown>>

CheckThrows ==
    /\ Drained("fill")
    /\ throws < MaxThrows
    /\ throws' = throws + 1
    /\ StartPhase("alloc")
    /\ UNCHANGED <<poolVars, workVars, toDrain, cr, sq, thrown>>

GetExceptions ==
    /\ Drained("fill")
    /\ exceptions' = [exceptions EXCEPT ![0] = 0]
    /\ thrown' = 0
    /\ StartPhase(IF exceptions[0] > 0 THEN "alloc" ELSE "regions")
    /\ UNCHANGED <<tasks, results, created, joined, kill_threads, workVars,
                   toDrain, cr, sq, throws>>

RegionsDone ==
    /\ Drained("regions")
    /\ pc' = "next"
    /\ UNCHANGED <<poolVars, workVars, phase, toAdd, toDrain, cr, sq, throws, thrown>>

(***************************************************************************)
(* The destructor: drain_all_queues, kill, drain_all_queues, join.         *)
(***************************************************************************)
AllQueues == <<0, 1, 2>>

(* Mutant: the threads are killed first.                                   *)
DestroyAtOnce ==
    /\ pc = "next" /\ sq = 0
    /\ pc' = "drain"
    /\ phase' = "destroy"
    /\ toDrain' = <<>>
    /\ UNCHANGED <<poolVars, workVars, toAdd, cr, sq, throws, thrown>>

Destroy ==
    /\ pc = "next" /\ sq = 0
    /\ pc' = "drain"
    /\ phase' = "destroy"
    /\ toDrain' = AllQueues
    /\ UNCHANGED <<poolVars, workVars, toAdd, cr, sq, throws, thrown>>

Kill ==
    /\ Drained("destroy")
    /\ kill_threads' = TRUE
    /\ wpc' = [w \in Workers |-> IF wpc[w] = "asleep" THEN "get" ELSE wpc[w]]
    /\ phase' = "killed"
    /\ toDrain' = AllQueues
    /\ UNCHANGED <<tasks, results, exceptions, created, joined, queue,
                   pc, toAdd, cr, sq, throws, thrown>>

Join ==
    /\ Drained("killed")
    /\ \A w \in Workers : wpc[w] = "end"
    /\ pc' = "end"
    /\ UNCHANGED <<poolVars, workVars, phase, toAdd, toDrain, cr, sq, throws, thrown>>

Ended == pc = "end" /\ UNCHANGED vars

WorkerStep(w) ==
    GoToSleep(w) \/ Die(w) \/ GetTask(w) \/ AddException(w) \/ AddResult(w)

ClientStep ==
    \/ JoinDetached \/ StartSpecialQ \/ ClientAddsTask \/ ClientDrains
    \/ DrainQueue \/ Allocated \/ CheckThrows \/ GetExceptions \/ RegionsDone
    \/ Destroy \/ Kill \/ Join

Next ==
    \/ \E w \in Workers :
          \/ WorkerStep(w) \/ Detach(w) \/ TaskReturns(w) \/ TaskThrows(w)
          \/ SpuriousWakeup(w)
    \/ ClientStep \/ ListenerSpuriousWakeup \/ Ended

Spec == Init /\ [][Next]_vars

(***************************************************************************)
(* Threads that can run do, and a task ends.  No spurious wakeup is        *)
(* counted on.                                                             *)
(***************************************************************************)
FairSpec ==
    /\ Spec
    /\ WF_vars(ClientStep)
    /\ \A w \in Workers : /\ WF_vars(WorkerStep(w))
                          /\ WF_vars(TaskReturns(w) \/ TaskThrows(w))

--------------------------------------------------------------------------------
(* Every variable has its type: no queue gives more than it holds.         *)
PoolTypeOK ==
    /\ tasks \in [Queues -> Nat] /\ results \in [Queues -> Nat]
    /\ exceptions \in [Queues -> Nat]
    /\ created \in [Queues -> Nat] /\ joined \in [Queues -> Nat]
    /\ kill_threads \in BOOLEAN
    /\ wpc \in [Workers -> {"get", "asleep", "run", "result", "exception", "end"}]
    /\ queue \in [Workers -> Queues]
    /\ pc \in {"next", "add", "drain", "drain_asleep", "end"}
    /\ phase \in Phases \cup {"destroy", "killed"}
    /\ toAdd \in Nat /\ toDrain \in Seq(Queues) /\ cr \in Nat \cup {-1}

Running(q) == {w \in Workers : wpc[w] \in {"run", "result", "exception"} /\ queue[w] = q}

(***************************************************************************)
(* Every task that was added is in exactly one place: waiting, with one    *)
(* thread, finished, or joined.  It is why drain_queue(), which only       *)
(* compares joined with created, neither returns early nor hangs.          *)
(***************************************************************************)
TasksAccounted ==
    /\ PoolTypeOK
    /\ \A q \in Queues :
        created[q] = tasks[q] + Cardinality(Running(q)) + results[q] + joined[q]

(***************************************************************************)
(* When the client looks for exceptions after the drain, every exception a *)
(* fill task has thrown is there: it is handed over before the result that *)
(* ends the drain.  No overflow goes unnoticed into the regions phase.     *)
(***************************************************************************)
ExceptionsInTime ==
    /\ Drained("fill") => exceptions[0] = thrown
    /\ phase = "regions" => exceptions[0] = 0 /\ thrown = 0

(***************************************************************************)
(* The pool is killed only when it is idle: all tasks, those that tasks    *)
(* have added included, are finished and joined, so add_task() never meets *)
(* kill_threads (which it asserts), and at the end of the destructor, as   *)
(* it asserts, all queues are empty.                                       *)
(***************************************************************************)
KilledWhenIdle ==
    /\ kill_threads => \A q \in Queues : tasks[q] = 0 /\ Running(q) = {}
    /\ pc = "end" => \A q \in Queues : results[q] + exceptions[q] = 0

(* The subjob and its pool end: nobody sleeps for ever, no drain hangs.    *)
PoolEnds == <>(pc = "end" /\ \A w \in Workers : wpc[w] = "end")
================================================================================
