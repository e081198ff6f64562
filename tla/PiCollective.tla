---------------------------- MODULE PiCollective ----------------------------
(***************************************************************************)
(* The collective operations of linalg/bwc/parallelizing_info.cpp on the   *)
(* threads of one job: pi_bcast() and pi_allreduce(), built on             *)
(* pi_thread_bcast() and pi_thread_allreduce().  Both pass their work to   *)
(* barrier_wait() as the functions in() and out(), which run under the     *)
(* mutex of the barrier, and share one pointer, utility_ptr.  A buffer is  *)
(* the set of contributions it holds: <<n, t>> is what thread t brings to  *)
(* the n-th call, <<n, MPI>> what the other jobs bring.  A call "wait" is  *)
(* a bare barrier_wait(), as in serialize_threads() where the system has   *)
(* no barrier of its own and in cado_nfs::barrier::arrive_and_wait().      *)
(***************************************************************************)
EXTENDS Barrier, Sequences

CONSTANTS Calls,   \* the calls every thread makes: a sequence of
                   \* "allreduce", "bcast" and "wait"
          Root,    \* troot of pi_bcast
          Leader,  \* the thread with trank = 0
          MPI,     \* stands for the contributions of the other jobs
          NONE

ASSUME CallsAssumption ==
    /\ Calls \in Seq({"allreduce", "bcast", "wait"})
    /\ {Root, Leader} \subseteq Threads
    /\ MPI \notin Threads

VARIABLES util,      \* wr->th->utility_ptr: the owner of the area it points to
          buf,       \* the data area of each thread
          stage,     \* where each thread is in its call
          call,      \* how many calls each thread has begun
          sarrived, scrossed  \* the barrier wr->th->b of serialize_threads()

collVars == <<util, buf, stage, call>>
serVars  == <<sarrived, scrossed>>
vars     == <<barrierVars, collVars, serVars>>

(* serialize_threads() waits at a barrier of its own, which is the one of  *)
(* the system where there is one.                                          *)
Ser == INSTANCE AbstractBarrier WITH arrived <- sarrived, crossed <- scrossed

Init ==
    /\ BarrierInit /\ Ser!AbsInit
    /\ util = NONE
    /\ buf = [t \in Threads |-> {}]
    /\ stage = [t \in Threads |-> "user"]
    /\ call = [t \in Threads |-> 0]

Kind(t) == Calls[call[t]]
To(t, s) == stage' = [stage EXCEPT ![t] = s]

-----------------------------------------------------------------------------
FirstStage(kind) ==
    CASE kind = "allreduce" -> "reduce" [] kind = "bcast" -> "mpi" [] kind = "wait" -> "bare"

(* The caller fills its data area and calls pi_allreduce() (in place: see  *)
(* the first lines of pi_thread_allreduce), pi_bcast() or barrier_wait().  *)
Begin(t) ==
    /\ stage[t] = "user" /\ call[t] < Len(Calls)
    /\ call' = [call EXCEPT ![t] = @ + 1]
    /\ buf' = [buf EXCEPT ![t] = {<<call[t] + 1, t>>}]
    /\ To(t, FirstStage(Calls[call[t] + 1]))
    /\ UNCHANGED <<barrierVars, serVars, util>>

(* pi_thread_allreduce_in(s, a), called with s = left after --left: the    *)
(* first thread only leaves its pointer, the others reduce into theirs.    *)
AllreduceIn(t, s) ==
    IF s < Cardinality(Threads) - 1 THEN [buf EXCEPT ![t] = @ \cup buf[util]] ELSE buf

(* pi_thread_bcast_in: the root leaves its pointer.                        *)
BcastIn(t) == IF t = (IF Kind(t) = "bcast" THEN Root ELSE Leader) THEN t ELSE util

(* pi_thread_bcast_out and pi_thread_allreduce_out: copy from utility_ptr. *)
Out(t, b, u) == IF t # u THEN [b EXCEPT ![t] = b[u]] ELSE b

(* pi_thread_allreduce: barrier_wait with the functions of the reduction.  *)
ReduceGather(t) ==
    /\ stage[t] = "reduce" /\ Gather(t)
    /\ buf' = AllreduceIn(t, left - 1)
    /\ util' = t
    /\ UNCHANGED <<serVars, stage, call>>

ReduceRelease(t) ==
    /\ stage[t] = "reduce" /\ Release(t)
    /\ buf' = Out(t, AllreduceIn(t, left - 1), t)
    /\ util' = t
    /\ To(t, "reduced")
    /\ UNCHANGED <<serVars, call>>

ReduceLeave(t) ==
    /\ stage[t] = "reduce" /\ Leave(t)
    /\ buf' = Out(t, buf, util)
    /\ To(t, "reduced")
    /\ UNCHANGED <<serVars, call, util>>

(* pi_thread_bcast: barrier_wait with the functions of the broadcast.      *)
BcastGather(t) ==
    /\ stage[t] = "bcast" /\ Gather(t)
    /\ util' = BcastIn(t)
    /\ UNCHANGED <<serVars, stage, call, buf>>

BcastRelease(t) ==
    /\ stage[t] = "bcast" /\ Release(t)
    /\ util' = BcastIn(t)
    /\ buf' = Out(t, buf, BcastIn(t))
    /\ To(t, "copied")
    /\ UNCHANGED <<serVars, call>>

BcastLeave(t) ==
    /\ stage[t] = "bcast" /\ Leave(t)
    /\ buf' = Out(t, buf, util)
    /\ To(t, "copied")
    /\ UNCHANGED <<serVars, call, util>>

(* barrier_wait(barrier, NULL, NULL, NULL).                                *)
BareWait(t) ==
    /\ stage[t] = "bare"
    /\ \/ Gather(t) /\ UNCHANGED stage
       \/ (Release(t) \/ Leave(t)) /\ To(t, "user")
    /\ UNCHANGED <<serVars, call, util, buf>>

(* The other steps of the barrier_wait() calls touch only the barrier. *)
Doze(t) ==
    /\ \/ stage[t] \in {"reduce", "bcast", "bare"} /\ Finish(t)
       \/ SleepAgain(t)
    /\ UNCHANGED <<collVars, serVars>>

Spurious(t) == SpuriousWakeup(t) /\ UNCHANGED <<collVars, serVars>>

(* serialize_threads(wr), the last line of both functions.                 *)
AfterSerialize(s) == IF s = "reduced" THEN "mpi" ELSE "user"

(* Mutant: pi_thread_bcast() and pi_thread_allreduce() do not end with     *)
(* serialize_threads().                                                    *)
NotSerialized(t) ==
    /\ stage[t] \in {"reduced", "copied"}
    /\ To(t, AfterSerialize(stage[t]))
    /\ UNCHANGED <<barrierVars, serVars, util, buf, call>>

Serialize(t) ==
    /\ stage[t] \in {"reduced", "copied"}
    /\ \/ Ser!AbsArrive(t) /\ UNCHANGED stage
       \/ (Ser!AbsArriveLast(t) \/ Ser!AbsCross(t)) /\ To(t, AfterSerialize(stage[t]))
    /\ UNCHANGED <<barrierVars, util, buf, call>>

(* pi_allreduce_mpi_inner: only trank 0, MPI_Allreduce in place between    *)
(* the jobs.  pi_bcast_mpi_inner: only the root, whose data is its own     *)
(* when jroot is this job.                                                 *)
MpiInner(t) ==
    /\ stage[t] = "mpi"
    /\ buf' = IF Kind(t) = "allreduce" /\ t = Leader
                THEN [buf EXCEPT ![t] = @ \cup {<<call[t], MPI>>}] ELSE buf
    /\ To(t, "bcast")
    /\ UNCHANGED <<barrierVars, serVars, util, call>>

(* pi_comm_destroy_pthread_things() by one thread, after its last call.    *)
Clear ==
    /\ stage[Owner] = "user" /\ call[Owner] = Len(Calls)
    /\ DestroyWait \/ Destroy
    /\ UNCHANGED <<collVars, serVars>>

ThreadStep(t) ==
    \/ Begin(t) \/ MpiInner(t) \/ Serialize(t) \/ BareWait(t) \/ Doze(t)
    \/ ReduceGather(t) \/ ReduceRelease(t) \/ ReduceLeave(t)
    \/ BcastGather(t) \/ BcastRelease(t) \/ BcastLeave(t)

Next == (\E t \in Threads : ThreadStep(t) \/ Spurious(t)) \/ Clear

(* A thread that is not asleep is run by the system in the end.  Nothing   *)
(* is assumed of spurious wakeups: they never help.                        *)
Spec == Init /\ [][Next]_vars /\ WF_vars(Clear) /\ \A t \in Threads : WF_vars(ThreadStep(t))

-----------------------------------------------------------------------------
(* What a call must leave in the data area of every thread.                *)
Expected(n, t) ==
    CASE Calls[n] = "allreduce" -> {<<n, u>> : u \in Threads} \cup {<<n, MPI>>}
      [] Calls[n] = "bcast"     -> {<<n, Root>>}
      [] Calls[n] = "wait"      -> {<<n, t>>}

(* pi_allreduce() and pi_bcast() return the whole reduction, or the root's *)
(* data, to every thread, although all threads share utility_ptr and a     *)
(* fast thread reuses its area as soon as it is back                       *)
(* (parallelizing_info.cpp:1290-1294: "as long as the owner of the data    *)
(* area has not touched it again").                                        *)
CollectiveExact ==
    \A t \in Threads :
        stage[t] = "user" /\ call[t] > 0 => buf[t] = Expected(call[t], t)

(* Every thread returns from every call and the barrier is destroyed: no   *)
(* wakeup of barrier.c is lost, whatever the order of arrival.             *)
CallsEnd == <>(~alive /\ \A t \in Threads : stage[t] = "user" /\ call[t] = Len(Calls))
=============================================================================
