--------------------------- MODULE ThreadPoolProofs ---------------------------
(***************************************************************************)
(* The thread pool accounts for every task, hands every exception over in  *)
(* time and is killed idle, for any number of threads, tasks, special-q's, *)
(* overflows and detached tasks.  The argument: a task is in one place     *)
(* (TasksAccounted), so a queue whose tasks are all joined has none left;  *)
(* Open says in which queues the client allows unfinished tasks, and       *)
(* ClosedQueues that all others are joined.                                *)
(***************************************************************************)
EXTENDS ThreadPool, FiniteSetTheorems, SequenceTheorems, TLAPS

Busy     == {"run", "result", "exception"}
Throwing == {w \in Workers : wpc[w] = "exception"}
One(b)   == IF b THEN 1 ELSE 0

(* What the client still has to drain, and drain_queue()'s copy of         *)
(* created: no task is added to a queue while it is drained.               *)
DrainInv ==
    /\ pc \in {"next", "add", "end"} => toDrain = <<>>
    /\ phase \in Phases => toDrain \in {<<>>, <<QueueOf(phase)>>}
    /\ phase \in {"destroy", "killed"} =>
         /\ toDrain \in {<<>>, <<2>>, <<1, 2>>, <<0, 1, 2>>}
         /\ pc \in {"drain", "drain_asleep", "end"}
    /\ pc = "end" => phase = "killed"
    /\ pc = "drain_asleep" => cr >= 0
    /\ cr >= 0 => /\ toDrain # <<>>
                  /\ cr = created[Head(toDrain)]
    /\ kill_threads <=> phase = "killed"

(* The queues in which there may be tasks that are not joined.             *)
Open(q) ==
    \/ phase \in Phases /\ q = QueueOf(phase) /\ (pc = "add" \/ toDrain # <<>>)
    \/ q = 1 /\ phase \in Phases
    \/ q = 1 /\ phase = "destroy" /\ toDrain \in {<<1, 2>>, <<0, 1, 2>>}

ClosedQueues == \A q \in Queues : ~Open(q) => joined[q] = created[q]

(* Exceptions that were thrown are in queue 0 or about to be put there,    *)
(* and there are none outside of a special-q's filling of the buckets.     *)
ThrownInv ==
    /\ \A w \in Workers : wpc[w] = "exception" => queue[w] = 0
    /\ exceptions[0] + Cardinality(Throwing) = thrown
    /\ exceptions[1] = 0 /\ exceptions[2] = 0
    /\ pc = "next" \/ phase \in {"regions", "destroy", "killed"} => thrown = 0

PInv == TasksAccounted /\ DrainInv /\ ClosedQueues /\ ThrownInv

-------------------------------------------------------------------------------
LEMMA SubsetCard ==
    ASSUME NEW S \in SUBSET Workers
    PROVE  IsFiniteSet(S) /\ Cardinality(S) \in Nat /\ (Cardinality(S) = 0 <=> S = {})
  BY PoolAssumption, FS_Subset, FS_CardinalityType, FS_EmptySet

(* Two groups of threads that differ in w at most.                         *)
LEMMA DifferInOne ==
    ASSUME NEW A \in SUBSET Workers, NEW B \in SUBSET Workers, NEW w \in Workers,
           \A u \in Workers \ {w} : u \in A <=> u \in B
    PROVE  Cardinality(B) = Cardinality(A) + One(w \in B) - One(w \in A)
  <1>1. IsFiniteSet(A) /\ IsFiniteSet(B) /\ Cardinality(A) \in Nat /\ Cardinality(B) \in Nat
    BY SubsetCard
  <1>2. A \ {w} = B \ {w} OBVIOUS
  <1>3. /\ Cardinality(A \ {w}) = IF w \in A THEN Cardinality(A) - 1 ELSE Cardinality(A)
        /\ Cardinality(B \ {w}) = IF w \in B THEN Cardinality(B) - 1 ELSE Cardinality(B)
    BY <1>1, FS_RemoveElement
  <1>4. QED BY <1>1, <1>2, <1>3 DEF One

(* What the counts of busy threads become when one thread moves.           *)
LEMMA ThreadMoves ==
    ASSUME PoolTypeOK, NEW w \in Workers, NEW p,
           wpc' = [wpc EXCEPT ![w] = p],
           \A u \in Workers \ {w} : queue'[u] = queue[u]
    PROVE  /\ \A q \in Queues :
                /\ Cardinality(Running(q)) \in Nat
                /\ Cardinality(Running(q)') = Cardinality(Running(q))
                      + One(p \in Busy /\ queue'[w] = q) - One(wpc[w] \in Busy /\ queue[w] = q)
           /\ Cardinality(Throwing) \in Nat
           /\ Cardinality(Throwing') = Cardinality(Throwing)
                      + One(p = "exception") - One(wpc[w] = "exception")
  <1>1. wpc'[w] = p /\ \A u \in Workers \ {w} : wpc'[u] = wpc[u] BY DEF PoolTypeOK
  <1>2. ASSUME NEW q \in Queues
        PROVE  /\ Cardinality(Running(q)) \in Nat
               /\ Cardinality(Running(q)') = Cardinality(Running(q))
                      + One(p \in Busy /\ queue'[w] = q) - One(wpc[w] \in Busy /\ queue[w] = q)
    <2>1. /\ Running(q) \in SUBSET Workers /\ Running(q)' \in SUBSET Workers
          /\ \A u \in Workers \ {w} : u \in Running(q) <=> u \in Running(q)'
          /\ w \in Running(q) <=> wpc[w] \in Busy /\ queue[w] = q
          /\ w \in Running(q)' <=> p \in Busy /\ queue'[w] = q
      BY <1>1 DEF Running, Busy
    <2>2. Cardinality(Running(q)') = Cardinality(Running(q))
                      + One(w \in Running(q)') - One(w \in Running(q))
      BY <2>1, DifferInOne
    <2>3. QED BY <2>1, <2>2, SubsetCard DEF One
  <1>3. /\ Throwing \in SUBSET Workers /\ Throwing' \in SUBSET Workers
        /\ \A u \in Workers \ {w} : u \in Throwing <=> u \in Throwing'
        /\ w \in Throwing <=> wpc[w] = "exception"
        /\ w \in Throwing' <=> p = "exception"
    BY <1>1 DEF Throwing
  <1>4. QED BY <1>2, <1>3, DifferInOne, SubsetCard DEF One

(* Nothing changes for threads that are not busy before and after.         *)
LEMMA IdleThreads ==
    ASSUME PoolTypeOK, UNCHANGED queue,
           \A u \in Workers : wpc'[u] = wpc[u] \/ {wpc[u], wpc'[u]} \cap Busy = {}
    PROVE  /\ \A q \in Queues : Running(q)' = Running(q) /\ Cardinality(Running(q)) \in Nat
           /\ Throwing' = Throwing /\ Cardinality(Throwing) \in Nat
  <1>1. \A q \in Queues : Running(q)' = Running(q) /\ Running(q) \in SUBSET Workers
    BY DEF Running, Busy
  <1>2. Throwing' = Throwing /\ Throwing \in SUBSET Workers BY DEF Throwing, Busy
  <1>3. QED BY <1>1, <1>2, SubsetCard

(* A queue whose tasks are all joined has no task anywhere.                *)
LEMMA JoinedIsEmpty ==
    ASSUME TasksAccounted, NEW q \in Queues, joined[q] = created[q]
    PROVE  tasks[q] = 0 /\ Running(q) = {} /\ results[q] = 0
  <1>1. /\ created[q] = tasks[q] + Cardinality(Running(q)) + results[q] + joined[q]
        /\ tasks[q] \in Nat /\ results[q] \in Nat /\ joined[q] \in Nat
    BY DEF TasksAccounted, PoolTypeOK
  <1>2. Running(q) \in SUBSET Workers BY DEF Running
  <1>3. Cardinality(Running(q)) \in Nat /\ (Cardinality(Running(q)) = 0 => Running(q) = {})
    BY <1>2, SubsetCard
  <1>4. QED BY <1>1, <1>3

LEMMA PInvInit == Init => PInv
  <1> SUFFICES ASSUME Init PROVE PInv OBVIOUS
  <1>1. \A q \in Queues : Running(q) = {} /\ Cardinality(Running(q)) = 0
    BY FS_EmptySet DEF Init, Running
  <1>2. Throwing = {} BY DEF Init, Throwing
  <1>3. Cardinality({}) = 0 BY FS_EmptySet
  <1> 0 \in Queues BY DEF Queues
  <1>4. PoolTypeOK BY DEF Init, PoolTypeOK, Phases
  <1>5. TasksAccounted BY <1>1, <1>3, <1>4 DEF Init, TasksAccounted
  <1>6. ThrownInv BY <1>2, <1>3 DEF Init, ThrownInv, Queues
  <1>7. DrainInv BY DEF Init, DrainInv, Phases
  <1>8. ClosedQueues BY DEF Init, ClosedQueues
  <1>9. QED BY <1>5, <1>6, <1>7, <1>8 DEF PInv

-------------------------------------------------------------------------------
(* A thread falls asleep, wakes up or ends.                                *)
LEMMA IdleStep ==
    ASSUME PInv, NEW w \in Workers, GoToSleep(w) \/ Die(w) \/ SpuriousWakeup(w)
    PROVE  PInv'
  <1>1. /\ UNCHANGED <<poolVars, queue, clientVars, throws, thrown>>
        /\ \E p \in {"asleep", "get", "end"} : wpc' = [wpc EXCEPT ![w] = p]
        /\ wpc[w] \in {"get", "asleep"}
    BY DEF GoToSleep, Die, SpuriousWakeup
  <1>2. PoolTypeOK' BY <1>1 DEF PInv, TasksAccounted, PoolTypeOK, poolVars, clientVars
  <1>3. \A u \in Workers : wpc'[u] = wpc[u] \/ {wpc[u], wpc'[u]} \cap Busy = {}
    BY <1>1 DEF PInv, TasksAccounted, PoolTypeOK, Busy
  <1>4. /\ \A q \in Queues : Running(q)' = Running(q) /\ Cardinality(Running(q)) \in Nat
        /\ Throwing' = Throwing
    BY <1>1, <1>3, IdleThreads DEF PInv, TasksAccounted
  <1>5. TasksAccounted' BY <1>1, <1>2, <1>4 DEF PInv, TasksAccounted, poolVars
  <1>6. DrainInv' BY <1>1 DEF PInv, DrainInv, poolVars, clientVars
  <1>7. ClosedQueues' BY <1>1 DEF PInv, ClosedQueues, Open, poolVars, clientVars
  <1>8. ThrownInv' BY <1>1, <1>3, <1>4 DEF PInv, ThrownInv, poolVars, clientVars, Busy
  <1>9. QED BY <1>5, <1>6, <1>7, <1>8 DEF PInv

LEMMA GetTaskStep == ASSUME PInv, NEW w \in Workers, GetTask(w) PROVE PInv'
  <1>1. PICK q \in Queues :
          /\ wpc[w] = "get" /\ tasks[q] > 0
          /\ tasks' = [tasks EXCEPT ![q] = @ - 1]
          /\ wpc' = [wpc EXCEPT ![w] = "run"]
          /\ queue' = [queue EXCEPT ![w] = q]
          /\ UNCHANGED <<results, exceptions, created, joined, kill_threads,
                         clientVars, throws, thrown>>
    BY DEF GetTask
  <1>2. PoolTypeOK BY DEF PInv, TasksAccounted
  <1>a. tasks[q] \in Nat /\ tasks[q] - 1 \in Nat BY <1>1, <1>2 DEF PoolTypeOK
  <1>b. tasks' \in [Queues -> Nat] BY <1>a, <1>1, <1>2 DEF PoolTypeOK
  <1>c. queue' \in [Workers -> Queues] BY <1>1, <1>2 DEF PoolTypeOK
  <1>d. wpc' \in [Workers -> {"get", "asleep", "run", "result", "exception", "end"}]  BY <1>1, <1>2 DEF PoolTypeOK
  <1>3. PoolTypeOK' BY <1>1, <1>2, <1>b, <1>c, <1>d DEF PoolTypeOK, clientVars
  <1>4. \A u \in Workers \ {w} : queue'[u] = queue[u] BY <1>1, <1>2 DEF PoolTypeOK
  <1>5. queue'[w] = q /\ "run" \in Busy /\ wpc[w] \notin Busy BY <1>1, <1>2 DEF PoolTypeOK, Busy
  <1>e. /\ \A r \in Queues :
             /\ Cardinality(Running(r)) \in Nat
             /\ Cardinality(Running(r)') = Cardinality(Running(r))
                   + One("run" \in Busy /\ queue'[w] = r) - One(wpc[w] \in Busy /\ queue[w] = r)
        /\ Cardinality(Throwing) \in Nat
        /\ Cardinality(Throwing') = Cardinality(Throwing)
                   + One("run" = "exception") - One(wpc[w] = "exception")
    BY <1>1, <1>2, <1>4, ThreadMoves
  <1>f. \A r \in Queues : /\ One("run" \in Busy /\ queue'[w] = r) = One(r = q)
                          /\ One(wpc[w] \in Busy /\ queue[w] = r) = 0
    BY <1>5 DEF One
  <1>6. /\ \A r \in Queues : Cardinality(Running(r)') = Cardinality(Running(r)) + One(r = q)
        /\ Cardinality(Throwing') = Cardinality(Throwing)
    <2>1. One("run" = "exception") = 0 /\ One(wpc[w] = "exception") = 0 BY <1>1 DEF One
    <2>2. \A b : One(b) \in {0, 1} BY DEF One
    <2>3. QED BY <1>e, <1>f, <2>1, <2>2
  <1>g. ASSUME NEW r \in Queues
        PROVE  created'[r] = tasks'[r] + Cardinality(Running(r)') + results'[r] + joined'[r]
    <2>1. /\ created[r] = tasks[r] + Cardinality(Running(r)) + results[r] + joined[r]
          /\ tasks[r] \in Nat /\ results[r] \in Nat /\ joined[r] \in Nat /\ created[r] \in Nat
      BY DEF PInv, TasksAccounted, PoolTypeOK
    <2>2. tasks'[r] = tasks[r] - One(r = q) BY <1>1, <1>2, <2>1, SMTT(30) DEF PoolTypeOK, One
    <2>3. One(r = q) \in {0, 1} BY DEF One
    <2>4. QED BY <1>1, <1>e, <1>6, <2>1, <2>2, <2>3
  <1>7. TasksAccounted' BY <1>3, <1>g DEF TasksAccounted
  <1>8. DrainInv' BY <1>1 DEF PInv, DrainInv, clientVars
  <1>9. ClosedQueues' BY <1>1 DEF PInv, ClosedQueues, Open, clientVars
  <1>10. ThrownInv' BY <1>1, <1>2, <1>4, <1>6 DEF PInv, ThrownInv, PoolTypeOK, clientVars
  <1>11. QED BY <1>7, <1>8, <1>9, <1>10 DEF PInv
(* A task returns or throws, and its exception is handed over: its thread  *)
(* stays busy with the same queue.                                         *)
LEMMA BusyStays ==
    ASSUME PoolTypeOK, NEW w \in Workers, NEW p \in Busy, wpc[w] \in Busy,
           wpc' = [wpc EXCEPT ![w] = p], UNCHANGED queue
    PROVE  /\ \A q \in Queues : Running(q)' = Running(q)
           /\ \A u \in Workers \ {w} : wpc'[u] = wpc[u]
           /\ wpc'[w] = p
           /\ wpc' \in [Workers -> {"get", "asleep", "run", "result", "exception", "end"}]
  <1>1. wpc' \in [Workers -> {"get", "asleep", "run", "result", "exception", "end"}]
    BY DEF PoolTypeOK, Busy
  <1>2. wpc'[w] = p /\ \A u \in Workers \ {w} : wpc'[u] = wpc[u] BY DEF PoolTypeOK
  <1>3. QED BY <1>1, <1>2 DEF Running, Busy

LEMMA TaskReturnsStep == ASSUME PInv, NEW w \in Workers, TaskReturns(w) PROVE PInv'
  <1>1. /\ wpc[w] = "run" /\ wpc' = [wpc EXCEPT ![w] = "result"]
        /\ UNCHANGED <<poolVars, queue, clientVars, throws, thrown>>
    BY DEF TaskReturns
  <1>2. PoolTypeOK BY DEF PInv, TasksAccounted
  <1>3. /\ \A q \in Queues : Running(q)' = Running(q)
        /\ \A u \in Workers \ {w} : wpc'[u] = wpc[u]
        /\ wpc'[w] = "result"
        /\ wpc' \in [Workers -> {"get", "asleep", "run", "result", "exception", "end"}]
    <2>1. "result" \in Busy /\ wpc[w] \in Busy /\ UNCHANGED queue BY <1>1 DEF Busy
    <2>2. QED BY <1>1, <1>2, <2>1, BusyStays
  <1>4. PoolTypeOK' BY <1>1, <1>2, <1>3 DEF PoolTypeOK, poolVars, clientVars
  <1>5. TasksAccounted' BY <1>1, <1>3, <1>4 DEF PInv, TasksAccounted, poolVars
  <1>6. DrainInv' BY <1>1 DEF PInv, DrainInv, poolVars, clientVars
  <1>7. ClosedQueues' BY <1>1 DEF PInv, ClosedQueues, Open, poolVars, clientVars
  <1>8. Throwing' = Throwing BY <1>1, <1>3 DEF Throwing
  <1>9. ThrownInv' BY <1>1, <1>3, <1>8 DEF PInv, ThrownInv, poolVars, clientVars
  <1>10. QED BY <1>5, <1>6, <1>7, <1>9 DEF PInv

LEMMA TaskThrowsStep == ASSUME PInv, NEW w \in Workers, TaskThrows(w) PROVE PInv'
  <1>1. /\ wpc[w] = "run" /\ wpc' = [wpc EXCEPT ![w] = "exception"]
        /\ queue[w] = 0 /\ phase = "fill" /\ thrown' = thrown + 1
        /\ UNCHANGED <<poolVars, queue, clientVars>>
    BY DEF TaskThrows
  <1>2. PoolTypeOK BY DEF PInv, TasksAccounted
  <1>3. /\ \A q \in Queues : Running(q)' = Running(q)
        /\ \A u \in Workers \ {w} : wpc'[u] = wpc[u]
        /\ wpc'[w] = "exception"
        /\ wpc' \in [Workers -> {"get", "asleep", "run", "result", "exception", "end"}]
    <2>1. "exception" \in Busy /\ wpc[w] \in Busy /\ UNCHANGED queue BY <1>1 DEF Busy
    <2>2. QED BY <1>1, <1>2, <2>1, BusyStays
  <1>4. PoolTypeOK' BY <1>1, <1>2, <1>3 DEF PoolTypeOK, poolVars, clientVars
  <1>5. TasksAccounted' BY <1>1, <1>3, <1>4 DEF PInv, TasksAccounted, poolVars
  <1>6. DrainInv' BY <1>1 DEF PInv, DrainInv, poolVars, clientVars
  <1>7. ClosedQueues' BY <1>1 DEF PInv, ClosedQueues, Open, poolVars, clientVars
  <1>8. Cardinality(Throwing) \in Nat /\ Cardinality(Throwing') = Cardinality(Throwing) + 1
    <2>1. Throwing \in SUBSET Workers /\ Throwing' \in SUBSET Workers BY DEF Throwing
    <2>2. /\ \A u \in Workers \ {w} : u \in Throwing <=> u \in Throwing'
          /\ w \notin Throwing /\ w \in Throwing'
      BY <1>1, <1>3 DEF Throwing
    <2>3. Cardinality(Throwing') = Cardinality(Throwing) + One(w \in Throwing') - One(w \in Throwing)
      BY <2>1, <2>2, DifferInOne
    <2>4. One(w \in Throwing') = 1 /\ One(w \in Throwing) = 0 BY <2>2 DEF One
    <2>5. QED BY <2>1, <2>3, <2>4, SubsetCard
  <1>9. w \in Running(0) BY <1>1 DEF Running
  <1>10. pc # "next"
    <2>1. SUFFICES ASSUME pc = "next" PROVE FALSE OBVIOUS
    <2>2. ~Open(0) BY <1>1, <2>1 DEF PInv, DrainInv, Open
    <2>3. joined[0] = created[0] BY <2>2 DEF PInv, ClosedQueues, Queues
    <2>4. QED BY <1>9, <2>3, JoinedIsEmpty DEF PInv, Queues
  <1>11. exceptions[0] \in Nat BY <1>2 DEF PoolTypeOK, Queues
  <1>12. ThrownInv'
    <2>1. \A u \in Workers : wpc'[u] = "exception" => queue'[u] = 0
      BY <1>1, <1>3 DEF PInv, ThrownInv
    <2>2. exceptions'[0] + Cardinality(Throwing') = thrown'
      BY <1>1, <1>8, <1>11 DEF PInv, ThrownInv, poolVars
    <2>3. exceptions'[1] = 0 /\ exceptions'[2] = 0 BY <1>1 DEF PInv, ThrownInv, poolVars
    <2>4. ~(pc' = "next" \/ phase' \in {"regions", "destroy", "killed"}) BY <1>1, <1>10 DEF clientVars
    <2>5. QED BY <2>1, <2>2, <2>3, <2>4 DEF ThrownInv
  <1>13. QED BY <1>5, <1>6, <1>7, <1>12 DEF PInv

LEMMA AddExceptionStep == ASSUME PInv, NEW w \in Workers, AddException(w) PROVE PInv'
  <1>1. /\ wpc[w] = "exception" /\ wpc' = [wpc EXCEPT ![w] = "result"]
        /\ exceptions' = [exceptions EXCEPT ![queue[w]] = @ + 1]
        /\ pc' \in {pc, "drain"} /\ (pc' # pc => pc = "drain_asleep")
        /\ UNCHANGED <<tasks, results, created, joined, kill_threads, queue,
                       phase, toAdd, toDrain, cr, sq, throws, thrown>>
    BY DEF AddException, WakeListener
  <1>2. PoolTypeOK /\ queue[w] = 0 BY <1>1 DEF PInv, TasksAccounted, ThrownInv
  <1>3. /\ \A q \in Queues : Running(q)' = Running(q)
        /\ \A u \in Workers \ {w} : wpc'[u] = wpc[u]
        /\ wpc'[w] = "result"
        /\ wpc' \in [Workers -> {"get", "asleep", "run", "result", "exception", "end"}]
    <2>1. "result" \in Busy /\ wpc[w] \in Busy /\ UNCHANGED queue BY <1>1 DEF Busy
    <2>2. QED BY <1>1, <1>2, <2>1, BusyStays
  <1>4. /\ 0 \in Queues /\ 1 \in Queues /\ 2 \in Queues
        /\ exceptions[0] \in Nat
        /\ exceptions' = [exceptions EXCEPT ![0] = exceptions[0] + 1]
    BY <1>1, <1>2 DEF PoolTypeOK, Queues
  <1>5. exceptions' \in [Queues -> Nat]
    <2>1. exceptions[0] + 1 \in Nat BY <1>4
    <2>2. QED BY <1>2, <1>4, <2>1 DEF PoolTypeOK
  <1>6. PoolTypeOK' BY <1>1, <1>2, <1>3, <1>5 DEF PoolTypeOK
  <1>7. TasksAccounted' BY <1>1, <1>3, <1>6 DEF PInv, TasksAccounted
  <1>8. DrainInv' BY <1>1 DEF PInv, DrainInv
  <1>9. ClosedQueues' BY <1>1 DEF PInv, ClosedQueues, Open
  <1>10. Cardinality(Throwing) \in Nat /\ Cardinality(Throwing') = Cardinality(Throwing) - 1
    <2>1. Throwing \in SUBSET Workers /\ Throwing' \in SUBSET Workers BY DEF Throwing
    <2>2. /\ \A u \in Workers \ {w} : u \in Throwing <=> u \in Throwing'
          /\ w \in Throwing /\ w \notin Throwing'
      BY <1>1, <1>3 DEF Throwing
    <2>3. Cardinality(Throwing') = Cardinality(Throwing) + One(w \in Throwing') - One(w \in Throwing)
      BY <2>1, <2>2, DifferInOne
    <2>4. One(w \in Throwing') = 0 /\ One(w \in Throwing) = 1 BY <2>2 DEF One
    <2>5. QED BY <2>1, <2>3, <2>4, SubsetCard
  <1>11. ThrownInv'
    <2>1. \A u \in Workers : wpc'[u] = "exception" => queue'[u] = 0
      BY <1>1, <1>3 DEF PInv, ThrownInv
    <2>2. exceptions'[0] = exceptions[0] + 1 /\ exceptions'[1] = exceptions[1]
          /\ exceptions'[2] = exceptions[2]
      BY <1>2, <1>4 DEF PoolTypeOK
    <2>3. exceptions'[0] + Cardinality(Throwing') = thrown'
      BY <1>1, <1>4, <1>10, <2>2 DEF PInv, ThrownInv
    <2>4. QED BY <1>1, <2>1, <2>2, <2>3 DEF PInv, ThrownInv
  <1>12. QED BY <1>7, <1>8, <1>9, <1>11 DEF PInv

LEMMA AddResultStep == ASSUME PInv, NEW w \in Workers, AddResult(w) PROVE PInv'
  <1>1. /\ wpc[w] = "result" /\ wpc' = [wpc EXCEPT ![w] = "get"]
        /\ results' = [results EXCEPT ![queue[w]] = @ + 1]
        /\ pc' \in {pc, "drain"} /\ (pc' # pc => pc = "drain_asleep")
        /\ UNCHANGED <<tasks, exceptions, created, joined, kill_threads, queue,
                       phase, toAdd, toDrain, cr, sq, throws, thrown>>
    BY DEF AddResult, WakeListener
  <1>2. PoolTypeOK /\ queue[w] \in Queues BY DEF PInv, TasksAccounted, PoolTypeOK
  <1>3. /\ wpc' \in [Workers -> {"get", "asleep", "run", "result", "exception", "end"}]
        /\ wpc'[w] = "get" /\ \A u \in Workers \ {w} : wpc'[u] = wpc[u]
    BY <1>1, <1>2 DEF PoolTypeOK
  <1>4. results[queue[w]] + 1 \in Nat BY <1>2 DEF PoolTypeOK
  <1>5. results' \in [Queues -> Nat] BY <1>1, <1>2, <1>4 DEF PoolTypeOK
  <1>6. PoolTypeOK' BY <1>1, <1>2, <1>3, <1>5 DEF PoolTypeOK
  <1>7. \A r \in Queues :
             /\ Cardinality(Running(r)) \in Nat
             /\ Cardinality(Running(r)') = Cardinality(Running(r))
                   + One("get" \in Busy /\ queue'[w] = r) - One(wpc[w] \in Busy /\ queue[w] = r)
    BY <1>1, <1>2, ThreadMoves
  <1>8. ASSUME NEW r \in Queues
        PROVE  created'[r] = tasks'[r] + Cardinality(Running(r)') + results'[r] + joined'[r]
    <2>1. /\ created[r] = tasks[r] + Cardinality(Running(r)) + results[r] + joined[r]
          /\ tasks[r] \in Nat /\ results[r] \in Nat /\ joined[r] \in Nat /\ created[r] \in Nat
      BY DEF PInv, TasksAccounted, PoolTypeOK
    <2>2. results'[r] = results[r] + One(r = queue[w]) BY <1>1, <1>2, <2>1 DEF PoolTypeOK, One
    <2>3. One("get" \in Busy /\ queue'[w] = r) = 0 BY DEF One, Busy
    <2>4. One(wpc[w] \in Busy /\ queue[w] = r) = One(r = queue[w]) BY <1>1 DEF One, Busy
    <2>5. One(r = queue[w]) \in {0, 1} BY DEF One
    <2>6. QED BY <1>1, <1>7, <2>1, <2>2, <2>3, <2>4, <2>5
  <1>9. TasksAccounted' BY <1>6, <1>8 DEF TasksAccounted
  <1>10. DrainInv' BY <1>1 DEF PInv, DrainInv
  <1>11. ClosedQueues' BY <1>1 DEF PInv, ClosedQueues, Open
  <1>12. Throwing' = Throwing BY <1>1, <1>3 DEF Throwing
  <1>13. ThrownInv' BY <1>1, <1>3, <1>12 DEF PInv, ThrownInv
  <1>14. QED BY <1>9, <1>10, <1>11, <1>13 DEF PInv

(* add_task(), by a thread or by the client: the new task waits in its     *)
(* queue, and the thread that is signalled is not busy.                    *)
LEMMA AddTaskCounts ==
    ASSUME TasksAccounted, NEW q \in Queues, AddTask(q), UNCHANGED <<results, joined, queue>>
    PROVE  /\ wpc' \in [Workers -> {"get", "asleep", "run", "result", "exception", "end"}]
           /\ tasks' \in [Queues -> Nat] /\ created' \in [Queues -> Nat]
           /\ \A r \in Queues \ {q} : created'[r] = created[r]
           /\ \A r \in Queues : created'[r] = tasks'[r] + Cardinality(Running(r)') + results'[r] + joined'[r]
           /\ \A u \in Workers : wpc'[u] = "exception" => wpc[u] = "exception"
           /\ Throwing' = Throwing
  <1>1. /\ tasks' = [tasks EXCEPT ![q] = @ + 1] /\ created' = [created EXCEPT ![q] = @ + 1]
        /\ PoolTypeOK
    BY DEF AddTask, TasksAccounted
  <1>2. tasks[q] + 1 \in Nat /\ created[q] + 1 \in Nat BY <1>1 DEF PoolTypeOK
  <1>3. tasks' \in [Queues -> Nat] /\ created' \in [Queues -> Nat] BY <1>1, <1>2 DEF PoolTypeOK
  <1>4. \/ UNCHANGED wpc
        \/ \E w \in Workers : wpc[w] = "asleep" /\ wpc' = [wpc EXCEPT ![w] = "get"]
    BY DEF AddTask, Signal
  <1>5. /\ wpc' \in [Workers -> {"get", "asleep", "run", "result", "exception", "end"}]
        /\ \A u \in Workers : wpc'[u] = wpc[u] \/ (wpc[u] = "asleep" /\ wpc'[u] = "get")
    BY <1>1, <1>4 DEF PoolTypeOK
  <1>6. \A u \in Workers : wpc'[u] = wpc[u] \/ {wpc[u], wpc'[u]} \cap Busy = {} BY <1>5 DEF Busy
  <1>7. /\ \A r \in Queues : Running(r)' = Running(r) /\ Cardinality(Running(r)) \in Nat
        /\ Throwing' = Throwing
    BY <1>1, <1>6, IdleThreads
  <1>8. ASSUME NEW r \in Queues
        PROVE  /\ created'[r] = tasks'[r] + Cardinality(Running(r)') + results'[r] + joined'[r]
               /\ r # q => created'[r] = created[r]
    <2>1. /\ created[r] = tasks[r] + Cardinality(Running(r)) + results[r] + joined[r]
          /\ tasks[r] \in Nat /\ results[r] \in Nat /\ joined[r] \in Nat /\ created[r] \in Nat
      BY DEF TasksAccounted, PoolTypeOK
    <2>2. /\ tasks'[r] = tasks[r] + One(r = q) /\ created'[r] = created[r] + One(r = q)
      BY <1>1, <2>1 DEF PoolTypeOK, One
    <2>3. One(r = q) \in {0, 1} /\ (r # q => One(r = q) = 0) BY DEF One
    <2>4. QED BY <1>7, <2>1, <2>2, <2>3
  <1>9. QED BY <1>3, <1>5, <1>7, <1>8

LEMMA DetachStep == ASSUME PInv, NEW w \in Workers, Detach(w) PROVE PInv'
  <1>1. /\ wpc[w] = "run" /\ queue[w] = 0 /\ phase = "regions" /\ AddTask(1)
        /\ UNCHANGED <<results, exceptions, joined, kill_threads, queue, clientVars, throws, thrown>>
        /\ 1 \in Queues /\ 0 \in Queues /\ TasksAccounted /\ PoolTypeOK
    BY DEF Detach, PInv, TasksAccounted, Queues
  <1>2. /\ wpc' \in [Workers -> {"get", "asleep", "run", "result", "exception", "end"}]
        /\ tasks' \in [Queues -> Nat] /\ created' \in [Queues -> Nat]
        /\ \A r \in Queues \ {1} : created'[r] = created[r]
        /\ \A r \in Queues : created'[r] = tasks'[r] + Cardinality(Running(r)') + results'[r] + joined'[r]
        /\ \A u \in Workers : wpc'[u] = "exception" => wpc[u] = "exception"
        /\ Throwing' = Throwing
    BY <1>1, AddTaskCounts
  <1>3. PoolTypeOK' BY <1>1, <1>2 DEF PoolTypeOK, clientVars
  <1>4. TasksAccounted' BY <1>2, <1>3 DEF TasksAccounted
  <1>5. DrainInv'
    <2>1. cr >= 0 => toDrain = <<0>> BY <1>1 DEF PInv, DrainInv, Phases, QueueOf
    <2>2. Head(<<0>>) = 0 /\ created'[0] = created[0] BY <1>1, <1>2
    <2>3. cr >= 0 => toDrain # <<>> /\ cr = created'[Head(toDrain)]
      BY <2>1, <2>2 DEF PInv, DrainInv
    <2>4. QED BY <1>1, <2>3 DEF PInv, DrainInv, clientVars
  <1>6. ClosedQueues'
    <2>1. ASSUME NEW r \in Queues, ~Open(r)' PROVE joined'[r] = created'[r]
      <3>1. ~Open(r) /\ r # 1 BY <1>1, <2>1 DEF Open, clientVars, Phases
      <3>2. QED BY <1>1, <1>2, <3>1 DEF PInv, ClosedQueues
    <2>2. QED BY <2>1 DEF ClosedQueues
  <1>7. ThrownInv' BY <1>1, <1>2 DEF PInv, ThrownInv, clientVars
  <1>8. QED BY <1>4, <1>5, <1>6, <1>7 DEF PInv

LEMMA ClientAddsTaskStep == ASSUME PInv, ClientAddsTask PROVE PInv'
  <1>1. /\ pc = "add" /\ toAdd > 0 /\ AddTask(QueueOf(phase)) /\ toAdd' = toAdd - 1
        /\ UNCHANGED <<results, exceptions, joined, kill_threads, queue,
                       pc, phase, toDrain, cr, sq, throws, thrown>>
        /\ QueueOf(phase) \in Queues /\ TasksAccounted /\ PoolTypeOK
    BY DEF ClientAddsTask, PInv, TasksAccounted, Queues, QueueOf
  <1>2. /\ wpc' \in [Workers -> {"get", "asleep", "run", "result", "exception", "end"}]
        /\ tasks' \in [Queues -> Nat] /\ created' \in [Queues -> Nat]
        /\ \A r \in Queues \ {QueueOf(phase)} : created'[r] = created[r]
        /\ \A r \in Queues : created'[r] = tasks'[r] + Cardinality(Running(r)') + results'[r] + joined'[r]
        /\ \A u \in Workers : wpc'[u] = "exception" => wpc[u] = "exception"
        /\ Throwing' = Throwing
    BY <1>1, AddTaskCounts
  <1>3. toAdd' \in Nat BY <1>1 DEF PoolTypeOK
  <1>4. PoolTypeOK' BY <1>1, <1>2, <1>3 DEF PoolTypeOK
  <1>5. TasksAccounted' BY <1>2, <1>4 DEF TasksAccounted
  <1>6. toDrain = <<>> /\ ~(cr >= 0) BY <1>1 DEF PInv, DrainInv
  <1>7. DrainInv' BY <1>1, <1>6 DEF PInv, DrainInv
  <1>8. ClosedQueues'
    <2>1. phase \in Phases BY <1>1 DEF PInv, DrainInv, PoolTypeOK
    <2>2. ASSUME NEW r \in Queues, ~Open(r)' PROVE joined'[r] = created'[r]
      <3>1. ~Open(r) /\ r # QueueOf(phase) BY <1>1, <2>1, <2>2 DEF Open
      <3>2. QED BY <1>1, <1>2, <3>1 DEF PInv, ClosedQueues
    <2>3. QED BY <2>2 DEF ClosedQueues
  <1>9. ThrownInv' BY <1>1, <1>2 DEF PInv, ThrownInv
  <1>10. QED BY <1>5, <1>7, <1>8, <1>9 DEF PInv

-------------------------------------------------------------------------------
(* The client's steps leave the threads alone.                             *)
LEMMA ClientCounts ==
    ASSUME PoolTypeOK, UNCHANGED workVars
    PROVE  /\ \A q \in Queues : Running(q)' = Running(q) /\ Cardinality(Running(q)) \in Nat
           /\ Throwing' = Throwing
  <1>1. UNCHANGED wpc /\ UNCHANGED queue BY DEF workVars
  <1>2. QED BY <1>1, IdleThreads

(* A step of the client that leaves the threads and the queues alone.      *)
LEMMA ClientMoves ==
    ASSUME PInv, UNCHANGED <<poolVars, workVars>>,
           pc' \in {"next", "add", "drain", "drain_asleep", "end"},
           phase' \in Phases \cup {"destroy", "killed"},
           toAdd' \in Nat, toDrain' \in Seq(Queues), cr' \in Nat \cup {-1}
    PROVE  TasksAccounted'
  <1>1. PoolTypeOK BY DEF PInv, TasksAccounted
  <1>2. PoolTypeOK' BY <1>1 DEF PoolTypeOK, poolVars, workVars
  <1>3. \A q \in Queues : Running(q)' = Running(q) BY <1>1, ClientCounts
  <1>4. QED BY <1>2, <1>3 DEF PInv, TasksAccounted, poolVars

LEMMA JoinDetachedStep == ASSUME PInv, JoinDetached PROVE PInv'
  <1>1. /\ pc = "next" /\ results[1] > 0 /\ 1 \in Queues /\ PoolTypeOK
        /\ results' = [results EXCEPT ![1] = @ - 1]
        /\ joined' = [joined EXCEPT ![1] = @ + 1]
        /\ UNCHANGED <<tasks, exceptions, created, kill_threads, workVars,
                       clientVars, throws, thrown>>
    BY DEF JoinDetached, PInv, TasksAccounted, Queues
  <1>2. results[1] - 1 \in Nat /\ joined[1] + 1 \in Nat BY <1>1 DEF PoolTypeOK
  <1>3. results' \in [Queues -> Nat] /\ joined' \in [Queues -> Nat] BY <1>1, <1>2 DEF PoolTypeOK
  <1>4. PoolTypeOK' BY <1>1, <1>3 DEF PoolTypeOK, workVars, clientVars
  <1>5. /\ \A q \in Queues : Running(q)' = Running(q) /\ Cardinality(Running(q)) \in Nat
        /\ Throwing' = Throwing
    BY <1>1, ClientCounts
  <1>6. ASSUME NEW r \in Queues
        PROVE  created'[r] = tasks'[r] + Cardinality(Running(r)') + results'[r] + joined'[r]
    <2>1. /\ created[r] = tasks[r] + Cardinality(Running(r)) + results[r] + joined[r]
          /\ tasks[r] \in Nat /\ results[r] \in Nat /\ joined[r] \in Nat
      BY DEF PInv, TasksAccounted, PoolTypeOK
    <2>2. results'[r] + joined'[r] = results[r] + joined[r]
      BY <1>1, <2>1 DEF PoolTypeOK
    <2>3. /\ Cardinality(Running(r)') = Cardinality(Running(r)) /\ Cardinality(Running(r)) \in Nat
          /\ tasks'[r] = tasks[r] /\ created'[r] = created[r]
          /\ results'[r] \in Nat /\ joined'[r] \in Nat
      BY <1>1, <1>3, <1>5
    <2>4. QED BY <2>1, <2>2, <2>3
  <1>7. TasksAccounted' BY <1>4, <1>6 DEF TasksAccounted
  <1>8. DrainInv' BY <1>1 DEF PInv, DrainInv, clientVars
  <1>9. ClosedQueues'
    <2>1. phase \in Phases BY <1>1 DEF PInv, DrainInv, PoolTypeOK
    <2>2. ASSUME NEW r \in Queues, ~Open(r)' PROVE joined'[r] = created'[r]
      <3>1. ~Open(r) /\ r # 1 BY <1>1, <2>1, <2>2 DEF Open, clientVars
      <3>2. joined'[r] = joined[r] BY <1>1, <3>1 DEF PoolTypeOK
      <3>3. QED BY <1>1, <3>1, <3>2 DEF PInv, ClosedQueues
    <2>3. QED BY <2>2 DEF ClosedQueues
  <1>10. ThrownInv' BY <1>1, <1>5 DEF PInv, ThrownInv, workVars, clientVars
  <1>11. QED BY <1>7, <1>8, <1>9, <1>10 DEF PInv

(* The steps between the phases.  One that ends the filling of the buckets *)
(* finds no thread that still has to hand over an exception.               *)
LEMMA FillDrained ==
    ASSUME PInv, Drained("fill")
    PROVE  Throwing = {} /\ exceptions[0] = thrown
  <1>1. ~Open(0) /\ 0 \in Queues BY DEF Drained, Open, Phases, Queues, PInv, DrainInv
  <1>2. Running(0) = {} BY <1>1, JoinedIsEmpty DEF PInv, ClosedQueues
  <1>3. Throwing = {} BY <1>2 DEF Running, Throwing, PInv, ThrownInv
  <1>4. Cardinality(Throwing) = 0 BY <1>3, FS_EmptySet
  <1>5. exceptions[0] \in Nat BY <1>1 DEF PInv, TasksAccounted, PoolTypeOK
  <1>6. QED BY <1>3, <1>4, <1>5 DEF PInv, ThrownInv

LEMMA StartPhaseStep ==
    ASSUME PInv, NEW p \in Phases, StartPhase(p), pc = "next" \/ (pc = "drain" /\ phase \in Phases),
           toDrain = <<>>, p # "regions",
           UNCHANGED <<poolVars, workVars, toDrain, cr, thrown>>
    PROVE  PInv'
  <1>1. /\ pc' = "add" /\ phase' = p /\ toAdd' \in Nat /\ toDrain' = <<>> /\ cr' = cr
        /\ toDrain' \in Seq(Queues) /\ cr \in Nat \cup {-1} /\ PoolTypeOK
    BY PoolAssumption DEF StartPhase, PInv, TasksAccounted, PoolTypeOK
  <1>2. TasksAccounted' BY <1>1, ClientMoves
  <1>3. phase \in Phases BY <1>1 DEF PInv, DrainInv, PoolTypeOK
  <1>4. ~(cr >= 0) BY DEF PInv, DrainInv
  <1>5. DrainInv' BY <1>1, <1>3, <1>4 DEF PInv, DrainInv, poolVars, Phases
  <1>6. ClosedQueues'
    <2>1. ASSUME NEW r \in Queues, ~Open(r)' PROVE joined'[r] = created'[r]
      <3>1. ~Open(r) BY <1>1, <1>3, <2>1 DEF Open
      <3>2. QED BY <3>1 DEF PInv, ClosedQueues, poolVars
    <2>2. QED BY <2>1 DEF ClosedQueues
  <1>7. Throwing' = Throwing BY <1>1, ClientCounts
  <1>8. ThrownInv' BY <1>1, <1>7 DEF PInv, ThrownInv, poolVars, workVars, Phases
  <1>9. QED BY <1>2, <1>5, <1>6, <1>8 DEF PInv

LEMMA NewPhaseStep == ASSUME PInv, StartSpecialQ \/ Allocated \/ CheckThrows PROVE PInv'
  <1>1. CASE StartSpecialQ
    <2>1. "alloc" \in Phases /\ "alloc" # "regions" BY DEF Phases
    <2>2. toDrain = <<>> BY <1>1 DEF StartSpecialQ, PInv, DrainInv
    <2>3. QED BY <1>1, <2>1, <2>2, StartPhaseStep DEF StartSpecialQ
  <1>2. CASE Allocated
    <2>1. "fill" \in Phases /\ "fill" # "regions" /\ "alloc" \in Phases BY DEF Phases
    <2>2. QED BY <1>2, <2>1, StartPhaseStep DEF Allocated, Drained
  <1>3. CASE CheckThrows
    <2>1. "fill" \in Phases /\ "alloc" # "regions" /\ "alloc" \in Phases BY DEF Phases
    <2>2. QED BY <1>3, <2>1, StartPhaseStep DEF CheckThrows, Drained
  <1>4. QED BY <1>1, <1>2, <1>3

LEMMA GetExceptionsStep == ASSUME PInv, GetExceptions PROVE PInv'
  <1>1. /\ Drained("fill") /\ thrown' = 0 /\ PoolTypeOK /\ 0 \in Queues
        /\ exceptions' = [exceptions EXCEPT ![0] = 0]
        /\ UNCHANGED <<tasks, results, created, joined, kill_threads, workVars, toDrain, cr, sq, throws>>
    BY DEF GetExceptions, PInv, TasksAccounted, Queues
  <1>2. pc' = "add" /\ phase' \in Phases /\ toAdd' \in Nat
    BY PoolAssumption DEF GetExceptions, StartPhase, Phases
  <1>3. pc = "drain" /\ toDrain = <<>> /\ phase = "fill" BY <1>1 DEF Drained
  <1>4. exceptions' \in [Queues -> Nat] BY <1>1 DEF PoolTypeOK
  <1>5. PoolTypeOK' BY <1>1, <1>2, <1>4 DEF PoolTypeOK, workVars
  <1>6. (\A q \in Queues : Running(q)' = Running(q)) /\ Throwing' = Throwing
    BY <1>1, ClientCounts
  <1>7. TasksAccounted' BY <1>1, <1>5, <1>6 DEF PInv, TasksAccounted
  <1>8. ~(cr >= 0) BY <1>3 DEF PInv, DrainInv
  <1>9. DrainInv' BY <1>1, <1>2, <1>3, <1>8 DEF PInv, DrainInv, Phases
  <1>10. ClosedQueues'
    <2>1. ASSUME NEW r \in Queues, ~Open(r)' PROVE joined'[r] = created'[r]
      <3>1. ~Open(r) BY <1>2, <1>3, <2>1 DEF Open
      <3>2. QED BY <1>1, <3>1 DEF PInv, ClosedQueues
    <2>2. QED BY <2>1 DEF ClosedQueues
  <1>11. ThrownInv'
    <2>1. Cardinality(Throwing') = 0 BY <1>1, <1>6, FillDrained, FS_EmptySet
    <2>2. exceptions'[0] = 0 /\ exceptions'[1] = exceptions[1] /\ exceptions'[2] = exceptions[2]
      BY <1>1 DEF PoolTypeOK, Queues
    <2>3. QED BY <1>1, <2>1, <2>2 DEF PInv, ThrownInv, workVars
  <1>12. QED BY <1>7, <1>9, <1>10, <1>11 DEF PInv

LEMMA ClientDrainsStep == ASSUME PInv, ClientDrains PROVE PInv'
  <1>1. /\ pc = "add" /\ pc' = "drain" /\ toDrain' = <<QueueOf(phase)>>
        /\ UNCHANGED <<poolVars, workVars, phase, toAdd, cr, sq, throws, thrown>>
        /\ PoolTypeOK
    BY DEF ClientDrains, PInv, TasksAccounted
  <1>2. toDrain' \in Seq(Queues) BY <1>1 DEF QueueOf, Queues
  <1>3. TasksAccounted' BY <1>1, <1>2, ClientMoves DEF PoolTypeOK
  <1>4. phase \in Phases /\ toDrain = <<>> /\ ~(cr >= 0) BY <1>1 DEF PInv, DrainInv, PoolTypeOK
  <1>5. DrainInv' BY <1>1, <1>4 DEF PInv, DrainInv, poolVars, Phases
  <1>6. ClosedQueues'
    <2>1. ASSUME NEW r \in Queues, ~Open(r)' PROVE joined'[r] = created'[r]
      <3>1. ~Open(r) BY <1>1, <1>4, <2>1 DEF Open
      <3>2. QED BY <1>1, <3>1 DEF PInv, ClosedQueues, poolVars
    <2>2. QED BY <2>1 DEF ClosedQueues
  <1>7. Throwing' = Throwing BY <1>1, ClientCounts
  <1>8. ThrownInv' BY <1>1, <1>7 DEF PInv, ThrownInv, poolVars, workVars
  <1>9. QED BY <1>3, <1>5, <1>6, <1>8 DEF PInv

LEMMA ClientGoesOnStep == ASSUME PInv, ListenerSpuriousWakeup \/ RegionsDone \/ Join PROVE PInv'
  <1>1. /\ pc' \in {"drain", "next", "end"} /\ PoolTypeOK
        /\ UNCHANGED <<poolVars, workVars, phase, toAdd, toDrain, cr, sq, throws, thrown>>
        /\ pc # "add"
    BY DEF ListenerSpuriousWakeup, RegionsDone, Join, Drained, PInv, TasksAccounted
  <1>2. TasksAccounted' BY <1>1, ClientMoves DEF PoolTypeOK
  <1>3. DrainInv' BY <1>1 DEF PInv, DrainInv, poolVars, Phases, ListenerSpuriousWakeup, RegionsDone, Join, Drained
  <1>4. ClosedQueues'
    <2>1. ASSUME NEW r \in Queues, ~Open(r)' PROVE joined'[r] = created'[r]
      <3>1. ~Open(r) BY <1>1, <2>1 DEF Open
      <3>2. QED BY <1>1, <3>1 DEF PInv, ClosedQueues, poolVars
    <2>2. QED BY <2>1 DEF ClosedQueues
  <1>5. Throwing' = Throwing BY <1>1, ClientCounts
  <1>6. ThrownInv' BY <1>1, <1>5 DEF PInv, ThrownInv, poolVars, workVars, ListenerSpuriousWakeup, RegionsDone, Join, Drained
  <1>7. QED BY <1>2, <1>3, <1>4, <1>6 DEF PInv

LEMMA DestroyStep == ASSUME PInv, Destroy PROVE PInv'
  <1>1. /\ pc = "next" /\ pc' = "drain" /\ phase' = "destroy" /\ toDrain' = <<0, 1, 2>>
        /\ UNCHANGED <<poolVars, workVars, toAdd, cr, sq, throws, thrown>> /\ PoolTypeOK
    BY DEF Destroy, AllQueues, PInv, TasksAccounted
  <1>2. toDrain' \in Seq(Queues) BY <1>1 DEF Queues
  <1>3. TasksAccounted' BY <1>1, <1>2, ClientMoves DEF PoolTypeOK
  <1>4. phase \in Phases /\ toDrain = <<>> /\ ~(cr >= 0) BY <1>1 DEF PInv, DrainInv, PoolTypeOK
  <1>5. DrainInv' BY <1>1, <1>4 DEF PInv, DrainInv, poolVars, Phases
  <1>6. ClosedQueues'
    <2>1. ASSUME NEW r \in Queues, ~Open(r)' PROVE joined'[r] = created'[r]
      <3>1. r # 1 BY <1>1, <2>1 DEF Open
      <3>2. ~Open(r) BY <1>1, <1>4, <3>1 DEF Open
      <3>3. QED BY <1>1, <3>2 DEF PInv, ClosedQueues, poolVars
    <2>2. QED BY <2>1 DEF ClosedQueues
  <1>7. Throwing' = Throwing BY <1>1, ClientCounts
  <1>8. ThrownInv' BY <1>1, <1>7 DEF PInv, ThrownInv, poolVars, workVars
  <1>9. QED BY <1>3, <1>5, <1>6, <1>8 DEF PInv

LEMMA KillStep == ASSUME PInv, Kill PROVE PInv'
  <1>1. /\ pc = "drain" /\ toDrain = <<>> /\ phase = "destroy" /\ phase' = "killed"
        /\ kill_threads' = TRUE /\ toDrain' = <<0, 1, 2>> /\ PoolTypeOK
        /\ wpc' = [w \in Workers |-> IF wpc[w] = "asleep" THEN "get" ELSE wpc[w]]
        /\ UNCHANGED <<tasks, results, exceptions, created, joined, queue, pc, toAdd, cr, sq, throws, thrown>>
    BY DEF Kill, Drained, AllQueues, PInv, TasksAccounted
  <1>2. toDrain' \in Seq(Queues) BY <1>1 DEF Queues
  <1>3. /\ wpc' \in [Workers -> {"get", "asleep", "run", "result", "exception", "end"}]
        /\ \A u \in Workers : wpc'[u] = wpc[u] \/ (wpc[u] = "asleep" /\ wpc'[u] = "get")
    BY <1>1 DEF PoolTypeOK
  <1>4. PoolTypeOK' BY <1>1, <1>2, <1>3 DEF PoolTypeOK
  <1>5. \A u \in Workers : wpc'[u] = wpc[u] \/ {wpc[u], wpc'[u]} \cap Busy = {} BY <1>3 DEF Busy
  <1>6. (\A q \in Queues : Running(q)' = Running(q)) /\ Throwing' = Throwing
    BY <1>1, <1>5, IdleThreads
  <1>7. TasksAccounted' BY <1>1, <1>4, <1>6 DEF PInv, TasksAccounted
  <1>8. DrainInv' BY <1>1 DEF PInv, DrainInv, Phases
  <1>9. ClosedQueues'
    <2>1. ASSUME NEW r \in Queues PROVE ~Open(r) BY <1>1 DEF Open, Phases
    <2>2. QED BY <1>1, <2>1 DEF PInv, ClosedQueues
  <1>10. ThrownInv' BY <1>1, <1>3, <1>6 DEF PInv, ThrownInv
  <1>11. QED BY <1>7, <1>8, <1>9, <1>10 DEF PInv

(* Head and tail of what the client may have to drain.                     *)
LEMMA ToDrain ==
    ASSUME PoolTypeOK, DrainInv, toDrain # <<>>
    PROVE  /\ Head(toDrain) \in Queues
           /\ Tail(toDrain) \in Seq(Queues)
           /\ phase \in Phases => Head(toDrain) = QueueOf(phase) /\ Tail(toDrain) = <<>>
           /\ phase \in {"destroy", "killed"} => Tail(toDrain) \in {<<>>, <<2>>, <<1, 2>>}
           /\ toDrain = <<0, 1, 2>> => Tail(toDrain) = <<1, 2>>
           /\ toDrain = <<1, 2>> => Head(toDrain) = 1
  <1>1. Head(toDrain) \in Queues /\ Tail(toDrain) \in Seq(Queues)
    BY HeadTailProperties DEF PoolTypeOK
  <1>2. \A q : Head(<<q>>) = q /\ Tail(<<q>>) = <<>> OBVIOUS
  <1>3. /\ Tail(<<2>>) = <<>> /\ Tail(<<1, 2>>) = <<2>> /\ Tail(<<0, 1, 2>>) = <<1, 2>>
        /\ Head(<<1, 2>>) = 1
    OBVIOUS
  <1>4. QED BY <1>1, <1>2, <1>3 DEF DrainInv

(* drain_queue(): what it joins is what there is, and it goes on to the    *)
(* next queue only when everything created in this one is joined.          *)
LEMMA DrainQueueStep == ASSUME PInv, DrainQueue PROVE PInv'
  <1>1. PoolTypeOK /\ DrainInv /\ TasksAccounted BY DEF PInv, TasksAccounted
  <1>2. /\ pc = "drain" /\ toDrain # <<>>
        /\ UNCHANGED <<tasks, exceptions, created, kill_threads, workVars, phase, toAdd, sq, throws, thrown>>
    BY DEF DrainQueue
  <1>0. Head(toDrain) \in Queues BY <1>1, <1>2, ToDrain
  <1>3. PICK q \in Queues : q = Head(toDrain) BY <1>0
  <1>4. (IF cr < 0 THEN DrainTarget(q) ELSE cr) = created[q]
    BY <1>1, <1>2, <1>3 DEF DrainTarget, DrainInv, PoolTypeOK
  <1>5. /\ \A r \in Queues : Running(r)' = Running(r) /\ Cardinality(Running(r)) \in Nat
        /\ Throwing' = Throwing
    BY <1>1, <1>2, ClientCounts
  <1>6. \A r \in Queues :
          /\ created[r] = tasks[r] + Cardinality(Running(r)) + results[r] + joined[r]
          /\ tasks[r] \in Nat /\ results[r] \in Nat /\ joined[r] \in Nat /\ created[r] \in Nat
    BY <1>1 DEF TasksAccounted, PoolTypeOK
  <1>7. Joinable(q, created[q]) = results[q]
    <2>1. \A a, b, c, d \in Nat : a = b + c + results[q] + d /\ results[q] \in Nat =>
            (IF results[q] < a - d THEN results[q] ELSE a - d) = results[q]
      OBVIOUS
    <2>2. Cardinality(Running(q)) \in Nat BY <1>3, <1>5
    <2>3. QED BY <1>3, <1>6, <2>1, <2>2 DEF Joinable
  <1>8. /\ results' = [results EXCEPT ![q] = results[q] - results[q]]
        /\ joined' = [joined EXCEPT ![q] = joined[q] + results[q]]
        /\ \/ /\ joined[q] + results[q] < created[q]
              /\ pc' = "drain_asleep" /\ cr' = created[q] /\ toDrain' = toDrain
           \/ /\ ~(joined[q] + results[q] < created[q])
              /\ toDrain' = Tail(toDrain) /\ cr' = -1 /\ pc' = pc
    BY <1>3, <1>4, <1>7 DEF DrainQueue
  <1>9. results' \in [Queues -> Nat] /\ joined' \in [Queues -> Nat]
    <2>1. results[q] - results[q] \in Nat /\ joined[q] + results[q] \in Nat BY <1>3, <1>6
    <2>2. QED BY <1>1, <1>8, <2>1 DEF PoolTypeOK
  <1>10. toDrain' \in Seq(Queues) /\ cr' \in Nat \cup {-1} /\ pc' \in {"drain", "drain_asleep"}
    <2>1. Tail(toDrain) \in Seq(Queues) /\ toDrain \in Seq(Queues) BY <1>1, <1>2, ToDrain DEF PoolTypeOK
    <2>2. QED BY <1>2, <1>3, <1>6, <1>8, <2>1
  <1>11. PoolTypeOK' BY <1>1, <1>2, <1>9, <1>10 DEF PoolTypeOK, workVars
  <1>12. ASSUME NEW r \in Queues
         PROVE  created'[r] = tasks'[r] + Cardinality(Running(r)') + results'[r] + joined'[r]
    <2>1. results'[r] + joined'[r] = results[r] + joined[r]
      <3>1. results[r] \in Nat /\ joined[r] \in Nat BY <1>6
      <3>2. CASE r = q BY <1>1, <1>3, <1>8, <3>1, <3>2 DEF PoolTypeOK
      <3>3. CASE r # q BY <1>1, <1>3, <1>8, <3>1, <3>3 DEF PoolTypeOK
      <3>4. QED BY <3>2, <3>3
    <2>2. /\ Cardinality(Running(r)') = Cardinality(Running(r)) /\ Cardinality(Running(r)) \in Nat
          /\ tasks'[r] = tasks[r] /\ created'[r] = created[r]
          /\ results'[r] \in Nat /\ joined'[r] \in Nat
      BY <1>2, <1>5, <1>9
    <2>3. QED BY <1>6, <2>1, <2>2
  <1>13. TasksAccounted' BY <1>11, <1>12 DEF TasksAccounted
  <1>14. ~(joined[q] + results[q] < created[q]) => joined[q] + results[q] = created[q]
    <2>1. \A a, b, c, d, e \in Nat : a = b + c + d + e /\ ~(e + d < a) => e + d = a OBVIOUS
    <2>2. Cardinality(Running(q)) \in Nat BY <1>3, <1>5
    <2>3. QED BY <1>3, <1>6, <2>1, <2>2
  <1>15. phase \in Phases => Head(toDrain) = QueueOf(phase) /\ Tail(toDrain) = <<>>
    BY <1>1, <1>2, ToDrain
  <1>16. DrainInv'
    <2>1. phase' \in Phases => toDrain' \in {<<>>, <<QueueOf(phase')>>}
      BY <1>1, <1>2, <1>8, <1>15 DEF DrainInv
    <2>2. phase' \in {"destroy", "killed"} => toDrain' \in {<<>>, <<2>>, <<1, 2>>, <<0, 1, 2>>}
      BY <1>1, <1>2, <1>8, ToDrain DEF DrainInv
    <2>3. pc' = "drain_asleep" => cr' >= 0 BY <1>2, <1>3, <1>6, <1>8
    <2>4. cr' >= 0 => toDrain' # <<>> /\ cr' = created'[Head(toDrain')] BY <1>2, <1>3, <1>8
    <2>5. QED BY <1>1, <1>2, <1>10, <2>1, <2>2, <2>3, <2>4 DEF DrainInv
  <1>17. ClosedQueues'
    <2>1. ASSUME NEW r \in Queues, ~Open(r)', r # q PROVE joined'[r] = created'[r]
      <3>1. ~Open(r)
        <4>1. CASE toDrain' = toDrain BY <1>2, <1>8, <2>1, <4>1 DEF Open
        <4>2. CASE toDrain' = Tail(toDrain)
          <5>1. phase \in Phases => r # QueueOf(phase) BY <1>3, <1>15, <2>1
          <5>2. r = 1 /\ phase = "destroy" => toDrain' \notin {<<1, 2>>, <<0, 1, 2>>}
            BY <1>2, <2>1 DEF Open
          <5>3. r = 1 => toDrain # <<1, 2>> BY <1>1, <1>2, <1>3, <2>1, ToDrain
          <5>4. r = 1 /\ phase = "destroy" => toDrain # <<0, 1, 2>> BY <1>1, <1>2, <4>2, <5>2, ToDrain
          <5>5. r = 1 => phase \notin Phases BY <1>2, <2>1 DEF Open
          <5>6. QED BY <5>1, <5>3, <5>4, <5>5 DEF Open
        <4>3. QED BY <1>8, <4>1, <4>2
      <3>2. joined'[r] = joined[r] BY <1>1, <1>8, <2>1 DEF PoolTypeOK
      <3>3. QED BY <1>2, <3>1, <3>2 DEF PInv, ClosedQueues
    <2>2. ASSUME ~Open(q)' PROVE joined'[q] = created'[q]
      <3>1. CASE joined[q] + results[q] < created[q]
        <4>1. ~Open(q) BY <1>2, <1>8, <2>2, <3>1 DEF Open
        <4>2. joined[q] = created[q] BY <1>3, <4>1 DEF PInv, ClosedQueues
        <4>3. QED BY <1>3, <1>6, <3>1, <4>2
      <3>2. CASE ~(joined[q] + results[q] < created[q])
        BY <1>1, <1>2, <1>3, <1>8, <1>14, <3>2 DEF PoolTypeOK
      <3>3. QED BY <3>1, <3>2
    <2>3. \A r \in Queues : ~Open(r)' => joined'[r] = created'[r] BY <2>1, <2>2
    <2>4. QED BY <2>3 DEF ClosedQueues
  <1>18. ThrownInv' BY <1>2, <1>5, <1>10 DEF PInv, ThrownInv, workVars
  <1>19. QED BY <1>13, <1>16, <1>17, <1>18 DEF PInv

-------------------------------------------------------------------------------
LEMMA PInvNext == PInv /\ [Next]_vars => PInv'
  <1> SUFFICES ASSUME PInv, [Next]_vars PROVE PInv' OBVIOUS
  <1>1. ASSUME NEW w \in Workers, WorkerStep(w) PROVE PInv'
    BY <1>1, IdleStep, GetTaskStep, AddExceptionStep, AddResultStep DEF WorkerStep
  <1>2. ASSUME NEW w \in Workers, Detach(w) \/ TaskReturns(w) \/ TaskThrows(w) \/ SpuriousWakeup(w)
        PROVE  PInv'
    BY <1>2, DetachStep, TaskReturnsStep, TaskThrowsStep, IdleStep
  <1>3. CASE ClientStep
    BY <1>3, JoinDetachedStep, NewPhaseStep, ClientAddsTaskStep, ClientDrainsStep, DrainQueueStep,
       GetExceptionsStep, ClientGoesOnStep, DestroyStep, KillStep DEF ClientStep
  <1>4. CASE ListenerSpuriousWakeup BY <1>4, ClientGoesOnStep
  <1>5. CASE UNCHANGED vars
    <2>1. UNCHANGED <<poolVars, workVars, clientVars, thrown>> BY <1>5 DEF vars
    <2>2. PoolTypeOK BY DEF PInv, TasksAccounted
    <2>3. TasksAccounted' BY <2>1, <2>2, ClientMoves DEF PoolTypeOK, clientVars
    <2>4. Throwing' = Throwing BY <2>1, <2>2, ClientCounts
    <2>5. DrainInv' BY <2>1 DEF PInv, DrainInv, poolVars, clientVars
    <2>6. ClosedQueues' BY <2>1 DEF PInv, ClosedQueues, Open, poolVars, clientVars
    <2>7. ThrownInv' BY <2>1, <2>4 DEF PInv, ThrownInv, poolVars, workVars, clientVars
    <2>8. QED BY <2>3, <2>5, <2>6, <2>7 DEF PInv
  <1>6. QED BY <1>1, <1>2, <1>3, <1>4, <1>5 DEF Next, Ended

LEMMA PInvHolds == Spec => []PInv
  BY PInvInit, PInvNext, PTL DEF Spec

(***************************************************************************)
(* In every reachable state of the pool each task that was created waits,  *)
(* is with one thread, is finished or is joined (threadpool.cpp's created  *)
(* and joined counts), whatever the threads and the signals do.            *)
(***************************************************************************)
THEOREM TasksAreAccounted == Spec => []TasksAccounted
  BY PInvHolds, PTL DEF PInv

(***************************************************************************)
(* The client's get_exceptions() after the drain of the fill phase finds   *)
(* every exception that a task has thrown, and the regions phase starts    *)
(* only when there was none.                                               *)
(***************************************************************************)
THEOREM ExceptionsAreInTime == Spec => []ExceptionsInTime
  <1>1. PInv => ExceptionsInTime
    <2>1. SUFFICES ASSUME PInv PROVE ExceptionsInTime OBVIOUS
    <2>2. Drained("fill") => exceptions[0] = thrown BY <2>1, FillDrained
    <2>3. ASSUME phase = "regions" PROVE exceptions[0] = 0 /\ thrown = 0
      <3>1. thrown = 0 /\ exceptions[0] + Cardinality(Throwing) = thrown BY <2>1, <2>3 DEF PInv, ThrownInv
      <3>2. exceptions[0] \in Nat BY <2>1 DEF PInv, TasksAccounted, PoolTypeOK, Queues
      <3>3. Throwing \in SUBSET Workers BY DEF Throwing
      <3>4. Cardinality(Throwing) \in Nat BY <3>3, SubsetCard
      <3>5. QED BY <3>1, <3>2, <3>4
    <2>4. QED BY <2>2, <2>3 DEF ExceptionsInTime
  <1>2. QED BY PInvHolds, <1>1, PTL

(***************************************************************************)
(* ~thread_pool() kills the threads only when no task waits or runs, and   *)
(* when it has joined them all queues are empty, as it asserts.            *)
(***************************************************************************)
THEOREM PoolIsKilledWhenIdle == Spec => []KilledWhenIdle
  <1>1. PInv => KilledWhenIdle
    <2>1. SUFFICES ASSUME PInv PROVE KilledWhenIdle OBVIOUS
    <2>2. ASSUME phase = "killed", NEW q \in Queues
          PROVE  tasks[q] = 0 /\ Running(q) = {} /\ results[q] = 0
      <3>1. ~Open(q) BY <2>2 DEF Open, Phases
      <3>2. QED BY <2>1, <3>1, JoinedIsEmpty DEF PInv, ClosedQueues
    <2>3. ASSUME phase = "killed", NEW q \in Queues PROVE exceptions[q] = 0
      <3>1. thrown = 0 /\ exceptions[0] + Cardinality(Throwing) = thrown /\ exceptions[1] = 0
            /\ exceptions[2] = 0
        BY <2>1, <2>3 DEF PInv, ThrownInv
      <3>2. exceptions[0] \in Nat BY <2>1 DEF PInv, TasksAccounted, PoolTypeOK, Queues
      <3>3. Throwing \in SUBSET Workers BY DEF Throwing
      <3>4. Cardinality(Throwing) \in Nat BY <3>3, SubsetCard
      <3>5. QED BY <3>1, <3>2, <3>4 DEF Queues
    <2>4. (kill_threads => phase = "killed") /\ (pc = "end" => phase = "killed")
      BY <2>1 DEF PInv, DrainInv
    <2>5. QED BY <2>2, <2>3, <2>4 DEF KilledWhenIdle
  <1>2. QED BY PInvHolds, <1>1, PTL
================================================================================
