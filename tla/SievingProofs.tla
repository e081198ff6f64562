---------------------------- MODULE SievingProofs ----------------------------
(***************************************************************************)
(* Proof that the driver never has two live attempts at a range and never  *)
(* counts a range twice, for any number of ranges, clients, attempts and   *)
(* crashes: IInv of module SievingInv is inductive.  And that, in a run    *)
(* that is not disturbed, its counters are exact and no range is lost:     *)
(* RInv is inductive together with IInv.  And that the relations of a      *)
(* driver that is not killed add up: SumInv is inductive together with     *)
(* IInv.                                                                   *)
(***************************************************************************)
EXTENDS SievingInv, FiniteSetTheorems, WellFoundedInduction, NaturalsInduction, TLAPS

USE DEF vars, taskvars, sievevars

(* The names of work-units are the pairs of a range and an attempt.        *)
LEMMA WuidPairs ==
    /\ \A q \in Ranges : \A a \in Attempts : <<q, a>> \in Wuids
    /\ \A w \in Wuids : w[1] \in Ranges /\ w[2] \in Attempts /\ w = <<w[1], w[2]>>
    /\ Attempts \subseteq Nat
  BY TaskAssumption DEF Attempts

LEMMA InitIInv == Init => IInv
  BY SievingAssumption, WuidPairs
  DEF Init, WuInit, TaskInit, IInv, TypeOK, WuTypeOK, Row, NoRow, BlankRow, Counters,
      Pcs, PastDead, OwnFile, CountedOK, JobInv, TodoInv, CallerInv, Counted,
      Handling, Replacing

-----------------------------------------------------------------------------
(* Where the driver has no work-unit in its hands.                         *)
Quiet == Pcs \ (Handling \cup Replacing \cup {"cancel", "unclaimed"})

(* A step that leaves the table and the counted files alone, and after     *)
(* which the driver has no work-unit in its hands, keeps the invariant.    *)
LEMMA QuietStep ==
    ASSUME IInv, TypeOK', UNCHANGED <<wus, output_files>>, pc' \in Quiet,
           todo' \subseteq todo, todo' = {} \/ pc' \in {"next"} \cup Stopped,
           pc' \in {"timeouts", "next"} => caller' \in {"submit", "drain"}
    PROVE  IInv'
<1>1. PastDead' /\ OwnFile' /\ CountedOK'
  BY DEF IInv, PastDead, OwnFile, CountedOK, get_exitcode
<1>2. JobInv'
  BY DEF JobInv, Quiet, Handling, Replacing
<1>3. TodoInv'
  BY DEF IInv, TodoInv, Counted
<1>4. CallerInv'
  BY DEF CallerInv, Quiet, Replacing
<1> QED
  BY <1>1, <1>2, <1>3, <1>4 DEF IInv

(* A step keeps the type invariant if each variable it changes keeps its   *)
(* type: the counters, the position and the goal of the driver.            *)
LEMMA IncrementType ==
    ASSUME TypeOK, NEW k \in Counters, Increment(k)
    PROVE  state' \in [Counters -> Nat]
  BY DEF TypeOK, Increment

(* After an answer to GET_WU_RESULT the driver has no work-unit in hand.   *)
LEMMA AnsweredQuiet ==
    ASSUME TypeOK, NEW received \in BOOLEAN, Answered(received)
    PROVE  /\ pc' \in Quiet \ Stopped /\ pc' # "next"
           /\ pc' = "timeouts" => caller \in {"submit", "drain"}
  BY DEF TypeOK, Answered, Quiet, Pcs, Handling, Replacing, Stopped

(* The timed-out work-units are gone unless the driver handles timeouts.   *)
LEMMA NoTodo ==
    ASSUME IInv, pc \notin Replacing \cup {"next", "cancel"} \cup Stopped
    PROVE  todo = {}
  BY DEF IInv, TodoInv

(* run() outside of results and timeouts.                                  *)
LEMMA RunSteps ==
    ASSUME IInv,
           Loop \/ Submit \/ Count \/ Advance \/ Drain \/ GiveUp \/ RequestMoreRelations
    PROVE  IInv'
<1> USE DEF Pcs, Stopped
<1>0. TypeOK
  BY DEF IInv
<1>1. pc \in {"up", "submit", "count", "advance", "drain", "exit"}
  BY DEF Loop, Submit, SubmitCommand, Count, CountNew, Advance, Drain, GiveUp,
         RequestMoreRelations
<1>2. todo = {}
  BY <1>1, NoTodo DEF Replacing
<1>3. UNCHANGED <<wus, output_files, todo>> /\ pc' \in Quiet \ {"timeouts", "next"}
  BY DEF Loop, Submit, SubmitCommand, Count, CountNew, Advance, Drain, GiveUp,
         RequestMoreRelations, Quiet, Handling, Replacing
<1>4. TypeOK'
  <2>1. CASE Loop \/ Submit \/ Drain \/ GiveUp
    BY <1>0, <2>1 DEF TypeOK, WuTypeOK, Loop, Submit, SubmitCommand, Drain, GiveUp
  <2>2. CASE Count
    BY <1>0, <2>2, IncrementType DEF TypeOK, WuTypeOK, Count, CountNew, Counters
  <2>3. CASE Advance
    BY <1>0, <2>3 DEF TypeOK, WuTypeOK, Advance
  <2>4. CASE RequestMoreRelations
    BY <1>0, <2>4, SievingAssumption DEF TypeOK, WuTypeOK, RequestMoreRelations
  <2> QED
    BY <2>1, <2>2, <2>3, <2>4
<1> QED
  BY <1>2, <1>3, <1>4, QuietStep

(* The driver is killed and started again: nothing is in its hands.        *)
LEMMA CrashSteps ==
    ASSUME IInv, CrashDriver \/ RestartDriver
    PROVE  IInv'
<1>1. /\ UNCHANGED <<wus, output_files>> /\ todo' = {}
      /\ pc' \in Quiet \ {"timeouts", "next"}
  BY DEF CrashDriver, Crash, RestartDriver, Restart, Raise, Quiet, Pcs, Stopped,
         Handling, Replacing
<1>2. TypeOK'
  BY SievingAssumption
  DEF IInv, TypeOK, WuTypeOK, CrashDriver, Crash, RestartDriver, Restart, Raise, Pcs,
      Stopped
<1> QED
  BY <1>1, <1>2, QuietStep

(* wait() and resubmit_timed_out_wus() without a work-unit to handle.      *)
LEMMA IdleSteps ==
    ASSUME IInv, NoResult \/ NoTimeoutCheck \/ AllHandled, UNCHANGED sievevars
    PROVE  IInv'
<1>0. TypeOK
  BY DEF IInv
<1>1. todo = {}
  <2>1. CASE AllHandled
    BY <2>1 DEF AllHandled
  <2>2. CASE NoResult \/ NoTimeoutCheck
    BY <2>2, NoTodo DEF NoResult, NoTimeoutCheck, Replacing, Stopped
  <2> QED
    BY <2>1, <2>2
<1>2. UNCHANGED <<wus, state, caller, job, todo, why>>
  BY DEF NoResult, NoTimeoutCheck, AllHandled
<1>3. pc' \in Quiet /\ (pc' \in {"timeouts", "next"} => caller \in {"submit", "drain"})
  <2>1. CASE NoResult
    BY <1>0, <2>1, AnsweredQuiet DEF NoResult
  <2>2. CASE NoTimeoutCheck \/ AllHandled
    BY <2>2 DEF IInv, CallerInv, NoTimeoutCheck, AllHandled, Quiet, Pcs, Handling,
                Replacing
  <2> QED
    BY <2>1, <2>2
<1>4. TypeOK'
  BY <1>0, <1>2, <1>3 DEF TypeOK, WuTypeOK, Quiet
<1> QED
  BY <1>1, <1>2, <1>3, <1>4, QuietStep

-----------------------------------------------------------------------------
(* What a step keeps that leaves the table and the counted files alone.    *)
LEMMA TableSame ==
    ASSUME IInv, UNCHANGED <<wus, output_files>>
    PROVE  /\ PastDead' /\ OwnFile' /\ CountedOK'
           /\ \A w : Counted(w)' <=> Counted(w)
           /\ \A w, n : get_exitcode(w, n)' = get_exitcode(w, n)
  BY DEF IInv, PastDead, OwnFile, CountedOK, Counted, get_exitcode

(* The file of a result: the CHOOSE of Output() is the only one there is.  *)
LEMMA OutputOfFiles ==
    ASSUME NEW w \in Wuids, wus[w].files # {}
    PROVE  Output(w) \in wus[w].files
  BY DEF Output

(* handle_error_result(): a failed result is not one that was counted.     *)
LEMMA ErrorResultStep ==
    ASSUME IInv, ErrorResult, UNCHANGED sievevars
    PROVE  IInv'
<1>0. TypeOK /\ todo = {}
  BY NoTodo DEF IInv, ErrorResult, Replacing, Stopped
<1>1. PICK w \in get_one_result :
         /\ get_exitcode(w, 0) # 0
         /\ job' = [wu |-> w, ok |-> FALSE, error |-> TRUE]
         /\ \/ pc' = "failed" /\ UNCHANGED why
            \/ Raise("maxfailed")
  BY DEF ErrorResult
<1>2. w \in Wuids /\ wus[w].status \in Received
  BY <1>1 DEF get_one_result, WithStatus, Received
<1>3. ~Counted(w)
  BY <1>1 DEF IInv, CountedOK, Counted
<1>4. UNCHANGED <<wus, state, caller, todo, output_files>>
  BY DEF ErrorResult
<1>5. TypeOK'
  BY <1>0, <1>1, <1>2, <1>4 DEF TypeOK, WuTypeOK, Raise, Pcs, Stopped, Jobs
<1>6. job' \in Jobs
  BY <1>1, <1>2 DEF Jobs
<1>7. JobInv'
  BY <1>1, <1>2, <1>3, <1>4, <1>6, TableSame
  DEF JobInv, Raise, Handling, Replacing
<1>8. TodoInv' /\ CallerInv'
  BY <1>0, <1>1, <1>4 DEF TodoInv, CallerInv, Raise, Replacing
<1> QED
  BY <1>4, <1>5, <1>7, <1>8, TableSame DEF IInv

(* updateObserver(): a result that was counted before a crash is taken as  *)
(* good again, since its only file is the one that was counted.            *)
LEMMA TakeResultStep ==
    ASSUME IInv, TakeResult
    PROVE  IInv'
<1>0. TypeOK /\ todo = {}
  BY NoTodo DEF IInv, TakeResult, Replacing, Stopped
<1> DEFINE ok(w) == wus[w].files # {} /\ Output(w)[2] # CORRUPT
<1>1. PICK w \in get_one_result :
         /\ get_exitcode(w, 0) = 0
         /\ job' = [wu |-> w, ok |-> ok(w), error |-> FALSE]
         /\ pc' = IF wus[w].files = {} THEN "unclaimed"
                  ELSE IF ok(w) THEN "add_rels" ELSE "verify"
  BY DEF TakeResult
<1>2. w \in Wuids /\ wus[w].status \in Received
  BY <1>1 DEF get_one_result, WithStatus, Received
<1>3. \A f \in wus[w].files : f = Output(w)
  BY <1>2, OutputOfFiles DEF IInv, OwnFile
<1>4. Counted(w) => ok(w)
  <2> SUFFICES ASSUME NEW f \in output_files, f[1] = w PROVE ok(w)
    BY DEF Counted
  <2>1. f \in wus[w].files /\ f[2] # CORRUPT
    BY DEF IInv, CountedOK
  <2> QED
    BY <1>3, <2>1
<1>5. UNCHANGED <<wus, state, caller, todo, why, sievevars>>
  BY DEF TakeResult
<1>6. job' \in Jobs
  BY <1>1, <1>2 DEF Jobs
<1>7. TypeOK'
  BY <1>0, <1>1, <1>5, <1>6 DEF TypeOK, WuTypeOK, Pcs
<1>8. JobInv'
  <2>1. job'.wu = w /\ job'.ok = ok(w) /\ job'.error = FALSE
    BY <1>1
  <2>2. CASE wus[w].files = {}
    BY <1>1, <1>4, <1>5, <1>6, <2>1, <2>2, TableSame DEF JobInv, Handling, Replacing
  <2>3. CASE wus[w].files # {} /\ ok(w)
    <3>1. pc' = "add_rels"
      BY <1>1, <2>3
    <3>2. \A f \in wus[w].files : f[2] # CORRUPT
      BY <1>3, <2>3
    <3> HIDE DEF ok
    <3> QED
      BY <1>1, <1>2, <1>5, <1>6, <2>1, <2>3, <3>1, <3>2, TableSame
      DEF JobInv, Handling, Replacing
  <2>4. CASE wus[w].files # {} /\ ~ok(w)
    <3>1. pc' = "verify"
      BY <1>1, <2>4
    <3> HIDE DEF ok
    <3> QED
      BY <1>2, <1>4, <1>5, <1>6, <2>1, <2>4, <3>1, TableSame
      DEF JobInv, Handling, Replacing
  <2> QED
    BY <2>2, <2>3, <2>4
<1>9. TodoInv' /\ CallerInv'
  BY <1>0, <1>1, <1>5 DEF TodoInv, CallerInv, Replacing
<1> QED
  BY <1>5, <1>7, <1>8, <1>9, TableSame DEF IInv

(* The counters of a result in hand, and its relations.                    *)
LEMMA HandlingSteps ==
    ASSUME IInv,
           \/ (CountFailed \/ VerifyCount \/ VerifyRange) /\ UNCHANGED sievevars
           \/ AddRels
    PROVE  IInv'
<1>0. TypeOK /\ todo = {} /\ pc \in Handling /\ job \in Jobs
  BY NoTodo
  DEF IInv, JobInv, CountFailed, VerifyCount, VerifyRange, AddRels, Handling, Replacing,
      Stopped
<1>1. UNCHANGED <<wus, caller, job, todo, output_files>>
  BY DEF CountFailed, VerifyCount, VerifyRange, AddRels
<1>2. \/ pc' \in {"verify", "verify_range", "verify_row", "aborted"}
      \/ pc = "add_rels" /\ pc' = "add_file"
  BY DEF CountFailed, VerifyCount, VerifyRange, AddRels, Raise
<1>3. TypeOK'
  <2>1. CASE CountFailed /\ UNCHANGED sievevars
    BY <1>0, <2>1, IncrementType DEF CountFailed, TypeOK, WuTypeOK, Pcs, Counters
  <2>2. CASE VerifyCount /\ UNCHANGED sievevars
    BY <1>0, <2>2, IncrementType
    DEF VerifyCount, Raise, TypeOK, WuTypeOK, Pcs, Counters, Stopped
  <2>3. CASE VerifyRange /\ UNCHANGED sievevars
    BY <1>0, <2>3, IncrementType DEF VerifyRange, TypeOK, WuTypeOK, Pcs, Counters
  <2>4. CASE AddRels
    <3>1. job.wu \in Wuids /\ Output(job.wu) \in wus[job.wu].files
      BY <1>0, <2>4, OutputOfFiles DEF Jobs, IInv, JobInv, AddRels
    <3>2. Output(job.wu)[2] \in Nat
      <4>1. wus[job.wu].files \subseteq Wuids \X Outputs
        BY <1>0, <3>1, SievingAssumption DEF TypeOK, WuTypeOK, Row
      <4>2. Output(job.wu)[2] # CORRUPT
        BY <2>4, <3>1 DEF IInv, JobInv, AddRels
      <4> QED
        BY <3>1, <4>1, <4>2, SievingAssumption
    <3> QED
      BY <1>0, <2>4, <3>2 DEF AddRels, TypeOK, WuTypeOK, Pcs
  <2> QED
    BY <2>1, <2>2, <2>3, <2>4
<1>4. JobInv'
  BY <1>0, <1>1, <1>2, TableSame DEF IInv, JobInv, Handling, Replacing
<1>5. TodoInv' /\ CallerInv'
  BY <1>0, <1>1, <1>2 DEF TodoInv, CallerInv, Replacing
<1> QED
  BY <1>1, <1>3, <1>4, <1>5, TableSame DEF IInv

(* add_file(): the file that is counted is the file of the result in hand. *)
LEMMA AddFileStep ==
    ASSUME IInv, AddFile
    PROVE  IInv'
<1>0. TypeOK /\ todo = {} /\ job \in Jobs /\ pc = "add_file" /\ pc' = "verify"
  BY NoTodo DEF IInv, JobInv, AddFile, Handling, Replacing, Stopped
<1>1. UNCHANGED <<wus, state, caller, job, todo, why>>
  BY DEF AddFile
<1> DEFINE f == Output(job.wu)
<1>2. job.wu \in Wuids /\ f \in wus[job.wu].files
  BY <1>0, OutputOfFiles DEF Jobs, IInv, JobInv
<1>3. f[1] = job.wu /\ f[2] # CORRUPT /\ f \in Paths
  BY <1>0, <1>2 DEF IInv, JobInv, OwnFile, TypeOK, WuTypeOK, Row
<1>4. output_files' = output_files \cup {f}
  BY DEF AddFile
<1> HIDE DEF f
<1>5. TypeOK'
  BY <1>0, <1>1, <1>3, <1>4 DEF AddFile, TypeOK, WuTypeOK, Pcs
<1>6. CountedOK'
  BY <1>0, <1>1, <1>2, <1>3, <1>4
  DEF IInv, JobInv, CountedOK, Handling, Received, Countable, get_exitcode
<1>7. PastDead' /\ OwnFile'
  BY <1>1 DEF IInv, PastDead, OwnFile
<1>8. JobInv'
  BY <1>0, <1>1 DEF IInv, JobInv, Handling, Replacing
<1>9. TodoInv' /\ CallerInv'
  BY <1>0, <1>1 DEF TodoInv, CallerInv, Replacing
<1> QED
  BY <1>5, <1>6, <1>7, <1>8, <1>9 DEF IInv

-----------------------------------------------------------------------------
(* resubmit_timed_out_wus(): what the query returns has no result yet, so  *)
(* it was not counted.                                                     *)
LEMMA TimeoutStep ==
    ASSUME IInv, NEW S, CheckTimeouts(S)
    PROVE  IInv'
<1>0. TypeOK /\ pc = "timeouts" /\ pc' = "next"
  BY DEF IInv, CheckTimeouts, TimeoutCheck
<1>1. UNCHANGED <<wus, state, caller, job, why, sievevars>>
  BY DEF CheckTimeouts, TimeoutCheck
<1>2. \A w \in todo' : w \in Wuids /\ wus[w].status \in {"ASSIGNED", "NEED_RESUBMIT"}
  BY DEF CheckTimeouts, TimeoutCheck, WithStatus
<1>3. \A w \in todo' : ~Counted(w)
  BY <1>2 DEF IInv, CountedOK, Counted, Countable
<1>4. TypeOK'
  BY <1>0, <1>1, <1>2 DEF TypeOK, WuTypeOK, Pcs
<1>5. JobInv' /\ CallerInv'
  BY <1>0, <1>1 DEF IInv, JobInv, CallerInv, Handling, Replacing
<1>6. TodoInv'
  BY <1>0, <1>1, <1>3, TableSame DEF TodoInv
<1> QED
  BY <1>1, <1>4, <1>5, <1>6, TableSame DEF IInv

LEMMA CancelCountStep ==
    ASSUME IInv, CancelCount, UNCHANGED sievevars
    PROVE  IInv'
<1>0. TypeOK /\ pc = "next"
  BY DEF IInv, CancelCount
<1>1. PICK w \in todo :
         /\ job' = [wu |-> w, ok |-> FALSE, error |-> FALSE]
         /\ todo' = todo \ {w}
         /\ \/ Increment("wu_timedout") /\ pc' = "cancel" /\ UNCHANGED why
            \/ Raise("maxtimedout") /\ UNCHANGED state
  BY DEF CancelCount
<1>2. UNCHANGED <<wus, caller>>
  BY DEF CancelCount
<1>3. w \in Wuids /\ ~Counted(w) /\ job' \in Jobs
  BY <1>0, <1>1 DEF IInv, TodoInv, TypeOK, Jobs
<1>4. TypeOK'
  BY <1>0, <1>1, <1>2, <1>3, IncrementType
  DEF TypeOK, WuTypeOK, Raise, Pcs, Stopped, Counters
<1>5. JobInv'
  BY <1>0, <1>1, <1>2, <1>3, TableSame DEF JobInv, Raise, Handling, Replacing
<1>6. TodoInv' /\ CallerInv'
  BY <1>0, <1>1, <1>2, TableSame DEF IInv, TodoInv, CallerInv, Raise, Stopped, Replacing
<1> QED
  BY <1>2, <1>4, <1>5, <1>6, TableSame DEF IInv

(* After the attempt in hand was replaced, or was the last one.            *)
LEMMA ResubmittedQuiet ==
    ASSUME IInv, pc \in Replacing, Resubmitted
    PROVE  /\ pc' \in Quiet /\ (todo = {} \/ pc' = "next")
           /\ pc' \in {"timeouts", "next"} => caller \in {"submit", "drain"}
<1>1. job \in Jobs /\ TypeOK
  BY DEF IInv, JobInv
<1>2. CASE job.error
  BY <1>1, <1>2, AnsweredQuiet DEF IInv, TodoInv, Resubmitted, Replacing, Stopped
<1>3. CASE ~job.error
  BY <1>1, <1>3 DEF IInv, CallerInv, Resubmitted, Quiet, Pcs, Handling, Replacing
<1> QED
  BY <1>2, <1>3

LEMMA ResubmitStep ==
    ASSUME IInv, Resubmit, UNCHANGED sievevars
    PROVE  IInv'
<1>0. TypeOK /\ pc = "resubmit" /\ UNCHANGED <<wus, caller, job, todo, why, output_files>>
  BY DEF IInv, Resubmit
<1>1. CASE Resubmitted /\ UNCHANGED state
  <2>1. pc' \in Quiet /\ (todo = {} \/ pc' = "next")
        /\ (pc' \in {"timeouts", "next"} => caller \in {"submit", "drain"})
    BY <1>0, <1>1, ResubmittedQuiet DEF Replacing
  <2>2. TypeOK'
    BY <1>0, <1>1, <2>1 DEF TypeOK, WuTypeOK, Quiet
  <2> QED
    BY <1>0, <2>1, <2>2, QuietStep
<1>2. CASE Increment("wu_submitted") /\ pc' = "recreate"
  <2>1. TypeOK'
    BY <1>0, <1>2, IncrementType DEF TypeOK, WuTypeOK, Pcs, Counters
  <2>2. JobInv' /\ TodoInv' /\ CallerInv'
    BY <1>0, <1>2, TableSame
    DEF IInv, JobInv, TodoInv, CallerInv, Handling, Replacing, Stopped
  <2> QED
    BY <1>0, <2>1, <2>2, TableSame DEF IInv
<1> QED
  BY <1>1, <1>2 DEF Resubmit

-----------------------------------------------------------------------------
(* create(): a name without a row, all of whose earlier attempts are       *)
(* settled, gets one.  Every other row stays.                              *)
LEMMA CreateTable ==
    ASSUME IInv, NEW w, create(w), UNCHANGED output_files,
           w \in Wuids => \A a \in Attempts :
                            a < w[2] => wus[<<w[1], a>>].status \in Dead
    PROVE  /\ WuTypeOK' /\ PastDead' /\ OwnFile' /\ CountedOK'
           /\ \A v \in Wuids : wus[v].status # "ABSENT" => wus'[v] = wus[v]
<1>0. wus \in [Wuids -> Row] /\ NewRow \in Row
  BY DEF IInv, TypeOK, WuTypeOK, NewRow, BlankRow, Row, WuStatus
<1>1. wus[w].status = "ABSENT" /\ wus' = [wus EXCEPT ![w] = NewRow]
  BY DEF create, CanCreate
<1>2. \A v \in Wuids : wus'[v] = IF v = w THEN NewRow ELSE wus[v]
  BY <1>0, <1>1
<1>3. NewRow.status = "AVAILABLE" /\ NewRow.files = {}
  BY DEF NewRow, BlankRow
<1>4. \A v \in Wuids : wus[v].status # "ABSENT" => wus'[v] = wus[v]
  BY <1>1, <1>2
<1>5. WuTypeOK'
  BY <1>0, <1>1 DEF WuTypeOK
<1>6. PastDead'
  <2> SUFFICES ASSUME NEW q \in Ranges, NEW a \in Attempts, NEW b \in Attempts,
                      a < b, wus'[<<q, b>>].status # "ABSENT"
               PROVE  wus'[<<q, a>>].status \in Dead
    BY DEF PastDead
  <2>1. <<q, a>> \in Wuids /\ <<q, b>> \in Wuids
    BY WuidPairs
  <2>2. wus[<<q, a>>].status \in Dead
    <3>1. CASE <<q, b>> = w
      BY <2>1, <3>1
    <3>2. CASE <<q, b>> # w
      BY <1>2, <2>1, <3>2 DEF IInv, PastDead
    <3> QED
      BY <3>1, <3>2
  <2> QED
    BY <1>4, <2>1, <2>2 DEF Dead
<1>7. OwnFile'
  BY <1>2, <1>3 DEF IInv, OwnFile
<1>8. CountedOK'
  BY <1>4 DEF IInv, CountedOK, Countable, get_exitcode
<1> QED
  BY <1>4, <1>5, <1>6, <1>7, <1>8

LEMMA CreateStep ==
    ASSUME IInv, Create
    PROVE  IInv'
<1>0. TypeOK /\ pc = "create" /\ UNCHANGED <<state, caller, job, todo, sievevars>>
  BY DEF IInv, Create, CreateNew
<1>1. todo = {}
  BY <1>0, NoTodo DEF Replacing, Stopped
<1>2. CASE create(<<qnext, 1>>) /\ pc' = "advance" /\ UNCHANGED why
  <2>1. \A a \in Attempts : ~(a < 1)
    BY DEF Attempts
  <2>2. WuTypeOK' /\ PastDead' /\ OwnFile' /\ CountedOK'
    BY <1>0, <1>2, <2>1, CreateTable
  <2>3. TypeOK'
    BY <1>0, <1>2, <2>2 DEF TypeOK, Pcs
  <2>4. JobInv' /\ TodoInv' /\ CallerInv'
    BY <1>0, <1>1, <1>2 DEF JobInv, TodoInv, CallerInv, Handling, Replacing
  <2> QED
    BY <2>2, <2>3, <2>4 DEF IInv
<1>3. CASE Raise("integrity") /\ UNCHANGED wus
  <2>1. pc' \in Quiet \ {"timeouts", "next"} /\ TypeOK'
    BY <1>0, <1>3
    DEF Raise, TypeOK, WuTypeOK, Pcs, Stopped, Quiet, Handling, Replacing
  <2> QED
    BY <1>0, <1>1, <1>3, <2>1, QuietStep
<1> QED
  BY <1>2, <1>3 DEF Create, CreateNew

(* resubmit_one_wu(): the attempt in hand is settled, and so are the ones  *)
(* before it.                                                              *)
LEMMA RecreateStep ==
    ASSUME IInv, Recreate, UNCHANGED sievevars
    PROVE  IInv'
<1>0. TypeOK /\ pc = "recreate" /\ UNCHANGED <<state, caller, job, todo>>
  BY DEF IInv, Recreate
<1>1. job \in Jobs /\ job.wu \in Wuids /\ wus[job.wu].status \in Dead
  BY <1>0 DEF IInv, JobInv, Jobs, Replacing
<1>2. CASE create(NextAttempt) /\ Resubmitted /\ UNCHANGED why
  <2>1. \A a \in Attempts : a < NextAttempt[2] => wus[<<NextAttempt[1], a>>].status \in Dead
    <3> SUFFICES ASSUME NEW a \in Attempts, a < job.wu[2] + 1
                 PROVE  wus[<<job.wu[1], a>>].status \in Dead
      BY DEF NextAttempt
    <3>0. job.wu[1] \in Ranges /\ job.wu[2] \in Attempts /\ job.wu = <<job.wu[1], job.wu[2]>>
          /\ a \in Nat /\ job.wu[2] \in Nat
      BY <1>1, WuidPairs
    <3>1. CASE a = job.wu[2]
      BY <1>1, <3>0, <3>1
    <3>2. CASE a < job.wu[2]
      BY <1>1, <3>0, <3>2 DEF IInv, PastDead, Dead
    <3> QED
      BY <3>0, <3>1, <3>2
  <2>2. WuTypeOK' /\ PastDead' /\ OwnFile' /\ CountedOK'
    BY <1>2, <2>1, CreateTable
  <2>3. /\ pc' \in Quiet /\ (todo = {} \/ pc' = "next")
        /\ pc' \in {"timeouts", "next"} => caller \in {"submit", "drain"}
    BY <1>0, <1>2, ResubmittedQuiet DEF Replacing
  <2>4. TypeOK'
    BY <1>0, <1>2, <2>2, <2>3 DEF TypeOK, Quiet
  <2>5. JobInv' /\ CallerInv'
    BY <1>0, <2>3 DEF JobInv, CallerInv, Quiet, Handling, Replacing
  <2>6. TodoInv'
    BY <1>0, <2>3 DEF IInv, TodoInv, Counted
  <2> QED
    BY <2>2, <2>4, <2>5, <2>6 DEF IInv
<1>3. CASE Raise("integrity") /\ UNCHANGED wus
  <2>1. pc' \in Quiet \ {"timeouts", "next"} /\ pc' \in Stopped /\ TypeOK'
    BY <1>0, <1>3
    DEF Raise, TypeOK, WuTypeOK, Pcs, Stopped, Quiet, Handling, Replacing
  <2> QED
    BY <1>0, <1>3, <2>1, QuietStep
<1> QED
  BY <1>2, <1>3 DEF Recreate

-----------------------------------------------------------------------------
(* An UPDATE of the status of some rows: it may not bring a settled        *)
(* attempt back, and not settle a counted one as an error.                 *)
LEMMA StatusTable ==
    ASSUME IInv, UNCHANGED output_files,
           NEW S \in SUBSET Wuids, NEW s \in {"CANCELLED", "VERIFIED_OK", "VERIFIED_ERROR"},
           set_status(s, S),
           \A w \in S : wus[w].status \in Dead => s \in Dead,
           \A w \in S : Counted(w) => s \in Countable
    PROVE  WuTypeOK' /\ PastDead' /\ OwnFile' /\ CountedOK'
<1>0. wus \in [Wuids -> Row]
  BY DEF IInv, TypeOK, WuTypeOK
<1>1. \A w \in Wuids :
         /\ wus'[w] \in Row /\ wus'[w].files = wus[w].files
         /\ wus'[w].errorcode = wus[w].errorcode
         /\ wus'[w].failedcommand = wus[w].failedcommand
         /\ wus'[w].status = IF w \in S /\ wus[w].status # "ABSENT" THEN s ELSE wus[w].status
  BY <1>0 DEF set_status, StatusRow, Row, WuStatus
<1>2. WuTypeOK'
  BY <1>1 DEF WuTypeOK, set_status
<1>3. PastDead'
  BY <1>1, WuidPairs DEF IInv, PastDead, Dead
<1>4. OwnFile'
  BY <1>1 DEF IInv, OwnFile
<1>5. CountedOK'
  <2> SUFFICES ASSUME NEW f \in output_files
               PROVE  /\ f[1] \in Wuids /\ f \in wus'[f[1]].files /\ f[2] # CORRUPT
                      /\ get_exitcode(f[1], 0)' = 0
                      /\ wus'[f[1]].status \in Countable
    BY DEF CountedOK
  <2>1. /\ f[1] \in Wuids /\ f \in wus[f[1]].files /\ f[2] # CORRUPT
        /\ get_exitcode(f[1], 0) = 0 /\ wus[f[1]].status \in Countable
    BY DEF IInv, CountedOK
  <2>2. Counted(f[1])
    BY DEF Counted
  <2>3. get_exitcode(f[1], 0)' = 0
    BY <1>1, <2>1 DEF get_exitcode
  <2> QED
    BY <1>1, <2>1, <2>2, <2>3
<1> QED
  BY <1>2, <1>3, <1>4, <1>5

(* verification(), and the cancellation of unclaimed, timed-out and        *)
(* superfluous work-units.                                                 *)
LEMMA VerifyRowStep ==
    ASSUME IInv, VerifyRow, UNCHANGED sievevars
    PROVE  IInv'
<1>0. TypeOK /\ pc = "verify_row" /\ UNCHANGED <<state, caller, job, todo>>
  BY DEF IInv, VerifyRow
<1>1. /\ job \in Jobs /\ job.wu \in Wuids /\ wus[job.wu].status \in Received
      /\ job.error => ~job.ok
      /\ Counted(job.wu) => job.ok
  BY <1>0 DEF IInv, JobInv, Jobs, Handling
<1>2. todo = {}
  BY <1>0, NoTodo DEF Replacing, Stopped
<1>3. CASE /\ verification(job.wu, job.ok)
           /\ IF job.error THEN pc' = "resubmit" ELSE Answered(TRUE)
           /\ UNCHANGED why
  <2> DEFINE s == IF job.ok THEN "VERIFIED_OK" ELSE "VERIFIED_ERROR"
  <2>1. set_status(s, {job.wu})
    BY <1>0, <1>1, <1>3
    DEF verification, set_status, TypeOK, WuTypeOK, Received
  <2>2. wus'[job.wu].status = s
    BY <1>1, <2>1 DEF set_status, StatusRow, Received
  <2>3. /\ wus[job.wu].status \in Dead => s \in Dead
        /\ Counted(job.wu) => s \in Countable
    BY <1>1 DEF Received, Dead, Countable
  <2>4. s \in {"CANCELLED", "VERIFIED_OK", "VERIFIED_ERROR"}
    OBVIOUS
  <2>5. WuTypeOK' /\ PastDead' /\ OwnFile' /\ CountedOK'
    <3> HIDE DEF s
    <3> QED
      BY <1>1, <2>1, <2>3, <2>4, StatusTable
  <2>6. CASE job.error
    <3>1. pc' = "resubmit" /\ wus'[job.wu].status \in Dead
      BY <1>1, <1>3, <2>2, <2>6 DEF Dead
    <3>2. TypeOK'
      BY <1>0, <1>3, <2>5, <3>1 DEF TypeOK, Pcs
    <3>3. JobInv' /\ TodoInv' /\ CallerInv'
      BY <1>0, <1>1, <1>2, <2>6, <3>1
      DEF JobInv, TodoInv, CallerInv, Handling, Replacing
    <3> QED
      BY <2>5, <3>2, <3>3 DEF IInv
  <2>7. CASE ~job.error
    <3>1. pc' \in Quiet \ {"next"} /\ (pc' = "timeouts" => caller \in {"submit", "drain"})
      BY <1>0, <1>3, <2>7, AnsweredQuiet
    <3>2. TypeOK'
      BY <1>0, <1>3, <2>5, <3>1 DEF TypeOK, Quiet
    <3>3. JobInv' /\ TodoInv' /\ CallerInv'
      BY <1>0, <1>2, <3>1 DEF JobInv, TodoInv, CallerInv, Quiet, Handling, Replacing
    <3> QED
      BY <2>5, <3>2, <3>3 DEF IInv
  <2> QED
    BY <2>6, <2>7
<1>4. CASE Raise("assert") /\ UNCHANGED wus
  <2>1. pc' \in Quiet \ {"timeouts", "next"} /\ TypeOK'
    BY <1>0, <1>4
    DEF Raise, TypeOK, WuTypeOK, Pcs, Stopped, Quiet, Handling, Replacing
  <2> QED
    BY <1>0, <1>2, <1>4, <2>1, QuietStep
<1> QED
  BY <1>3, <1>4 DEF VerifyRow

LEMMA CancelSteps ==
    ASSUME IInv, (CancelRow \/ Unclaimed) /\ UNCHANGED sievevars
    PROVE  IInv'
<1>0. /\ TypeOK /\ pc \in {"cancel", "unclaimed"} /\ cancel(job.wu)
      /\ UNCHANGED <<state, caller, job, todo, why>>
  BY DEF IInv, CancelRow, Unclaimed
<1>1. job \in Jobs /\ job.wu \in Wuids /\ ~Counted(job.wu)
  BY <1>0 DEF IInv, JobInv, Jobs
<1>2. set_status("CANCELLED", {job.wu}) /\ wus[job.wu].status # "ABSENT"
  BY <1>0 DEF cancel, Rows
<1>3. WuTypeOK' /\ PastDead' /\ OwnFile' /\ CountedOK'
  BY <1>1, <1>2, StatusTable DEF Dead
<1>4. wus'[job.wu].status = "CANCELLED"
  BY <1>1, <1>2 DEF set_status, StatusRow
<1>5. CASE CancelRow
  <2>1. pc = "cancel" /\ pc' = "resubmit"
    BY <1>5 DEF CancelRow
  <2>2. TypeOK'
    BY <1>0, <1>3, <2>1 DEF TypeOK, Pcs
  <2>3. JobInv'
    BY <1>0, <1>1, <1>4, <2>1 DEF JobInv, Handling, Replacing, Dead
  <2>4. ~job.error
    BY <1>0, <2>1, <1>1 DEF IInv, JobInv
  <2>5. TodoInv' /\ CallerInv'
    BY <1>0, <2>1, <2>4 DEF IInv, TodoInv, CallerInv, Replacing, Counted
  <2> QED
    BY <1>3, <2>2, <2>3, <2>5 DEF IInv
<1>6. CASE Unclaimed
  <2>1. pc = "unclaimed" /\ Answered(FALSE)
    BY <1>6 DEF Unclaimed
  <2>2. todo = {}
    BY <2>1, NoTodo DEF Replacing, Stopped
  <2>3. pc' \in Quiet \ {"next"} /\ (pc' = "timeouts" => caller \in {"submit", "drain"})
    BY <1>0, <2>1, AnsweredQuiet
  <2>4. TypeOK'
    BY <1>0, <1>3, <2>3 DEF TypeOK, Quiet
  <2>5. JobInv' /\ TodoInv' /\ CallerInv'
    BY <1>0, <2>2, <2>3 DEF JobInv, TodoInv, CallerInv, Quiet, Handling, Replacing
  <2> QED
    BY <1>3, <2>4, <2>5 DEF IInv
<1> QED
  BY <1>0, <1>5, <1>6

LEMMA HaveEnoughStep ==
    ASSUME IInv, HaveEnoughRelations
    PROVE  IInv'
<1>0. /\ TypeOK /\ pc = "exit" /\ pc' = "done"
      /\ UNCHANGED <<state, caller, job, todo, why, sievevars>>
  BY DEF IInv, HaveEnoughRelations
<1>1. set_status("CANCELLED", WithStatus("AVAILABLE"))
  BY DEF HaveEnoughRelations, cancel_all_available
<1>2. \A w \in WithStatus("AVAILABLE") : ~Counted(w)
  BY DEF IInv, CountedOK, Countable, Counted, WithStatus
<1>3. WuTypeOK' /\ PastDead' /\ OwnFile' /\ CountedOK'
  <2>1. WithStatus("AVAILABLE") \in SUBSET Wuids
    BY DEF WithStatus
  <2> QED
    BY <1>0, <1>1, <1>2, <2>1, StatusTable DEF Dead
<1>4. TypeOK'
  BY <1>0, <1>3 DEF TypeOK, Pcs
<1>5. todo = {}
  BY <1>0, NoTodo DEF Replacing, Stopped
<1>6. JobInv' /\ TodoInv' /\ CallerInv'
  BY <1>0, <1>5 DEF JobInv, TodoInv, CallerInv, Handling, Replacing
<1> QED
  BY <1>3, <1>4, <1>6 DEF IInv

-----------------------------------------------------------------------------
(* What clients and the operator do to the table: they only touch          *)
(* available and assigned rows, and settle or remove none.                 *)
ClientTable ==
    /\ WuTypeOK'
    /\ \A w \in Wuids :
          \/ wus'[w] = wus[w]
          \/ /\ wus[w].status \in {"AVAILABLE", "ASSIGNED"}
             /\ \A f \in wus'[w].files : f[1] = w
             /\ \A f, g \in wus'[w].files : f = g
             /\ wus'[w].status \in {"AVAILABLE", "ASSIGNED"} => wus'[w].files = {}
             /\ wus'[w].status # "ABSENT"

LEMMA ClientStep ==
    ASSUME IInv, UNCHANGED <<taskvars, sievevars>>, ClientTable
    PROVE  IInv'
<1>1. \A w \in Wuids : wus[w].status \notin {"AVAILABLE", "ASSIGNED"} => wus'[w] = wus[w]
  BY DEF ClientTable
<1>2. \A w \in Wuids : wus'[w].status # "ABSENT" => wus[w].status # "ABSENT"
  BY <1>1
<1>3. TypeOK'
  BY DEF IInv, TypeOK, ClientTable
<1>4. PastDead'
  BY <1>1, <1>2, WuidPairs DEF IInv, PastDead, Dead
<1>5. OwnFile'
  <2> SUFFICES ASSUME NEW w \in Wuids
               PROVE  /\ \A f \in wus'[w].files : f[1] = w
                      /\ \A f, g \in wus'[w].files : f = g
                      /\ wus'[w].status \in {"ABSENT", "AVAILABLE", "ASSIGNED"} =>
                            wus'[w].files = {}
    BY DEF OwnFile
  <2>1. CASE wus'[w] = wus[w]
    BY <2>1 DEF IInv, OwnFile
  <2>2. CASE wus'[w] # wus[w]
    BY <2>2 DEF ClientTable
  <2> QED
    BY <2>1, <2>2
<1>6. CountedOK'
  BY <1>1 DEF IInv, CountedOK, Countable, get_exitcode
<1>7. JobInv'
  <2>1. pc \in Handling \cup Replacing => job.wu \in Wuids /\ wus'[job.wu] = wus[job.wu]
    BY <1>1 DEF IInv, JobInv, Jobs, Received, Dead
  <2> QED
    BY <2>1 DEF IInv, JobInv, Counted, get_exitcode, Handling, Replacing
<1>8. TodoInv' /\ CallerInv'
  BY DEF IInv, TodoInv, CallerInv, Counted
<1> QED
  BY <1>3, <1>4, <1>5, <1>6, <1>7, <1>8 DEF IInv

LEMMA FetchStep ==
    ASSUME IInv, ClientFetch
    PROVE  IInv'
<1>1. wus \in [Wuids -> Row] /\ UNCHANGED <<taskvars, sievevars>>
  BY DEF IInv, TypeOK, WuTypeOK, ClientFetch, Fetch
<1>2. PICK c \in Clients, w \in WithStatus("AVAILABLE") :
         wus' = [wus EXCEPT ![w] = AssignedRow(wus[w], c)]
  BY DEF ClientFetch, Fetch, assign
<1>3. w \in Wuids /\ wus[w].status = "AVAILABLE" /\ wus[w].files = {}
  BY DEF WithStatus, IInv, OwnFile
<1>4. /\ AssignedRow(wus[w], c) \in Row
      /\ AssignedRow(wus[w], c).status = "ASSIGNED"
      /\ AssignedRow(wus[w], c).files = {}
  BY <1>1, <1>3 DEF AssignedRow, Row, WuStatus
<1>5. \A v \in Wuids : wus'[v] = IF v = w THEN AssignedRow(wus[w], c) ELSE wus[v]
  BY <1>1, <1>2
<1>6. WuTypeOK'
  BY <1>1, <1>2, <1>4 DEF WuTypeOK
<1>7. ClientTable
  BY <1>3, <1>4, <1>5, <1>6 DEF ClientTable
<1> QED
  BY <1>1, <1>7, ClientStep

LEMMA UploadStep ==
    ASSUME IInv, NEW w \in Wuids, ClientUpload(w)
    PROVE  IInv'
<1>1. wus \in [Wuids -> Row] /\ UNCHANGED <<taskvars, sievevars>>
  BY DEF IInv, TypeOK, WuTypeOK, ClientUpload, Upload
<1> DEFINE F(a) == IF a.output = NONE THEN {} ELSE {<<w, a.output>>}
           r(a) == ResultRow(wus[w], wus[w].assignedclient, F(a), a.errorcode, a.failed)
<1>2. PICK a \in Answers : wus[w].status = "ASSIGNED" /\ wus' = [wus EXCEPT ![w] = r(a)]
  BY DEF ClientUpload, Upload, result, CanResult
<1>3. wus[w].files = {}
  BY <1>2 DEF IInv, OwnFile
<1>4. /\ a.output \in Outputs \cup {NONE} /\ a.errorcode \in ErrorCodes \cup {NONE}
      /\ a.failed \in Commands \cup {NONE}
  BY SievingAssumption
<1>5. F(a) \subseteq Paths
  BY <1>4, SievingAssumption
<1>6. /\ r(a) \in Row /\ r(a).files = F(a) /\ r(a).status \in Received
  BY <1>1, <1>3, <1>4, <1>5 DEF ResultRow, Row, WuStatus, Received
<1>7. \A f \in F(a) : f = <<w, a.output>>
  OBVIOUS
<1> HIDE DEF F, r
<1>8. \A v \in Wuids : wus'[v] = IF v = w THEN r(a) ELSE wus[v]
  BY <1>1, <1>2
<1>9. WuTypeOK'
  BY <1>1, <1>2, <1>6 DEF WuTypeOK
<1>10. ClientTable
  BY <1>2, <1>6, <1>7, <1>8, <1>9 DEF ClientTable, Received
<1> QED
  BY <1>1, <1>10, ClientStep

LEMMA ExpireStep ==
    ASSUME IInv, OperatorExpire
    PROVE  IInv'
<1>1. wus \in [Wuids -> Row] /\ UNCHANGED <<taskvars, sievevars>>
  BY DEF IInv, TypeOK, WuTypeOK, OperatorExpire, Expire
<1>2. PICK w \in Wuids : /\ wus[w].status \in {"AVAILABLE", "ASSIGNED"}
                        /\ set_status("NEED_RESUBMIT", {w})
  BY DEF OperatorExpire, Expire, expire
<1>3. wus[w].files = {}
  BY <1>2 DEF IInv, OwnFile
<1>4. /\ StatusRow(wus[w], "NEED_RESUBMIT") \in Row
      /\ StatusRow(wus[w], "NEED_RESUBMIT").status = "NEED_RESUBMIT"
      /\ StatusRow(wus[w], "NEED_RESUBMIT").files = {}
  BY <1>1, <1>3 DEF StatusRow, Row, WuStatus
<1>5. \A v \in Wuids : wus'[v] = IF v = w THEN StatusRow(wus[w], "NEED_RESUBMIT") ELSE wus[v]
  BY <1>2 DEF set_status
<1>6. WuTypeOK'
  BY <1>1, <1>2, <1>4 DEF WuTypeOK, set_status
<1>7. ClientTable
  BY <1>2, <1>4, <1>5, <1>6 DEF ClientTable
<1> QED
  BY <1>1, <1>7, ClientStep

-----------------------------------------------------------------------------
(* One step per action.                                                    *)
LEMMA StepIInv == IInv /\ [Next]_vars => IInv'
<1> SUFFICES ASSUME IInv, [Next]_vars PROVE IInv'
    OBVIOUS
<1>1. CASE Loop \/ Submit \/ Count \/ Advance \/ Drain \/ GiveUp \/ RequestMoreRelations
  BY <1>1, RunSteps
<1>2. CASE Create
  BY <1>2, CreateStep
<1>3. CASE TakeResult
  BY <1>3, TakeResultStep
<1>4. CASE AddRels
  BY <1>4, HandlingSteps
<1>5. CASE AddFile
  BY <1>5, AddFileStep
<1>6. CASE TaskStep
  BY <1>6, IdleSteps, ErrorResultStep, HandlingSteps, VerifyRowStep, CancelSteps,
     CancelCountStep, ResubmitStep, RecreateStep
  DEF TaskStep
<1>7. CASE \E S \in SUBSET WithStatus("ASSIGNED") : CheckTimeouts(S)
  BY <1>7, TimeoutStep
<1>8. CASE HaveEnoughRelations
  BY <1>8, HaveEnoughStep
<1>9. CASE CrashDriver \/ RestartDriver
  BY <1>9, CrashSteps
<1>10. CASE ClientFetch
  BY <1>10, FetchStep
<1>11. CASE \E w \in Wuids : ClientUpload(w)
  BY <1>11, UploadStep
<1>12. CASE OperatorExpire
  BY <1>12, ExpireStep
<1>13. CASE UNCHANGED vars
  <2>1. UNCHANGED <<taskvars, sievevars>> /\ wus' = wus
    BY <1>13
  <2>2. ClientTable
    BY <2>1 DEF ClientTable, IInv, TypeOK, WuTypeOK
  <2> QED
    BY <2>1, <2>2, ClientStep
<1> QED
  BY <1>1, <1>2, <1>3, <1>4, <1>5, <1>6, <1>7, <1>8, <1>9, <1>10, <1>11, <1>12, <1>13
  DEF Next, Driver

(* The inductive invariant holds in every run of the driver.               *)
THEOREM Invariance == Spec => []IInv
  BY InitIInv, StepIInv, PTL DEF Spec

(* The variables of the driver, its table and its counters keep their      *)
(* types.                                                                  *)
THEOREM TypeCorrect == Spec => []TypeOK
<1>1. IInv => TypeOK
  BY DEF IInv
<1> QED
  BY <1>1, Invariance, PTL

(* The attempts at a range are created one after the other, each only when *)
(* the one before is settled for good.                                     *)
THEOREM AttemptsOrdered == Spec => []AttemptsInOrder
<1>1. IInv => AttemptsInOrder
  <2> SUFFICES ASSUME IInv, NEW q \in Ranges, NEW a \in Attempts, a > 1, <<q, a>> \in Rows
               PROVE  wus[<<q, a - 1>>].status \in Dead
    BY DEF AttemptsInOrder, Dead
  <2>1. a - 1 \in Attempts /\ a - 1 < a
    BY TaskAssumption DEF Attempts
  <2> QED
    BY <2>1 DEF IInv, PastDead, Rows
<1> QED
  BY <1>1, Invariance, PTL

(* No range is ever in the hands of two attempts, whatever is timed out,   *)
(* resubmitted, uploaded late or lost in a crash.                          *)
THEOREM OneLiveAttempt == Spec => []AtMostOneLive
<1>1. IInv => AtMostOneLive
  <2> SUFFICES ASSUME IInv, NEW q \in Ranges, NEW a \in Attempts, NEW b \in Attempts,
                      wus[<<q, a>>].status \in Live, wus[<<q, b>>].status \in Live
               PROVE  a = b
    BY DEF AtMostOneLive
  <2>1. a \in Nat /\ b \in Nat
    BY WuidPairs
  <2>2. ~(a < b) /\ ~(b < a)
    BY DEF IInv, PastDead, Live, Dead
  <2> QED
    BY <2>1, <2>2
<1> QED
  BY <1>1, Invariance, PTL

(* No range is counted from two result files: two counted files of a range *)
(* belong to live attempts, so to the same one, which has one file.        *)
THEOREM CountedOnce == Spec => []RangeCountedOnce
<1>1. IInv => RangeCountedOnce
  <2> SUFFICES ASSUME IInv, NEW f \in output_files, NEW g \in output_files,
                      f[1][1] = g[1][1]
               PROVE  f = g
    BY DEF RangeCountedOnce
  <2>1. /\ f[1] \in Wuids /\ f \in wus[f[1]].files /\ wus[f[1]].status \in Countable
        /\ g[1] \in Wuids /\ g \in wus[g[1]].files /\ wus[g[1]].status \in Countable
    BY DEF IInv, CountedOK
  <2> DEFINE q == f[1][1]
             a == f[1][2]
             b == g[1][2]
  <2>2. /\ q \in Ranges /\ a \in Attempts /\ b \in Attempts /\ a \in Nat /\ b \in Nat
        /\ f[1] = <<q, a>> /\ g[1] = <<q, b>>
    BY <2>1, WuidPairs
  <2> HIDE DEF q, a, b
  <2>3. ~(a < b) /\ ~(b < a)
    BY <2>1, <2>2 DEF IInv, PastDead, Countable, Dead
  <2>4. f[1] = g[1]
    BY <2>2, <2>3
  <2> QED
    BY <2>1, <2>4 DEF IInv, OwnFile
<1> QED
  BY <1>1, Invariance, PTL

-----------------------------------------------------------------------------
(***************************************************************************)
(* The counting properties, of a driver that was not killed yet and that   *)
(* got a file with every result.                                           *)
(***************************************************************************)
OpenRows == {w \in Wuids : wus[w].status \in Open}

LEMMA OutstandingOpen ==
    OutstandingInv <=>
        (pc # "done" => get_number_outstanding_wus = Cardinality(OpenRows) + InHand)
  BY DEF OutstandingInv, OpenRows

(* The table is finite.                                                    *)
LEMMA FiniteTable ==
    ASSUME NEW S \in SUBSET Wuids PROVE IsFiniteSet(S) /\ Cardinality(S) \in Nat
  <1>1. IsFiniteSet(Ranges) BY SievingAssumption, FS_Interval
  <1>2. IsFiniteSet(Attempts)
    <2>1. IsFiniteSet(1 .. maxresubmit + maxwuerror + 1) BY TaskAssumption, FS_Interval
    <2>2. QED BY <2>1, FS_Subset DEF Attempts
  <1>3. IsFiniteSet(Wuids) BY <1>1, <1>2, TaskAssumption, FS_Product
  <1>4. QED BY <1>3, FS_Subset, FS_CardinalityType

LEMMA FiniteRanges ==
    ASSUME NEW S \in SUBSET Ranges PROVE IsFiniteSet(S) /\ Cardinality(S) \in Nat
  <1>1. IsFiniteSet(Ranges) BY SievingAssumption, FS_Interval
  <1>2. QED BY <1>1, FS_Subset, FS_CardinalityType

(* One row is opened or settled.                                           *)
LEMMA OpenCount ==
    ASSUME NEW S \in SUBSET Wuids, NEW T \in SUBSET Wuids, NEW w \in Wuids,
           \A v \in Wuids \ {w} : v \in S <=> v \in T
    PROVE  /\ w \in S /\ w \in T => Cardinality(T) = Cardinality(S)
           /\ w \notin S /\ w \in T => Cardinality(T) = Cardinality(S) + 1
           /\ w \in S /\ w \notin T => Cardinality(T) = Cardinality(S) - 1
  <1>1. /\ IsFiniteSet(S) /\ IsFiniteSet(T) /\ Cardinality(S) \in Nat /\ Cardinality(T) \in Nat
    BY FiniteTable
  <1>2. ASSUME w \in S, w \in T PROVE T = S BY <1>2
  <1>3. ASSUME w \notin S, w \in T PROVE Cardinality(T) = Cardinality(S) + 1
    <2>1. T = S \cup {w} BY <1>3
    <2>2. QED BY <1>1, <1>3, <2>1, FS_AddElement
  <1>4. ASSUME w \in S, w \notin T PROVE Cardinality(T) = Cardinality(S) - 1
    <2>1. T = S \ {w} BY <1>4
    <2>2. QED BY <1>1, <1>4, <2>1, FS_RemoveElement
  <1>5. QED BY <1>2, <1>3, <1>4

(* The counters of the driver.                                             *)
LEMMA Counting ==
    ASSUME TypeOK
    PROVE  /\ get_number_outstanding_wus \in Int
           /\ UNCHANGED state => UNCHANGED get_number_outstanding_wus
           /\ Increment("wu_submitted") => get_number_outstanding_wus' = get_number_outstanding_wus + 1
           /\ Increment("wu_received") => get_number_outstanding_wus' = get_number_outstanding_wus - 1
           /\ Increment("wu_timedout") => get_number_outstanding_wus' = get_number_outstanding_wus - 1
           /\ Increment("wu_failed") \/ Increment("wu_range_received")
                => UNCHANGED get_number_outstanding_wus
  <1>1. state \in [Counters -> Nat] BY DEF TypeOK
  <1> USE <1>1 DEF get_number_outstanding_wus, Counters
  <1>2. get_number_outstanding_wus \in Int OBVIOUS
  <1>3. ASSUME Increment("wu_submitted") PROVE get_number_outstanding_wus' = get_number_outstanding_wus + 1
    BY <1>3 DEF Increment
  <1>4. ASSUME Increment("wu_received") PROVE get_number_outstanding_wus' = get_number_outstanding_wus - 1
    BY <1>4 DEF Increment
  <1>5. ASSUME Increment("wu_timedout") PROVE get_number_outstanding_wus' = get_number_outstanding_wus - 1
    BY <1>5 DEF Increment
  <1>6. ASSUME Increment("wu_failed") \/ Increment("wu_range_received")
        PROVE  UNCHANGED get_number_outstanding_wus
    BY <1>6 DEF Increment
  <1>7. QED BY <1>2, <1>3, <1>4, <1>5, <1>6

(* A new attempt always has a name.                                        *)
LEMMA NextHasName ==
    ASSUME NEW w \in Wuids, w[2] + 1 <= maxresubmit \/ w[2] + 1 <= maxwuerror
    PROVE  <<w[1], w[2] + 1>> \in Wuids
  <1>1. w[1] \in Ranges /\ w[2] \in Attempts /\ maxresubmit \in Nat /\ maxwuerror \in Nat
    BY WuidPairs, TaskAssumption
  <1>2. w[2] + 1 \in Attempts BY <1>1 DEF Attempts
  <1>3. QED BY <1>1, <1>2, WuidPairs

(* An attempt that is not settled has no successor.                        *)
LEMMA LastAttempt ==
    ASSUME IInv, NEW w \in Wuids, wus[w].status \notin Dead
    PROVE  <<w[1], w[2] + 1>> \notin Rows
  <1>1. SUFFICES ASSUME <<w[1], w[2] + 1>> \in Wuids, wus[<<w[1], w[2] + 1>>].status # "ABSENT"
                 PROVE  FALSE
    BY DEF Rows
  <1>2. w[1] \in Ranges /\ w[2] \in Attempts /\ w = <<w[1], w[2]>> /\ w[2] \in Nat BY WuidPairs
  <1>3. w[2] + 1 \in Attempts BY <1>1, TaskAssumption
  <1>4. w[2] < w[2] + 1 BY <1>2
  <1>5. wus[<<w[1], w[2]>>].status \in Dead BY <1>1, <1>2, <1>3, <1>4 DEF IInv, PastDead
  <1>6. QED BY <1>2, <1>5

LEMMA InitRInv == ASSUME Init PROVE RInv
  <1> USE DEF Init, WuInit, TaskInit, NoRow, BlankRow
  <1>1. /\ Rows = {} /\ OpenRows = {} /\ Skipped = {} /\ ~InSubmit
    BY SievingAssumption DEF Rows, OpenRows, Open, Skipped, InSubmit, Waiting, Handling, Replacing
  <1>2. Cardinality({}) = 0 BY FS_EmptySet
  <1>3. RangesInv BY <1>1, SievingAssumption DEF RangesInv
  <1>4. SkippedInv BY <1>1, <1>2 DEF SkippedInv
  <1>5. AnswersInv BY DEF AnswersInv, Received
  <1>6. HandInv BY DEF HandInv, Handling, Replacing
  <1>7. SuccessorsInv BY WuidPairs DEF SuccessorsInv
  <1>8. OutstandingInv
    <2>1. get_number_outstanding_wus = 0 /\ InHand = 0
      BY DEF get_number_outstanding_wus, Counters, InHand
    <2>2. Cardinality(OpenRows) = 0 BY <1>1, <1>2
    <2>3. QED BY <2>1, <2>2, OutstandingOpen
  <1>9. QED BY <1>3, <1>4, <1>5, <1>6, <1>7, <1>8 DEF RInv

-----------------------------------------------------------------------------
(* A step that hands out no range, neither lowers the count nor raises the *)
(* goal, and creates rows of known ranges only.                            *)
LEMMA KeepRanges ==
    ASSUME TypeOK, TypeOK', RangesInv, SkippedInv,
           UNCHANGED <<qnext, requests, rels_wanted>>, rels_found' >= rels_found,
           \A w \in Rows' : \E v \in Rows : v[1] = w[1],
           \A q \in Ranges : <<q, 1>> \in Rows' <=> <<q, 1>> \in Rows,
           InSubmit' => InSubmit, pc # "advance", pc' # "advance"
    PROVE  RangesInv' /\ SkippedInv'
  <1>1. ~enough_work_received' => ~enough_work_received
    BY DEF enough_work_received, TypeOK
  <1>2. Skipped' = Skipped BY DEF Skipped
  <1>3. SkippedInv' BY <1>1, <1>2 DEF SkippedInv
  <1>4. RangesInv' BY DEF RangesInv
  <1>5. QED BY <1>3, <1>4

(* wait() goes back to its caller.                                         *)
LEMMA KeepSubmit ==
    ASSUME TypeOK, pc \in Waiting, UNCHANGED caller,
           \/ pc' \in Waiting \cup {"aborted"} \/ (pc' = caller /\ caller # "once")
           \/ pc' = "count" /\ caller = "once"
    PROVE  InSubmit' => InSubmit
  BY DEF InSubmit, TypeOK, Waiting, Handling, Replacing

LEMMA AnsweredBack ==
    ASSUME NEW received \in BOOLEAN, Answered(received)
    PROVE  \/ pc' = "timeouts" \/ (pc' = caller /\ caller # "once")
           \/ pc' = "count" /\ caller = "once"
  BY DEF Answered

(* What a step keeps that leaves the table alone.                          *)
LEMMA SameRows ==
    ASSUME UNCHANGED wus
    PROVE  Rows' = Rows /\ OpenRows' = OpenRows
  BY DEF Rows, OpenRows

LEMMA KeepSuccessors ==
    ASSUME SuccessorsInv, UNCHANGED wus, pc \notin Replacing \cup Stopped \cup {"done"}
    PROVE  SuccessorsInv'
  <1>1. Rows' = Rows BY SameRows
  <1>2. QED BY <1>1 DEF SuccessorsInv, Succeeded, get_exitcode

LEMMA KeepOutstanding ==
    ASSUME OutstandingInv, pc # "done", UNCHANGED wus,
           get_number_outstanding_wus' - InHand' = get_number_outstanding_wus - InHand,
           get_number_outstanding_wus \in Int, get_number_outstanding_wus' \in Int,
           InHand \in Int, InHand' \in Int
    PROVE  OutstandingInv'
  <1>1. OpenRows' = OpenRows /\ Cardinality(OpenRows) \in Nat BY SameRows, FiniteTable DEF OpenRows
  <1>2. get_number_outstanding_wus = Cardinality(OpenRows) + InHand BY OutstandingOpen
  <1>3. get_number_outstanding_wus' = Cardinality(OpenRows') + InHand' BY <1>1, <1>2
  <1>4. QED BY <1>3 DEF OutstandingInv, OpenRows

LEMMA InHandType == InHand \in Int BY DEF InHand

(* The counter moves with what is in hand.                                 *)
LEMMA CountInHand ==
    ASSUME TypeOK, TypeOK', OutstandingInv, pc # "done", UNCHANGED wus,
           \/ UNCHANGED state /\ InHand' = InHand
           \/ (Increment("wu_failed") \/ Increment("wu_range_received")) /\ InHand' = InHand
           \/ Increment("wu_submitted") /\ InHand' = InHand + 1
           \/ (Increment("wu_received") \/ Increment("wu_timedout")) /\ InHand' = InHand - 1
    PROVE  OutstandingInv'
  <1>1. get_number_outstanding_wus \in Int /\ InHand \in Int /\ InHand' \in Int
    BY Counting, InHandType
  <1>2. get_number_outstanding_wus' \in Int
    BY DEF TypeOK, get_number_outstanding_wus, Counters
  <1>3. get_number_outstanding_wus' - InHand' = get_number_outstanding_wus - InHand
    <2>1. CASE UNCHANGED state /\ InHand' = InHand BY <1>1, <2>1, Counting
    <2>2. CASE (Increment("wu_failed") \/ Increment("wu_range_received")) /\ InHand' = InHand
      BY <1>1, <2>2, Counting
    <2>3. CASE Increment("wu_submitted") /\ InHand' = InHand + 1 BY <1>1, <2>3, Counting
    <2>4. CASE (Increment("wu_received") \/ Increment("wu_timedout")) /\ InHand' = InHand - 1
      BY <1>1, <2>4, Counting
    <2>5. QED BY <2>1, <2>2, <2>3, <2>4
  <1>4. QED BY <1>1, <1>2, <1>3, KeepOutstanding

(* run() outside of results and timeouts: handing out a range starts while *)
(* the goal is not reached, and a range is skipped only when it is.        *)
LEMMA CountedSteps ==
    ASSUME IInv, IInv', RInv,
           Loop \/ Submit \/ Count \/ Advance \/ Drain \/ GiveUp \/ RequestMoreRelations
    PROVE  AnswersInv' /\ HandInv' /\ SuccessorsInv' /\ OutstandingInv'
  <1>1. pc \in {"up", "submit", "count", "advance", "drain", "exit"}
    BY DEF Loop, Submit, SubmitCommand, Count, CountNew, Advance, Drain, GiveUp,
           RequestMoreRelations
  <1>2. /\ UNCHANGED <<wus, todo, restarts>>
        /\ pc' \in {"submit", "drain", "exit", "advance", "result", "create", "up", "gaveup"}
    BY DEF Loop, Submit, SubmitCommand, Count, CountNew, Advance, Drain, GiveUp,
           RequestMoreRelations
  <1>3. TypeOK /\ TypeOK' /\ AnswersInv /\ HandInv /\ SuccessorsInv /\ OutstandingInv
    BY DEF IInv, RInv
  <1>4. AnswersInv' BY <1>2, <1>3 DEF AnswersInv
  <1>5. HandInv' BY <1>2, <1>3 DEF HandInv, Handling, Replacing
  <1>6. SuccessorsInv' BY <1>1, <1>2, <1>3, KeepSuccessors DEF Replacing, Stopped
  <1>7. OutstandingInv'
    <2>1. InHand = 0 BY <1>1 DEF InHand
    <2>2. CASE Count
      <3>1. Increment("wu_submitted") /\ pc' = "create" BY <2>2 DEF Count, CountNew
      <3>2. InHand' = InHand + 1 BY <2>1, <3>1 DEF InHand
      <3>3. QED BY <1>1, <1>2, <1>3, <3>1, <3>2, CountInHand
    <2>3. CASE Loop \/ Submit \/ Advance \/ Drain \/ GiveUp \/ RequestMoreRelations
      <3>1. UNCHANGED state /\ pc' # "create"
        BY <2>3 DEF Loop, Submit, SubmitCommand, Advance, Drain, GiveUp, RequestMoreRelations
      <3>2. InHand' = InHand BY <1>2, <2>1, <3>1 DEF InHand
      <3>3. QED BY <1>1, <1>2, <1>3, <3>1, <3>2, CountInHand
    <2>4. QED BY <2>2, <2>3
  <1>8. QED BY <1>4, <1>5, <1>6, <1>7

LEMMA RangeSteps ==
    ASSUME IInv, IInv', RInv,
           Loop \/ Submit \/ Count \/ Advance \/ Drain \/ GiveUp \/ RequestMoreRelations
    PROVE  RangesInv' /\ SkippedInv'
  <1>1. UNCHANGED wus
    BY DEF Loop, Submit, SubmitCommand, Count, CountNew, Advance, Drain, GiveUp,
           RequestMoreRelations
  <1>2. Rows' = Rows BY <1>1, SameRows
  <1>3. /\ TypeOK /\ TypeOK' /\ RangesInv /\ SkippedInv /\ qmax \in Nat /\ qnext \in Nat
        /\ rels_found \in Nat /\ rels_wanted \in Nat /\ requests \in Nat
    BY SievingAssumption DEF IInv, RInv, TypeOK
  <1>4. Skipped \in SUBSET Ranges BY DEF Skipped
  <1>5. Cardinality(Skipped) \in Nat /\ IsFiniteSet(Skipped) BY <1>4, FiniteRanges
  <1> USE DEF InSubmit, Waiting, Handling, Replacing
  <1>6. CASE Loop
    <2>1. /\ UNCHANGED <<qnext, rels_found, rels_wanted, requests>> /\ pc = "up"
          /\ \/ pc' = "submit" /\ ~enough_work_received /\ qnext < qmax
             \/ pc' \in {"drain", "exit"}
      BY <1>3, <1>6 DEF Loop, reached_qmax
    <2>2. Skipped' = Skipped /\ enough_work_received' = enough_work_received
      BY <1>2, <2>1 DEF Skipped, enough_work_received
    <2>3. QED BY <1>2, <1>3, <2>1, <2>2 DEF RangesInv, SkippedInv
  <1>7. CASE Submit
    <2>1. /\ UNCHANGED <<qnext, rels_found, rels_wanted, requests>> /\ pc = "submit"
          /\ pc' = "result" \/ (pc' = "advance" /\ enough_work_received)
      BY <1>7 DEF Submit, SubmitCommand
    <2>2. Skipped' = Skipped /\ enough_work_received' = enough_work_received
      BY <1>2, <2>1 DEF Skipped, enough_work_received
    <2>3. QED BY <1>2, <1>3, <2>1, <2>2 DEF RangesInv, SkippedInv
  <1>8. CASE Count
    <2>1. UNCHANGED <<qnext, rels_found, rels_wanted, requests>> /\ pc = "count" /\ pc' = "create"
      BY <1>8 DEF Count, CountNew
    <2>2. Skipped' = Skipped /\ enough_work_received' = enough_work_received
      BY <1>2, <2>1 DEF Skipped, enough_work_received
    <2>3. QED BY <1>2, <1>3, <2>1, <2>2 DEF RangesInv, SkippedInv
  <1>9. CASE Drain \/ GiveUp
    <2>1. /\ UNCHANGED <<qnext, rels_found, rels_wanted, requests>> /\ pc \in {"drain", "exit"}
          /\ pc' \in {"exit", "gaveup"} \/ (pc' = "result" /\ caller' = "drain")
      BY <1>9 DEF Drain, GiveUp
    <2>2. Skipped' = Skipped /\ enough_work_received' = enough_work_received
      BY <1>2, <2>1 DEF Skipped, enough_work_received
    <2>3. QED BY <1>2, <1>3, <2>1, <2>2 DEF RangesInv, SkippedInv
  <1>10. CASE RequestMoreRelations
    <2>1. /\ UNCHANGED <<qnext, rels_found>> /\ pc = "exit" /\ pc' \in {"up", "exit"}
          /\ requests' = requests + 1
      BY <1>10 DEF RequestMoreRelations
    <2>2. Skipped' = Skipped BY <1>2, <2>1 DEF Skipped
    <2>3. Cardinality(Skipped) <= requests' BY <1>3, <1>5, <2>1 DEF SkippedInv
    <2>4. SkippedInv' BY <1>3, <1>5, <2>1, <2>2, <2>3 DEF SkippedInv
    <2>5. RangesInv' BY <1>2, <1>3, <2>1 DEF RangesInv
    <2>6. QED BY <2>4, <2>5
  <1>11. CASE Advance
    <2>1. /\ UNCHANGED <<rels_found, rels_wanted, requests>> /\ pc = "advance" /\ pc' = "up"
          /\ qnext' = qnext + 1
      BY <1>11 DEF Advance
    <2>2. qnext < qmax BY <1>3, <2>1 DEF RangesInv
    <2>3. enough_work_received' = enough_work_received BY <2>1 DEF enough_work_received
    <2>4. RangesInv'
      <3>1. ASSUME NEW w \in Rows PROVE w[1] < qnext + 1
        <4>1. w[1] \in Nat BY WuidPairs, SievingAssumption DEF Rows
        <4>2. QED BY <1>3, <3>1, <4>1 DEF RangesInv
      <3>2. QED BY <1>2, <1>3, <2>1, <2>2, <3>1 DEF RangesInv
    <2>5. Cardinality(Skipped) <= requests BY <1>3, <2>1 DEF SkippedInv
    <2>6. \A q \in Ranges : q < qnext + 1 <=> q < qnext \/ q = qnext
      BY <1>3, SievingAssumption
    <2>7. CASE <<qnext, 1>> \in Rows
      <3>1. Skipped' = Skipped BY <1>2, <2>1, <2>6, <2>7 DEF Skipped
      <3>2. QED BY <1>3, <1>5, <2>1, <2>4, <2>5, <3>1 DEF SkippedInv
    <2>8. CASE <<qnext, 1>> \notin Rows
      <3>1. qnext \in Ranges BY <1>3, <2>2, SievingAssumption
      <3>2. Skipped' = Skipped \cup {qnext} BY <1>2, <2>1, <2>6, <2>8, <3>1 DEF Skipped
      <3>3. qnext \notin Skipped BY <1>3 DEF Skipped
      <3>4. Cardinality(Skipped') = Cardinality(Skipped) + 1
        BY <1>5, <3>2, <3>3, FS_AddElement
      <3>5. enough_work_received BY <1>3, <2>1, <2>8 DEF RangesInv
      <3>6. Cardinality(Skipped') <= requests' + 1 BY <1>3, <1>5, <2>1, <2>5, <3>4
      <3>7. SkippedInv' BY <2>1, <2>3, <3>5, <3>6 DEF SkippedInv
      <3>8. QED BY <2>4, <3>7
    <2>9. QED BY <2>7, <2>8
  <1>12. QED BY <1>6, <1>7, <1>8, <1>9, <1>10, <1>11

(* A result is taken: the first command failed if there is an error code,  *)
(* and there is a file.                                                    *)
LEMMA CountedResult ==
    ASSUME IInv, IInv', RInv,
           \/ (NoResult \/ ErrorResult \/ CountFailed \/ VerifyCount \/ VerifyRange)
              /\ UNCHANGED sievevars
           \/ TakeResult \/ AddRels \/ AddFile
    PROVE  RInv'
  <1> DEFINE A == \/ (NoResult \/ ErrorResult \/ CountFailed \/ VerifyCount \/ VerifyRange)
                     /\ UNCHANGED sievevars
                  \/ TakeResult \/ AddRels \/ AddFile
  <1>0. A OBVIOUS
  <1>1. /\ TypeOK /\ TypeOK' /\ JobInv /\ RangesInv /\ SkippedInv /\ AnswersInv /\ HandInv
        /\ SuccessorsInv /\ OutstandingInv
    BY DEF IInv, RInv
  <1>2. pc \in {"result"} \cup Handling
    BY <1>0 DEF NoResult, ErrorResult, CountFailed, VerifyCount, VerifyRange, TakeResult,
                AddRels, AddFile, Handling
  <1>3. /\ UNCHANGED <<wus, caller, todo, restarts, qnext, requests, rels_wanted>>
        /\ rels_found' = rels_found \/ AddRels
    BY <1>0 DEF NoResult, ErrorResult, CountFailed, VerifyCount, VerifyRange, TakeResult,
                AddRels, AddFile
  <1>4. rels_found' >= rels_found
    <2>1. CASE rels_found' = rels_found BY <1>1, <2>1 DEF TypeOK
    <2>2. CASE AddRels
      <3>1. pc = "add_rels" /\ rels_found' = rels_found + Output(job.wu)[2]
        BY <2>2 DEF AddRels
      <3>2. job \in Jobs /\ job.wu \in Wuids BY <1>1, <3>1 DEF JobInv, Handling, Jobs
      <3>3. Output(job.wu) \in wus[job.wu].files
        BY <1>1, <3>1, <3>2, OutputOfFiles DEF JobInv
      <3>4. wus[job.wu].files \subseteq Wuids \X Outputs
        BY <1>1, <3>2, SievingAssumption DEF TypeOK, WuTypeOK, Row
      <3>5. Output(job.wu)[2] \in Outputs /\ Output(job.wu)[2] # CORRUPT
        BY <1>1, <3>1, <3>3, <3>4 DEF JobInv
      <3>6. Output(job.wu)[2] \in Nat BY <3>5, SievingAssumption
      <3>7. QED BY <1>1, <3>1, <3>6 DEF TypeOK
    <2>3. QED BY <1>3, <2>1, <2>2
  <1>5. todo = {} BY <1>2, NoTodo DEF Handling, Replacing, Stopped
  <1>6. ASSUME TakeResult \/ ErrorResult
        PROVE  \E w \in Wuids :
                  /\ wus[w].status \in Received /\ job'.wu = w /\ wus[w].files # {}
                  /\ \/ job'.error /\ pc' \in {"failed", "aborted"}
                     \/ /\ ~job'.error /\ get_exitcode(w, 0) = 0
                        /\ pc' \in {"add_rels", "verify"}
    <2>1. CASE TakeResult
      <3>1. PICK w \in get_one_result :
               /\ get_exitcode(w, 0) = 0 /\ job'.wu = w /\ ~job'.error
               /\ wus[w].files # {} => pc' \in {"add_rels", "verify"}
        BY <2>1 DEF TakeResult
      <3>2. w \in Wuids /\ wus[w].status \in Received
        BY DEF get_one_result, WithStatus, Received
      <3>3. wus[w].files # {} BY <1>1, <3>2 DEF AnswersInv
      <3>4. QED BY <3>1, <3>2, <3>3
    <2>2. CASE ErrorResult
      <3>1. PICK w \in get_one_result :
               job'.wu = w /\ job'.error /\ pc' \in {"failed", "aborted"}
        BY <2>2 DEF ErrorResult, Raise
      <3>2. w \in Wuids /\ wus[w].status \in Received
        BY DEF get_one_result, WithStatus, Received
      <3>3. wus[w].files # {} BY <1>1, <3>2 DEF AnswersInv
      <3>4. QED BY <3>1, <3>2, <3>3
    <2>3. QED BY <1>6, <2>1, <2>2
  <1>7. \/ pc' \in Handling \cup {"aborted"}
        \/ NoResult /\ Answered(FALSE)
    <2>1. CASE TakeResult \/ ErrorResult BY <1>6, <2>1 DEF Handling
    <2>2. CASE NoResult BY <2>2 DEF NoResult
    <2>3. CASE CountFailed \/ VerifyCount \/ VerifyRange \/ AddRels \/ AddFile
      BY <2>3 DEF CountFailed, VerifyCount, VerifyRange, AddRels, AddFile, Raise, Handling
    <2>4. QED BY <1>0, <2>1, <2>2, <2>3
  <1>8. /\ \/ pc' \in Waiting \cup {"aborted"} \/ (pc' = caller /\ caller # "once")
           \/ pc' = "count" /\ caller = "once"
        /\ pc' \in Handling \cup {"aborted", "timeouts", "count", "submit", "drain"}
    <2>1. CASE pc' \in Handling \cup {"aborted"}
      BY <2>1 DEF Waiting, Handling, Replacing
    <2>2. CASE NoResult /\ Answered(FALSE)
      <3>1. \/ pc' = "timeouts" \/ (pc' = caller /\ caller # "once")
            \/ pc' = "count" /\ caller = "once"
        BY <2>2, AnsweredBack
      <3>2. caller \in {"submit", "drain", "once"} BY <1>1 DEF TypeOK
      <3>3. QED BY <3>1, <3>2 DEF Waiting
    <2>3. QED BY <1>7, <2>1, <2>2
  <1>9. InSubmit' => InSubmit
    BY <1>1, <1>2, <1>3, <1>8, KeepSubmit DEF Waiting
  <1>10. RangesInv' /\ SkippedInv'
    <2>1. Rows' = Rows BY <1>3, SameRows
    <2>2. pc # "advance" /\ pc' # "advance" BY <1>2, <1>8 DEF Handling
    <2>3. QED BY <1>1, <1>3, <1>4, <1>9, <2>1, <2>2, KeepRanges
  <1>11. AnswersInv' BY <1>1, <1>3, <1>8 DEF AnswersInv, Handling
  <1>12. HandInv'
    <2>1. pc' \in Handling => (get_exitcode(job'.wu, 0) # 0 => job'.error)
      <3>1. CASE TakeResult \/ ErrorResult
        <4>1. PICK w \in Wuids :
                  /\ wus[w].status \in Received /\ job'.wu = w
                  /\ job'.error \/ get_exitcode(w, 0) = 0
          BY <1>6, <3>1
        <4>2. QED BY <4>1
      <3>2. CASE NoResult BY <1>1, <1>7, <3>2, AnsweredBack DEF NoResult, Handling, TypeOK
      <3>3. CASE CountFailed \/ VerifyCount \/ VerifyRange \/ AddRels \/ AddFile
        <4>1. UNCHANGED job /\ pc \in Handling
          BY <3>3 DEF CountFailed, VerifyCount, VerifyRange, AddRels, AddFile, Handling
        <4>2. QED BY <1>1, <4>1 DEF HandInv
      <3>4. QED BY <1>0, <3>1, <3>2, <3>3
    <2>2. pc' \notin {"cancel"} \cup Replacing BY <1>8 DEF Handling, Replacing
    <2>3. QED BY <1>3, <1>5, <2>1, <2>2 DEF HandInv, Replacing, get_exitcode
  <1>13. SuccessorsInv'
    BY <1>1, <1>2, <1>3, KeepSuccessors DEF Handling, Replacing, Stopped
  <1>14. OutstandingInv'
    <2>0. pc # "done" BY <1>2 DEF Handling
    <2>1. CASE VerifyCount
      <3>1. pc = "verify" /\ job.wu \in Wuids /\ wus[job.wu].status \in Received
        BY <1>1, <2>1 DEF VerifyCount, JobInv, Handling, Jobs
      <3>2. job.wu \in OpenRows BY <3>1 DEF OpenRows, Open, Received
      <3>3. OpenRows \in SUBSET Wuids BY DEF OpenRows
      <3>4. Cardinality(OpenRows) # 0 BY <3>2, <3>3, FiniteTable, FS_EmptySet
      <3>5. Cardinality(OpenRows) \in Nat BY <3>3, FiniteTable
      <3>6. InHand = 0 BY <3>1 DEF InHand
      <3>7. get_number_outstanding_wus >= 1
        BY <1>1, <2>0, <3>4, <3>5, <3>6, OutstandingOpen
      <3>8. get_number_outstanding_wus \in Int BY <1>1, Counting
      <3>9. Increment("wu_received") /\ pc' = "verify_range"
        BY <2>1, <3>7, <3>8 DEF VerifyCount
      <3>10. InHand' = InHand - 1 BY <3>6, <3>9 DEF InHand
      <3>11. QED BY <1>1, <1>3, <2>0, <3>9, <3>10, CountInHand
    <2>2. CASE VerifyRange
      <3>1. pc = "verify_range" /\ pc' = "verify_row" /\ Increment("wu_range_received")
        BY <2>2 DEF VerifyRange
      <3>2. InHand' = InHand BY <3>1 DEF InHand
      <3>3. QED BY <1>1, <1>3, <2>0, <3>1, <3>2, CountInHand
    <2>3. CASE CountFailed
      <3>1. pc = "failed" /\ pc' = "verify" /\ Increment("wu_failed")
        BY <2>3 DEF CountFailed
      <3>2. InHand' = InHand BY <3>1 DEF InHand
      <3>3. QED BY <1>1, <1>3, <2>0, <3>1, <3>2, CountInHand
    <2>4. CASE NoResult \/ ErrorResult \/ TakeResult \/ AddRels \/ AddFile
      <3>1. /\ pc \in {"result", "add_rels", "add_file"} /\ UNCHANGED state
        BY <2>4 DEF NoResult, ErrorResult, TakeResult, AddRels, AddFile
      <3>2. pc' \in {"failed", "aborted", "add_rels", "add_file", "verify", "timeouts",
                     "count", "submit", "drain"}
        <4>1. CASE TakeResult \/ ErrorResult BY <1>6, <4>1
        <4>2. CASE NoResult BY <1>1, <4>2, AnsweredBack DEF NoResult, TypeOK
        <4>3. CASE AddRels \/ AddFile BY <4>3 DEF AddRels, AddFile
        <4>4. QED BY <2>4, <4>1, <4>2, <4>3
      <3>3. InHand' = InHand BY <3>1, <3>2 DEF InHand
      <3>4. QED BY <1>1, <1>3, <2>0, <3>1, <3>3, CountInHand
    <2>5. QED BY <1>0, <2>1, <2>2, <2>3, <2>4
  <1>15. QED BY <1>10, <1>11, <1>12, <1>13, <1>14 DEF RInv

(* resubmit_timed_out_wus(): what is still to be handled is open, since    *)
(* nobody else settles it.                                                 *)
LEMMA CountedTimeouts ==
    ASSUME IInv, IInv', RInv,
           \/ (NoTimeoutCheck \/ CancelCount \/ AllHandled \/ Resubmit) /\ UNCHANGED sievevars
           \/ \E S \in SUBSET WithStatus("ASSIGNED") : CheckTimeouts(S)
    PROVE  RInv'
  <1> DEFINE A == \/ (NoTimeoutCheck \/ CancelCount \/ AllHandled \/ Resubmit)
                     /\ UNCHANGED sievevars
                  \/ \E S \in SUBSET WithStatus("ASSIGNED") : CheckTimeouts(S)
             C == \E S \in SUBSET WithStatus("ASSIGNED") : CheckTimeouts(S)
  <1>0. A OBVIOUS
  <1>1. /\ TypeOK /\ TypeOK' /\ JobInv /\ CallerInv /\ RangesInv /\ SkippedInv /\ AnswersInv
        /\ HandInv /\ SuccessorsInv /\ OutstandingInv
    BY DEF IInv, RInv
  <1>2. pc \in {"timeouts", "next", "resubmit"}
    BY <1>0 DEF NoTimeoutCheck, CancelCount, AllHandled, Resubmit, CheckTimeouts, TimeoutCheck
  <1>3. UNCHANGED <<wus, caller, restarts, qnext, requests, rels_wanted, rels_found>>
    BY <1>0 DEF NoTimeoutCheck, CancelCount, AllHandled, Resubmit, CheckTimeouts, TimeoutCheck
  <1>4. /\ NoTimeoutCheck \/ AllHandled => pc' = caller /\ caller \in {"submit", "drain"}
        /\ C => pc' = "next"
        /\ CancelCount => pc' \in {"cancel", "aborted"}
        /\ Resubmit => \/ pc' \in {"recreate", "next"} \/ (pc' = caller /\ caller # "once")
                       \/ pc' = "count" /\ caller = "once"
    <2>1. ASSUME NoTimeoutCheck \/ AllHandled
          PROVE  pc' = caller /\ caller \in {"submit", "drain"}
      BY <1>1, <2>1 DEF NoTimeoutCheck, AllHandled, CallerInv
    <2>2. ASSUME C PROVE pc' = "next" BY <2>2 DEF CheckTimeouts, TimeoutCheck
    <2>3. ASSUME CancelCount PROVE pc' \in {"cancel", "aborted"}
      BY <2>3 DEF CancelCount, Raise
    <2>4. ASSUME Resubmit
          PROVE  \/ pc' \in {"recreate", "next"} \/ (pc' = caller /\ caller # "once")
                 \/ pc' = "count" /\ caller = "once"
      <3>1. CASE Answered(TRUE) BY <3>1, AnsweredBack DEF Answered
      <3>2. CASE pc' \in {"next", "recreate"} BY <3>2
      <3>3. QED BY <2>4, <3>1, <3>2 DEF Resubmit, Resubmitted
    <2>5. QED BY <2>1, <2>2, <2>3, <2>4
  <1>5. pc' \in {"next", "cancel", "aborted", "recreate", "submit", "drain", "count"}
    BY <1>0, <1>1, <1>4 DEF TypeOK
  <1>6. RangesInv' /\ SkippedInv'
    <2>1. pc \in Waiting BY <1>2 DEF Waiting, Replacing
    <2>2. \/ pc' \in Waiting \cup {"aborted"} \/ (pc' = caller /\ caller # "once")
          \/ pc' = "count" /\ caller = "once"
      <3>1. CASE (NoTimeoutCheck \/ AllHandled) BY <1>4, <3>1
      <3>2. CASE C \/ CancelCount
        <4>1. pc' \in {"next", "cancel", "aborted"} BY <1>4, <3>2
        <4>2. QED BY <4>1 DEF Waiting
      <3>3. CASE Resubmit BY <1>4, <3>3 DEF Waiting, Replacing
      <3>4. QED BY <1>0, <3>1, <3>2, <3>3
    <2>3. InSubmit' => InSubmit BY <1>1, <1>3, <2>1, <2>2, KeepSubmit
    <2>4. Rows' = Rows BY <1>3, SameRows
    <2>5. rels_found' >= rels_found BY <1>1, <1>3 DEF TypeOK
    <2>6. pc # "advance" /\ pc' # "advance" BY <1>2, <1>5
    <2>7. QED BY <1>1, <1>3, <2>3, <2>4, <2>5, <2>6, KeepRanges
  <1>7. AnswersInv' BY <1>1, <1>3, <1>5 DEF AnswersInv
  <1>8. HandInv' /\ SuccessorsInv'
    <2>1. Rows' = Rows BY <1>3, SameRows
    <2>2. CASE NoTimeoutCheck \/ AllHandled
      <3>1. UNCHANGED <<job, todo>> /\ pc' \in {"submit", "drain"}
        BY <1>4, <2>2 DEF NoTimeoutCheck, AllHandled
      <3>2. HandInv' BY <1>1, <1>3, <3>1 DEF HandInv, Handling, Replacing
      <3>3. pc \in {"timeouts", "next"} BY <2>2 DEF NoTimeoutCheck, AllHandled
      <3>4. SuccessorsInv' BY <1>1, <1>3, <3>3, KeepSuccessors DEF Replacing, Stopped
      <3>5. QED BY <3>2, <3>4
    <2>3. CASE C
      <3>1. /\ \A w \in todo' : wus[w].status \in {"ASSIGNED", "NEED_RESUBMIT"}
            /\ pc = "timeouts" /\ pc' = "next"
        BY <2>3 DEF CheckTimeouts, TimeoutCheck, WithStatus
      <3>2. HandInv' BY <1>3, <3>1 DEF HandInv, Handling, Replacing, Open
      <3>3. SuccessorsInv' BY <1>1, <1>3, <3>1, KeepSuccessors DEF Replacing, Stopped
      <3>4. QED BY <3>2, <3>3
    <2>4. CASE CancelCount
      <3>1. PICK w \in todo : job'.wu = w /\ todo' = todo \ {w} BY <2>4 DEF CancelCount
      <3>2. pc = "next" /\ pc' \in {"cancel", "aborted"} BY <1>4, <2>4 DEF CancelCount
      <3>3. HandInv' BY <1>1, <1>3, <3>1, <3>2 DEF HandInv, Handling, Replacing
      <3>4. SuccessorsInv' BY <1>1, <1>3, <3>2, KeepSuccessors DEF Replacing, Stopped
      <3>5. QED BY <3>3, <3>4
    <2>5. CASE Resubmit
      <3>1. UNCHANGED <<job, todo>> /\ pc = "resubmit" BY <2>5 DEF Resubmit
      <3>2. job \in Jobs /\ job.wu \in Wuids BY <1>1, <3>1 DEF JobInv, Replacing, Jobs
      <3>3. /\ NextAttempt \notin Rows /\ job.wu \notin todo
            /\ wus[job.wu].status = IF job.error THEN "VERIFIED_ERROR" ELSE "CANCELLED"
            /\ \A w \in todo : wus[w].status \in Open
        BY <1>1, <3>1 DEF HandInv, Replacing
      <3>4. /\ job.wu[2] \in Nat /\ job.wu[1] \in Ranges /\ job.wu[2] \in Attempts
            /\ maxresubmit \in Nat /\ maxwuerror \in Nat
            /\ job.wu = <<job.wu[1], job.wu[2]>>
        BY <3>2, WuidPairs, TaskAssumption
      <3>5. CASE pc' = "recreate"
        <4>1. job.wu[2] + 1 <= Limit
          BY <1>1, <2>5, <3>5 DEF Resubmit, Resubmitted, Answered, TypeOK
        <4>2. <<job.wu[1], job.wu[2] + 1>> \in Wuids
          BY <3>2, <4>1, NextHasName DEF Limit
        <4>3. HandInv'
          BY <1>3, <2>1, <3>1, <3>3, <3>5, <4>2 DEF HandInv, Handling, Replacing, NextAttempt
        <4>4. SuccessorsInv'
          BY <1>1, <1>3, <2>1, <3>1, <3>5 DEF SuccessorsInv, Succeeded, Replacing, Stopped, get_exitcode
        <4>5. QED BY <4>3, <4>4
      <3>6. CASE pc' # "recreate"
        <4>1. job.wu[2] + 1 > Limit BY <2>5, <3>6 DEF Resubmit
        <4>2. /\ ~job.error => ~(job.wu[2] < maxresubmit)
              /\ job.error => ~(job.wu[2] < maxwuerror)
          BY <3>4, <4>1 DEF Limit
        <4>3. pc' \in {"next", "submit", "drain", "count"} BY <1>1, <1>4, <2>5, <3>6 DEF TypeOK
        <4>4. HandInv'
          BY <1>3, <3>1, <3>3, <4>3 DEF HandInv, Handling, Replacing
        <4>5. ASSUME NEW q \in Ranges, NEW a \in Attempts,
                     wus[<<q, a>>].status = "CANCELLED" /\ a < maxresubmit
              PROVE  <<q, a + 1>> \in Rows
          <5>1. CASE job.wu = <<q, a>> BY <3>3, <4>2, <4>5, <5>1
          <5>2. CASE job.wu # <<q, a>>
            BY <1>1, <3>1, <4>5, <5>2 DEF SuccessorsInv, Succeeded, Stopped
          <5>3. QED BY <5>1, <5>2
        <4>6. ASSUME NEW q \in Ranges, NEW a \in Attempts,
                     /\ wus[<<q, a>>].status = "VERIFIED_ERROR"
                     /\ get_exitcode(<<q, a>>, 0) # 0 /\ a < maxwuerror
              PROVE  <<q, a + 1>> \in Rows
          <5>1. CASE job.wu = <<q, a>> BY <3>3, <4>2, <4>6, <5>1
          <5>2. CASE job.wu # <<q, a>>
            BY <1>1, <3>1, <4>6, <5>2 DEF SuccessorsInv, Succeeded, Stopped
          <5>3. QED BY <5>1, <5>2
        <4>7. SuccessorsInv' BY <1>3, <2>1, <4>5, <4>6 DEF SuccessorsInv, Succeeded, get_exitcode
        <4>8. QED BY <4>4, <4>7
      <3>7. QED BY <3>5, <3>6
    <2>6. QED BY <1>0, <2>2, <2>3, <2>4, <2>5
  <1>9. OutstandingInv'
    <2>1. InHand = 0 /\ pc # "done" BY <1>2 DEF InHand
    <2>2. CASE pc' = "cancel"
      <3>1. Increment("wu_timedout")
        <4>1. CancelCount BY <1>0, <1>1, <1>4, <2>2 DEF TypeOK
        <4>2. QED BY <2>2, <4>1 DEF CancelCount, Raise
      <3>2. InHand' = InHand - 1 BY <2>1, <2>2 DEF InHand
      <3>3. QED BY <1>1, <1>3, <2>1, <3>1, <3>2, CountInHand
    <2>3. CASE pc' = "recreate"
      <3>1. Increment("wu_submitted")
        <4>1. Resubmit BY <1>0, <1>1, <1>4, <2>3 DEF TypeOK
        <4>2. QED BY <1>1, <2>3, <4>1 DEF Resubmit, Resubmitted, Answered, TypeOK
      <3>2. InHand' = InHand + 1 BY <2>1, <2>3 DEF InHand
      <3>3. QED BY <1>1, <1>3, <2>1, <3>1, <3>2, CountInHand
    <2>4. CASE pc' \notin {"cancel", "recreate"}
      <3>1. UNCHANGED state
        BY <1>0, <2>4 DEF NoTimeoutCheck, CancelCount, AllHandled, Resubmit, CheckTimeouts,
                          TimeoutCheck
      <3>2. InHand' = InHand BY <1>5, <2>1, <2>4 DEF InHand
      <3>3. QED BY <1>1, <1>3, <2>1, <3>1, <3>2, CountInHand
    <2>5. QED BY <2>2, <2>3, <2>4
  <1>10. QED BY <1>6, <1>7, <1>8, <1>9 DEF RInv

-----------------------------------------------------------------------------
(* A step that changes one row, of a name that has one afterwards.         *)
LEMMA OneRow ==
    ASSUME NEW w \in Wuids, \A v \in Wuids \ {w} : wus'[v] = wus[v],
           wus'[w].status # "ABSENT"
    PROVE  /\ Rows' = Rows \cup {w}
           /\ wus[w].status \notin Open /\ wus'[w].status \in Open =>
                 Cardinality(OpenRows') = Cardinality(OpenRows) + 1
           /\ wus[w].status \in Open /\ wus'[w].status \notin Open =>
                 Cardinality(OpenRows') = Cardinality(OpenRows) - 1
           /\ wus[w].status \in Open /\ wus'[w].status \in Open =>
                 Cardinality(OpenRows') = Cardinality(OpenRows)
           /\ Cardinality(OpenRows) \in Nat /\ Cardinality(OpenRows') \in Nat
  <1>1. Rows' = Rows \cup {w} BY DEF Rows
  <1>2. OpenRows \in SUBSET Wuids /\ OpenRows' \in SUBSET Wuids BY DEF OpenRows
  <1>3. \A v \in Wuids \ {w} : v \in OpenRows <=> v \in OpenRows' BY DEF OpenRows
  <1>4. /\ w \in OpenRows <=> wus[w].status \in Open
        /\ w \in OpenRows' <=> wus'[w].status \in Open
    BY DEF OpenRows
  <1>5. Cardinality(OpenRows) \in Nat /\ Cardinality(OpenRows') \in Nat
    BY <1>2, FiniteTable
  <1> DEFINE S == OpenRows
             T == OpenRows'
  <1> HIDE DEF S, T
  <1>6. /\ S \in SUBSET Wuids /\ T \in SUBSET Wuids
        /\ \A v \in Wuids \ {w} : v \in S <=> v \in T
    BY <1>2, <1>3 DEF S, T
  <1>7. /\ w \in S /\ w \in T => Cardinality(T) = Cardinality(S)
        /\ w \notin S /\ w \in T => Cardinality(T) = Cardinality(S) + 1
        /\ w \in S /\ w \notin T => Cardinality(T) = Cardinality(S) - 1
    BY <1>6, OpenCount
  <1>8. QED BY <1>1, <1>4, <1>5, <1>7 DEF S, T

(* The count of the open rows moves as the work-unit in hand does.         *)
LEMMA RowCounted ==
    ASSUME TypeOK, OutstandingInv, pc # "done", UNCHANGED state,
           Cardinality(OpenRows) \in Nat, Cardinality(OpenRows') \in Nat,
           Cardinality(OpenRows') + InHand' = Cardinality(OpenRows) + InHand
    PROVE  OutstandingInv'
  <1>1. get_number_outstanding_wus = Cardinality(OpenRows) + InHand BY OutstandingOpen
  <1>2. get_number_outstanding_wus' = get_number_outstanding_wus BY Counting
  <1>3. get_number_outstanding_wus' = Cardinality(OpenRows') + InHand' BY <1>1, <1>2
  <1>4. QED BY <1>3 DEF OutstandingInv, OpenRows

(* submit_wu() for a new range: the range has no row yet.                  *)
LEMMA CountedCreate ==
    ASSUME IInv, IInv', RInv, Create
    PROVE  RInv'
  <1>1. /\ TypeOK /\ TypeOK' /\ RangesInv /\ SkippedInv /\ AnswersInv /\ HandInv
        /\ SuccessorsInv /\ OutstandingInv
    BY DEF IInv, RInv
  <1>2. pc = "create" /\ UNCHANGED <<state, caller, job, todo, sievevars>>
    BY DEF Create, CreateNew
  <1>3. todo = {} BY <1>2, NoTodo DEF Replacing, Stopped
  <1>4. qnext \in Nat /\ qmax \in Nat /\ qnext < qmax
    BY <1>1, <1>2, SievingAssumption DEF RangesInv, InSubmit, TypeOK
  <1>5. qnext \in Ranges /\ 1 \in Attempts
    BY <1>4, SievingAssumption, TaskAssumption DEF Attempts
  <1>6. <<qnext, 1>> \in Wuids /\ <<qnext, 1>> \notin Rows
    BY <1>1, <1>2, <1>4, <1>5, WuidPairs DEF RangesInv
  <1>7. CanCreate(<<qnext, 1>>) BY <1>6 DEF CanCreate, Rows
  <1>8. create(<<qnext, 1>>) /\ pc' = "advance" BY <1>7 DEF Create, CreateNew
  <1>9. PICK w \in Wuids : w = <<qnext, 1>> BY <1>6
  <1>10. w[1] = qnext /\ w[2] = 1 BY <1>9
  <1>11. /\ \A v \in Wuids \ {w} : wus'[v] = wus[v]
         /\ wus'[w] = NewRow /\ wus[w].status = "ABSENT"
    BY <1>1, <1>8, <1>9 DEF create, CanCreate, TypeOK, WuTypeOK
  <1>12. /\ NewRow.status = "AVAILABLE" /\ NewRow.errorcode = NONE
    BY DEF NewRow, BlankRow
  <1>13. Rows' = Rows \cup {w} BY <1>11, <1>12, OneRow
  <1>14. RangesInv'
    BY <1>1, <1>2, <1>4, <1>8, <1>9, <1>10, <1>13 DEF RangesInv
  <1>15. SkippedInv'
    <2>1. \A q \in Ranges : q < qnext => (<<q, 1>> \in Rows' <=> <<q, 1>> \in Rows)
      BY <1>4, <1>9, <1>13, SievingAssumption
    <2>2. Skipped' = Skipped BY <1>2, <2>1 DEF Skipped
    <2>3. Cardinality(Skipped) <= requests BY <1>1, <1>2 DEF SkippedInv, InSubmit
    <2>4. Skipped \in SUBSET Ranges BY DEF Skipped
    <2>5. Cardinality(Skipped) \in Nat /\ requests \in Nat BY <1>1, <2>4, FiniteRanges DEF TypeOK
    <2>6. Cardinality(Skipped) <= requests + 1 BY <2>3, <2>5
    <2>7. QED BY <1>2, <2>2, <2>3, <2>6 DEF SkippedInv
  <1>16. AnswersInv' BY <1>1, <1>2, <1>8, <1>11, <1>12 DEF AnswersInv, Received
  <1>17. HandInv' BY <1>2, <1>3, <1>8 DEF HandInv, Handling, Replacing
  <1>18. SuccessorsInv'
    <2>1. ASSUME NEW q \in Ranges, NEW a \in Attempts,
                 wus'[<<q, a>>].status \in {"CANCELLED", "VERIFIED_OK", "VERIFIED_ERROR"}
          PROVE  wus'[<<q, a>>] = wus[<<q, a>>]
      BY <1>11, <1>12, <2>1, WuidPairs
    <2>2. \A q, a : Succeeded(q, a) => Succeeded(q, a)'
      BY <1>2, <1>13 DEF Succeeded, Replacing
    <2>3. pc \notin Stopped \cup {"done"} BY <1>2 DEF Stopped
    <2>4. QED BY <1>1, <2>1, <2>2, <2>3 DEF SuccessorsInv, get_exitcode
  <1>19. OutstandingInv'
    <2>1. InHand = 1 /\ InHand' = 0 BY <1>2, <1>8 DEF InHand
    <2>2. /\ Cardinality(OpenRows') = Cardinality(OpenRows) + 1
          /\ Cardinality(OpenRows) \in Nat /\ Cardinality(OpenRows') \in Nat
      BY <1>11, <1>12, OneRow DEF Open
    <2>3. QED BY <1>1, <1>2, <2>1, <2>2, RowCounted
  <1>20. QED BY <1>14, <1>15, <1>16, <1>17, <1>18, <1>19 DEF RInv

(* submit_wu() for the next attempt: its name is free.                     *)
LEMMA CountedRecreate ==
    ASSUME IInv, IInv', RInv, Recreate, UNCHANGED sievevars
    PROVE  RInv'
  <1>1. /\ TypeOK /\ TypeOK' /\ JobInv /\ RangesInv /\ SkippedInv /\ AnswersInv /\ HandInv
        /\ SuccessorsInv /\ OutstandingInv
    BY DEF IInv, RInv
  <1>2. pc = "recreate" /\ UNCHANGED <<state, caller, job, todo, sievevars>> BY DEF Recreate
  <1>3. job \in Jobs /\ job.wu \in Wuids /\ wus[job.wu].status \in Dead
    BY <1>1, <1>2 DEF JobInv, Jobs, Replacing
  <1>4. NextAttempt \in Wuids /\ NextAttempt \notin Rows BY <1>1, <1>2 DEF HandInv, Replacing
  <1>5. CanCreate(NextAttempt) BY <1>4 DEF CanCreate, Rows
  <1>6. create(NextAttempt) /\ Resubmitted BY <1>5 DEF Recreate
  <1>7. PICK w \in Wuids : w = NextAttempt BY <1>4
  <1>8. w[1] = job.wu[1] /\ w[2] = job.wu[2] + 1 BY <1>7 DEF NextAttempt
  <1>9. /\ \A v \in Wuids \ {w} : wus'[v] = wus[v]
        /\ wus'[w] = NewRow /\ wus[w].status = "ABSENT"
    BY <1>1, <1>6, <1>7 DEF create, CanCreate, TypeOK, WuTypeOK
  <1>10. NewRow.status = "AVAILABLE" /\ NewRow.errorcode = NONE BY DEF NewRow, BlankRow
  <1>11. Rows' = Rows \cup {w} BY <1>9, <1>10, OneRow
  <1>12. /\ \/ pc' = "next" \/ (pc' = caller /\ caller # "once")
            \/ pc' = "count" /\ caller = "once"
         /\ pc' \in {"next", "submit", "drain", "count"}
    <2>1. CASE pc' = "next" BY <2>1
    <2>2. CASE Answered(TRUE) BY <1>1, <2>2 DEF Answered, TypeOK
    <2>3. QED BY <1>6, <2>1, <2>2 DEF Resubmitted
  <1>13. RangesInv' /\ SkippedInv'
    <2>1. pc \in Waiting BY <1>2 DEF Waiting, Replacing
    <2>2. pc' \in Waiting \/ (pc' = caller /\ caller # "once") \/ (pc' = "count" /\ caller = "once")
      BY <1>12 DEF Waiting
    <2>3. InSubmit' => InSubmit BY <1>1, <1>2, <2>1, <2>2, KeepSubmit
    <2>4. job.wu \in Rows BY <1>3 DEF Rows, Dead
    <2>5. \A x \in Rows' : \E v \in Rows : v[1] = x[1] BY <1>8, <1>11, <2>4
    <2>6. w[2] # 1 BY <1>3, <1>8, WuidPairs DEF Attempts
    <2>7. \A q \in Ranges : <<q, 1>> \in Rows' <=> <<q, 1>> \in Rows BY <1>11, <2>6
    <2>8. rels_found' >= rels_found BY <1>1, <1>2 DEF TypeOK
    <2>9. pc # "advance" /\ pc' # "advance" BY <1>2, <1>12
    <2>10. QED BY <1>1, <1>2, <2>3, <2>5, <2>7, <2>8, <2>9, KeepRanges
  <1>14. AnswersInv' BY <1>1, <1>2, <1>9, <1>10, <1>12 DEF AnswersInv, Received
  <1>15. HandInv'
    <2>1. \A v \in todo : v \in Wuids /\ wus[v].status \in Open
      BY <1>1 DEF HandInv, TypeOK
    <2>2. \A v \in todo : wus'[v].status \in Open BY <1>9, <1>10, <2>1 DEF Open
    <2>3. QED BY <1>2, <1>12, <2>2 DEF HandInv, Handling, Replacing
  <1>16. SuccessorsInv'
    <2>1. ASSUME NEW q \in Ranges, NEW a \in Attempts,
                 wus'[<<q, a>>].status \in {"CANCELLED", "VERIFIED_OK", "VERIFIED_ERROR"}
          PROVE  wus'[<<q, a>>] = wus[<<q, a>>]
      BY <1>9, <1>10, <2>1, WuidPairs
    <2>2. ASSUME NEW q \in Ranges, NEW a \in Attempts, Succeeded(q, a)
          PROVE  Succeeded(q, a)'
      <3>1. CASE <<q, a + 1>> \in Rows BY <1>11, <3>1 DEF Succeeded
      <3>2. CASE job.wu = <<q, a>>
        <4>1. w = <<q, a + 1>> BY <1>7, <3>2 DEF NextAttempt
        <4>2. QED BY <1>11, <4>1 DEF Succeeded
      <3>3. QED BY <2>2, <3>1, <3>2 DEF Succeeded
    <2>3. pc \notin Stopped \cup {"done"} BY <1>2 DEF Stopped
    <2>4. QED BY <1>1, <2>1, <2>2, <2>3 DEF SuccessorsInv, get_exitcode
  <1>17. OutstandingInv'
    <2>1. InHand = 1 /\ InHand' = 0 BY <1>2, <1>12 DEF InHand
    <2>2. /\ Cardinality(OpenRows') = Cardinality(OpenRows) + 1
          /\ Cardinality(OpenRows) \in Nat /\ Cardinality(OpenRows') \in Nat
      BY <1>9, <1>10, OneRow DEF Open
    <2>3. QED BY <1>1, <1>2, <2>1, <2>2, RowCounted
  <1>18. QED BY <1>13, <1>14, <1>15, <1>16, <1>17 DEF RInv

(* The attempt in hand is settled: a result is verified, or a timed-out    *)
(* work-unit is cancelled.  It has no successor, and gets one if it was    *)
(* an error.                                                               *)
LEMMA CountedSettled ==
    ASSUME IInv, IInv', RInv, VerifyRow \/ CancelRow, UNCHANGED sievevars
    PROVE  RInv'
  <1>1. /\ TypeOK /\ TypeOK' /\ JobInv /\ RangesInv /\ SkippedInv /\ AnswersInv /\ HandInv
        /\ SuccessorsInv /\ OutstandingInv
    BY DEF IInv, RInv
  <1>2. pc \in {"verify_row", "cancel"} /\ UNCHANGED <<state, caller, job, todo, sievevars>>
    BY DEF VerifyRow, CancelRow
  <1>3. job \in Jobs /\ job.wu \in Wuids BY <1>1, <1>2 DEF JobInv, Jobs, Handling
  <1>4. wus[job.wu].status \in Open /\ (pc = "verify_row" => wus[job.wu].status \in Received)
    BY <1>1, <1>2 DEF JobInv, HandInv, Handling, Received, Open
  <1>5. PICK w \in Wuids : w = job.wu BY <1>3
  <1>6. /\ \A v \in Wuids \ {w} : wus'[v] = wus[v]
        /\ wus'[w].files = wus[w].files /\ wus'[w].errorcode = wus[w].errorcode
        /\ wus'[w].failedcommand = wus[w].failedcommand
        /\ \/ /\ pc = "verify_row"
              /\ wus'[w].status = IF job.ok THEN "VERIFIED_OK" ELSE "VERIFIED_ERROR"
              /\ \/ job.error /\ pc' = "resubmit" /\ wus'[w].status = "VERIFIED_ERROR"
                 \/ ~job.error /\ Answered(TRUE)
           \/ /\ pc = "cancel" /\ pc' = "resubmit" /\ ~job.error
              /\ wus'[w].status = "CANCELLED"
    <2>1. wus \in [Wuids -> Row] BY <1>1 DEF TypeOK, WuTypeOK
    <2>2. CASE VerifyRow
      <3>1. pc = "verify_row" /\ (job.error => ~job.ok)
        BY <1>1, <2>2 DEF VerifyRow, JobInv, Handling
      <3>2. /\ verification(w, job.ok)
            /\ IF job.error THEN pc' = "resubmit" ELSE Answered(TRUE)
        BY <1>4, <1>5, <2>2, <3>1 DEF VerifyRow
      <3>3. wus' = [wus EXCEPT ![w] = StatusRow(wus[w], IF job.ok THEN "VERIFIED_OK"
                                                                  ELSE "VERIFIED_ERROR")]
        BY <3>2 DEF verification
      <3>4. \A v \in Wuids \ {w} : wus'[v] = wus[v] BY <2>1, <3>3
      <3>5. wus'[w] = StatusRow(wus[w], IF job.ok THEN "VERIFIED_OK" ELSE "VERIFIED_ERROR")
        BY <2>1, <3>3
      <3>6. /\ wus'[w].files = wus[w].files /\ wus'[w].errorcode = wus[w].errorcode
            /\ wus'[w].failedcommand = wus[w].failedcommand
            /\ wus'[w].status = IF job.ok THEN "VERIFIED_OK" ELSE "VERIFIED_ERROR"
        BY <3>5 DEF StatusRow
      <3>7. QED BY <3>1, <3>2, <3>4, <3>6
    <2>3. CASE CancelRow
      <3>1. pc = "cancel" /\ pc' = "resubmit" /\ ~job.error /\ set_status("CANCELLED", {w})
        BY <1>1, <1>5, <2>3 DEF CancelRow, JobInv, cancel
      <3>2. \A v \in Wuids \ {w} : wus'[v] = wus[v] BY <3>1 DEF set_status
      <3>3. wus'[w] = StatusRow(wus[w], "CANCELLED")
        BY <1>4, <1>5, <3>1 DEF set_status, Open
      <3>4. QED BY <3>1, <3>2, <3>3 DEF StatusRow
    <2>4. QED BY <2>2, <2>3
  <1>7. wus'[w].status \in {"VERIFIED_OK", "VERIFIED_ERROR", "CANCELLED"} BY <1>6
  <1>8. Rows' = Rows
    <2>1. Rows' = Rows \cup {w} BY <1>6, <1>7, OneRow
    <2>2. w \in Rows BY <1>4, <1>5 DEF Rows, Open
    <2>3. QED BY <2>1, <2>2
  <1>9. pc' \in {"resubmit", "submit", "drain", "count"}
    <2>1. CASE pc' = "resubmit" BY <2>1
    <2>2. CASE Answered(TRUE) BY <1>1, <2>2 DEF Answered, TypeOK
    <2>3. QED BY <1>6, <2>1, <2>2
  <1>10. pc' = "resubmit" \/ (pc' = caller /\ caller # "once") \/ (pc' = "count" /\ caller = "once")
    <2>1. CASE pc' = "resubmit" BY <2>1
    <2>2. CASE Answered(TRUE) BY <2>2 DEF Answered
    <2>3. QED BY <1>6, <2>1, <2>2
  <1>11. RangesInv' /\ SkippedInv'
    <2>1. pc \in Waiting BY <1>2 DEF Waiting, Handling
    <2>2. pc' \in Waiting \/ (pc' = caller /\ caller # "once") \/ (pc' = "count" /\ caller = "once")
      BY <1>10 DEF Waiting, Replacing
    <2>3. InSubmit' => InSubmit BY <1>1, <1>2, <2>1, <2>2, KeepSubmit
    <2>4. rels_found' >= rels_found BY <1>1, <1>2 DEF TypeOK
    <2>5. pc # "advance" /\ pc' # "advance" BY <1>2, <1>9
    <2>6. QED BY <1>1, <1>2, <1>8, <2>3, <2>4, <2>5, KeepRanges
  <1>12. AnswersInv'
    BY <1>1, <1>2, <1>6, <1>7, <1>9 DEF AnswersInv, Received
  <1>13. HandInv'
    <2>1. w \notin todo
      <3>1. CASE pc = "cancel" BY <1>1, <1>5, <3>1 DEF HandInv
      <3>2. CASE pc = "verify_row" BY <3>2, NoTodo DEF Replacing, Stopped
      <3>3. QED BY <1>2, <3>1, <3>2
    <2>2. \A v \in todo : v \in Wuids /\ wus[v].status \in Open BY <1>1 DEF HandInv, TypeOK
    <2>3. \A v \in todo : wus'[v].status \in Open BY <1>6, <2>1, <2>2
    <2>4. NextAttempt \notin Rows
      <3>1. wus[w].status \notin Dead BY <1>4, <1>5 DEF Open, Dead
      <3>2. <<w[1], w[2] + 1>> \notin Rows BY <3>1, LastAttempt
      <3>3. QED BY <1>5, <3>2 DEF NextAttempt
    <2>5. pc' = "resubmit" =>
            wus'[w].status = IF job.error THEN "VERIFIED_ERROR" ELSE "CANCELLED"
      BY <1>1, <1>6 DEF Answered, TypeOK
    <2>6. NextAttempt' = NextAttempt BY <1>2 DEF NextAttempt
    <2>7. QED BY <1>2, <1>5, <1>8, <1>9, <2>1, <2>3, <2>4, <2>5, <2>6
              DEF HandInv, Handling, Replacing
  <1>14. SuccessorsInv'
    <2>1. pc \notin Replacing \cup Stopped \cup {"done"} BY <1>2 DEF Replacing, Stopped
    <2>2. pc = "verify_row" => (get_exitcode(w, 0) # 0 => job.error)
      BY <1>1, <1>5 DEF HandInv, Handling
    <2>3. w \in Wuids /\ (wus'[w].status = "CANCELLED" \/ get_exitcode(w, 0) # 0 => pc' = "resubmit")
      BY <1>6, <2>2
    <2>4. ASSUME NEW q \in Ranges, NEW a \in Attempts, <<q, a>> # w
          PROVE  wus'[<<q, a>>] = wus[<<q, a>>]
      BY <1>6, <2>4, WuidPairs
    <2>5. \A q, a : Succeeded(q, a) => Succeeded(q, a)' BY <1>8, <2>1 DEF Succeeded
    <2>6. ASSUME NEW q \in Ranges, NEW a \in Attempts, <<q, a>> = w, pc' = "resubmit"
          PROVE  Succeeded(q, a)'
      BY <1>2, <1>5, <2>6 DEF Succeeded, Replacing
    <2>7. ASSUME NEW q \in Ranges, NEW a \in Attempts,
                 wus'[<<q, a>>].status = "CANCELLED" /\ a < maxresubmit
          PROVE  Succeeded(q, a)'
      <3>1. CASE <<q, a>> = w BY <2>3, <2>6, <2>7, <3>1
      <3>2. CASE <<q, a>> # w BY <1>1, <2>1, <2>4, <2>5, <2>7, <3>2 DEF SuccessorsInv
      <3>3. QED BY <3>1, <3>2
    <2>8. ASSUME NEW q \in Ranges, NEW a \in Attempts,
                 /\ wus'[<<q, a>>].status = "VERIFIED_ERROR"
                 /\ (get_exitcode(<<q, a>>, 0) # 0)' /\ a < maxwuerror
          PROVE  Succeeded(q, a)'
      <3>1. CASE <<q, a>> = w
        <4>1. get_exitcode(w, 0)' = get_exitcode(w, 0) BY <1>6 DEF get_exitcode
        <4>2. QED BY <2>3, <2>6, <2>8, <3>1, <4>1
      <3>2. CASE <<q, a>> # w
        <4>1. get_exitcode(<<q, a>>, 0)' = get_exitcode(<<q, a>>, 0)
          BY <2>4, <3>2 DEF get_exitcode
        <4>2. QED BY <1>1, <2>1, <2>4, <2>5, <2>8, <3>2, <4>1 DEF SuccessorsInv
      <3>3. QED BY <3>1, <3>2
    <2>9. QED BY <2>7, <2>8 DEF SuccessorsInv
  <1>15. OutstandingInv'
    <2>1. InHand = -1 /\ InHand' = 0 BY <1>2, <1>9 DEF InHand
    <2>2. /\ Cardinality(OpenRows') = Cardinality(OpenRows) - 1
          /\ Cardinality(OpenRows) \in Nat /\ Cardinality(OpenRows') \in Nat
      BY <1>4, <1>5, <1>6, <1>7, OneRow DEF Open
    <2>3. pc # "done" BY <1>2
    <2>4. Cardinality(OpenRows') + InHand' = Cardinality(OpenRows) + InHand BY <2>1, <2>2
    <2>5. QED BY <1>1, <1>2, <2>2, <2>3, <2>4, RowCounted
  <1>16. QED BY <1>11, <1>12, <1>13, <1>14, <1>15 DEF RInv

(* Filtering has enough relations: what nobody took is cancelled.          *)
LEMMA CountedEnough ==
    ASSUME IInv, IInv', RInv, HaveEnoughRelations
    PROVE  RInv'
  <1>1. /\ TypeOK /\ TypeOK' /\ RangesInv /\ SkippedInv /\ AnswersInv /\ HandInv
        /\ SuccessorsInv
    BY DEF IInv, RInv
  <1>2. /\ pc = "exit" /\ pc' = "done" /\ UNCHANGED <<state, caller, job, todo, sievevars>>
        /\ set_status("CANCELLED", WithStatus("AVAILABLE"))
    BY DEF HaveEnoughRelations, cancel_all_available
  <1>3. todo = {} BY <1>2, NoTodo DEF Replacing, Stopped
  <1>4. \A w \in Wuids :
           \/ wus'[w] = wus[w] /\ wus[w].status # "AVAILABLE"
           \/ /\ wus[w].status = "AVAILABLE" /\ wus'[w].status = "CANCELLED"
              /\ wus'[w].errorcode = wus[w].errorcode
              /\ wus'[w].failedcommand = wus[w].failedcommand
    BY <1>2 DEF set_status, StatusRow, WithStatus
  <1>5. Rows' = Rows BY <1>4 DEF Rows
  <1>6. RangesInv' /\ SkippedInv'
    <2>1. ~InSubmit' BY <1>2 DEF InSubmit, Waiting, Handling, Replacing
    <2>2. rels_found' >= rels_found BY <1>1, <1>2 DEF TypeOK
    <2>3. QED BY <1>1, <1>2, <1>5, <2>1, <2>2, KeepRanges
  <1>7. AnswersInv' BY <1>1, <1>2, <1>4 DEF AnswersInv, Received
  <1>8. HandInv' BY <1>2, <1>3 DEF HandInv, Handling, Replacing
  <1>9. SuccessorsInv'
    <2>1. \A q \in Ranges : \A a \in Attempts :
             wus'[<<q, a>>].status \in {"VERIFIED_OK", "VERIFIED_ERROR"} =>
                 wus'[<<q, a>>] = wus[<<q, a>>]
      BY <1>4, WuidPairs
    <2>2. \A q, a : Succeeded(q, a) => Succeeded(q, a)'
      BY <1>2, <1>5 DEF Succeeded, Replacing
    <2>3. QED BY <1>1, <1>2, <2>1, <2>2 DEF SuccessorsInv, Stopped, get_exitcode
  <1>10. OutstandingInv' BY <1>2 DEF OutstandingInv
  <1>11. QED BY <1>6, <1>7, <1>8, <1>9, <1>10 DEF RInv

-----------------------------------------------------------------------------
(* Clients and the operator keep open what is open; a result comes with a  *)
(* file as long as the driver is undisturbed.                              *)
OpenTable ==
    \A w \in Wuids :
        \/ wus'[w] = wus[w]
        \/ /\ wus[w].status \in {"AVAILABLE", "ASSIGNED"} /\ wus'[w].status \in Open
           /\ wus'[w].status \in Received => wus'[w].files # {}

LEMMA CountedClients ==
    ASSUME IInv, IInv', RInv, UNCHANGED <<taskvars, sievevars>>, OpenTable
    PROVE  RInv'
  <1>1. /\ TypeOK /\ TypeOK' /\ JobInv /\ RangesInv /\ SkippedInv /\ AnswersInv /\ HandInv
        /\ SuccessorsInv /\ OutstandingInv
    BY DEF IInv, RInv
  <1>2. \A w \in Wuids : /\ wus[w].status \notin {"AVAILABLE", "ASSIGNED"} => wus'[w] = wus[w]
                         /\ wus'[w].status \notin Open => wus'[w] = wus[w]
                         /\ wus[w].status \in Open <=> wus'[w].status \in Open
    BY DEF OpenTable, Open
  <1>3. Rows' = Rows BY <1>2 DEF Rows, Open
  <1>4. OpenRows' = OpenRows BY <1>2 DEF OpenRows
  <1>5. RangesInv' /\ SkippedInv'
    BY <1>1, <1>3 DEF RangesInv, SkippedInv, Skipped, InSubmit, enough_work_received
  <1>6. AnswersInv' BY <1>1 DEF AnswersInv, OpenTable, Received
  <1>7. HandInv'
    <2>1. \A w \in todo : w \in Wuids BY <1>1 DEF TypeOK
    <2>2. pc \in Handling \cup Replacing \cup {"cancel"} => job.wu \in Wuids
      BY <1>1 DEF JobInv, Jobs
    <2>3. pc \in Handling \cup Replacing => wus'[job.wu] = wus[job.wu]
      BY <1>1, <1>2, <2>2 DEF JobInv, Received, Dead
    <2>4. NextAttempt' = NextAttempt BY DEF NextAttempt
    <2>5. QED BY <1>1, <1>2, <1>3, <2>1, <2>2, <2>3, <2>4 DEF HandInv, Handling, Replacing, get_exitcode
  <1>8. SuccessorsInv'
    <2>1. \A q \in Ranges : \A a \in Attempts :
             wus'[<<q, a>>].status \in {"CANCELLED", "VERIFIED_OK", "VERIFIED_ERROR"} =>
                 wus'[<<q, a>>] = wus[<<q, a>>]
      BY <1>2, WuidPairs DEF Open
    <2>2. \A q, a : Succeeded(q, a) => Succeeded(q, a)' BY <1>3 DEF Succeeded
    <2>3. QED BY <1>1, <2>1, <2>2 DEF SuccessorsInv, get_exitcode
  <1>9. OutstandingInv'
    BY <1>1, <1>4 DEF OutstandingInv, OpenRows, InHand, get_number_outstanding_wus
  <1>10. QED BY <1>5, <1>6, <1>7, <1>8, <1>9 DEF RInv

LEMMA OpenClients ==
    ASSUME Undisturbed', IInv, RInv,
           ClientFetch \/ OperatorExpire \/ \E w \in Wuids : ClientUpload(w)
    PROVE  UNCHANGED <<taskvars, sievevars>> /\ OpenTable
  <1>1. wus \in [Wuids -> Row] BY DEF IInv, TypeOK, WuTypeOK
  <1>3. CASE ClientFetch
    <2>1. PICK c \in Clients, w \in Wuids :
             wus[w].status = "AVAILABLE" /\ wus' = [wus EXCEPT ![w] = AssignedRow(wus[w], c)]
      BY <1>3 DEF ClientFetch, Fetch, assign, WithStatus
    <2>2. \A v \in Wuids \ {w} : wus'[v] = wus[v] BY <1>1, <2>1
    <2>3. wus'[w] = AssignedRow(wus[w], c) BY <1>1, <2>1
    <2>4. wus'[w].status = "ASSIGNED" BY <2>3 DEF AssignedRow
    <2>5. OpenTable BY <2>1, <2>2, <2>4 DEF OpenTable, Open, Received
    <2>6. QED BY <1>3, <2>5 DEF ClientFetch, Fetch
  <1>4. CASE OperatorExpire
    <2>1. PICK w \in Wuids : /\ wus[w].status \in {"AVAILABLE", "ASSIGNED"}
                             /\ set_status("NEED_RESUBMIT", {w})
      BY <1>4 DEF OperatorExpire, Expire, expire
    <2>2. \A v \in Wuids \ {w} : wus'[v] = wus[v] BY <2>1 DEF set_status
    <2>3. wus'[w] = StatusRow(wus[w], "NEED_RESUBMIT") BY <2>1 DEF set_status
    <2>4. wus'[w].status = "NEED_RESUBMIT" BY <2>3 DEF StatusRow
    <2>5. OpenTable BY <2>1, <2>2, <2>4 DEF OpenTable, Open, Received
    <2>6. QED BY <1>4, <2>5 DEF OperatorExpire, Expire
  <1>5. CASE \E w \in Wuids : ClientUpload(w)
    <2>1. PICK w \in Wuids : ClientUpload(w) BY <1>5
    <2> DEFINE F(a) == IF a.output = NONE THEN {} ELSE {<<w, a.output>>}
               r(a) == ResultRow(wus[w], wus[w].assignedclient, F(a), a.errorcode, a.failed)
    <2>2. PICK a \in Answers : /\ wus[w].status = "ASSIGNED" /\ wus[w].assignedclient # NONE
                               /\ wus' = [wus EXCEPT ![w] = r(a)]
      BY <2>1 DEF ClientUpload, Upload, result, CanResult
    <2>3. r(a).resultclient # NONE /\ r(a).status \in Received
      BY <2>2 DEF ResultRow, Received
    <2> HIDE DEF r
    <2>4. \A v \in Wuids \ {w} : wus'[v] = wus[v] BY <1>1, <2>2
    <2>5. wus'[w] = r(a) BY <1>1, <2>2
    <2>6. wus'[w].files # {} BY <2>3, <2>5 DEF Undisturbed
    <2>7. OpenTable BY <2>2, <2>3, <2>4, <2>5, <2>6 DEF OpenTable, Open, Received
    <2>8. QED BY <2>1, <2>7 DEF ClientUpload, Upload
  <1>6. QED BY <1>3, <1>4, <1>5

-----------------------------------------------------------------------------
(* Whatever the driver, its clients and the operator do to the table is a  *)
(* call of a method of WuAccess.                                           *)
LEMMA TableSteps == IInv /\ [Next]_vars => [WuNext]_wus
  <1> SUFFICES ASSUME IInv, Next, wus' # wus PROVE WuNext
    OBVIOUS
  <1>1. wus \in [Wuids -> Row] BY DEF IInv, TypeOK, WuTypeOK
  <1>2. ASSUME NEW w, create(w) PROVE WuNext
    <2>1. w \in Wuids BY <1>1, <1>2 DEF create
    <2>2. QED BY <1>2, <2>1 DEF WuNext
  <1>3. CASE Create \/ (TaskStep /\ Recreate)
    BY <1>2, <1>3 DEF Create, CreateNew, Recreate
  <1>4. CASE TaskStep /\ (VerifyRow \/ CancelRow \/ Unclaimed)
    <2>1. job.wu \in Wuids /\ job.ok \in BOOLEAN
      BY <1>4 DEF IInv, JobInv, Handling, Jobs, VerifyRow, CancelRow, Unclaimed
    <2>2. verification(job.wu, job.ok) \/ cancel(job.wu)
      BY <1>4 DEF VerifyRow, CancelRow, Unclaimed
    <2>3. QED BY <2>1, <2>2 DEF WuNext
  <1>5. CASE HaveEnoughRelations BY <1>5 DEF HaveEnoughRelations, WuNext
  <1>6. CASE ClientFetch BY <1>6 DEF ClientFetch, Fetch, WuNext
  <1>7. CASE OperatorExpire BY <1>7 DEF OperatorExpire, Expire, WuNext
  <1>8. CASE \E w \in Wuids : ClientUpload(w)
    <2>1. PICK w \in Wuids : ClientUpload(w) BY <1>8
    <2> DEFINE F(a) == IF a.output = NONE THEN {} ELSE {<<w, a.output>>}
    <2>2. PICK a \in Answers : /\ wus[w].assignedclient # NONE
                               /\ result(w, wus[w].assignedclient, F(a), a.errorcode, a.failed)
      BY <2>1 DEF ClientUpload, Upload
    <2>3. /\ a.output \in Outputs \cup {NONE} /\ a.errorcode \in ErrorCodes \cup {NONE}
          /\ a.failed \in Commands \cup {NONE} /\ (a.errorcode = NONE => a.failed = NONE)
      BY SievingAssumption
    <2>4. F(a) \in SUBSET Paths BY <2>3, SievingAssumption
    <2>5. wus[w].assignedclient \in Clients BY <1>1, <2>2 DEF Row
    <2> HIDE DEF F
    <2>6. QED BY <2>2, <2>3, <2>4, <2>5 DEF WuNext
  <1>9. UNCHANGED wus \/ Create \/ (TaskStep /\ Recreate) \/ HaveEnoughRelations \/ ClientFetch
        \/ OperatorExpire \/ (\E w \in Wuids : ClientUpload(w))
        \/ (TaskStep /\ (VerifyRow \/ CancelRow \/ Unclaimed))
    BY DEF Next, Driver, Loop, Submit, SubmitCommand, Count, CountNew, Advance, Drain,
           TakeResult, AddRels, AddFile, TaskStep, NoResult, ErrorResult, CountFailed,
           VerifyCount, VerifyRange, NoTimeoutCheck, CancelCount, AllHandled, Resubmit,
           CheckTimeouts, TimeoutCheck, GiveUp, RequestMoreRelations, CrashDriver, Crash,
           RestartDriver, Restart
  <1>10. QED BY <1>3, <1>4, <1>5, <1>6, <1>7, <1>8, <1>9

(* So what is proved of the table under any sequence of calls (that check  *)
(* holds, that results are final, that no work-unit is revived) holds of   *)
(* the table the driver works on.                                          *)
THEOREM TableOfWuAccess == Spec => WuSpec
  <1>1. Init => WuInit BY DEF Init
  <1>2. QED BY <1>1, TableSteps, Invariance, PTL DEF Spec, WuSpec

(* A row gets its result once: before, it has none, and it keeps the       *)
(* client and the files of the one it gets.                                *)
NoResultYet ==
    \A w \in Wuids : wus[w].status \in {"ABSENT", "AVAILABLE", "ASSIGNED"} =>
                        wus[w].resultclient = NONE

LEMMA ResultsStay ==
    ASSUME WuTypeOK, NoResultYet, [WuNext]_wus
    PROVE  /\ NoResultYet'
           /\ \A w \in Wuids : wus[w].resultclient # NONE =>
                  wus'[w].resultclient = wus[w].resultclient /\ wus'[w].files = wus[w].files
  <1> DEFINE Kept == /\ NoResultYet'
                     /\ \A w \in Wuids : wus[w].resultclient # NONE =>
                            /\ wus'[w].resultclient = wus[w].resultclient
                            /\ wus'[w].files = wus[w].files
  <1> USE DEF WuTypeOK, NoResultYet
  <1>1. ASSUME NEW w \in Wuids, create(w) PROVE Kept
    BY <1>1 DEF create, CanCreate, NewRow, BlankRow
  <1>2. ASSUME NEW c \in Clients, assign(c) PROVE Kept
    BY <1>2 DEF assign, AssignedRow, WithStatus
  <1>3. ASSUME NEW w \in Wuids, NEW c \in Clients, NEW F \in SUBSET Paths,
               NEW e \in ErrorCodes \cup {NONE}, NEW f \in Commands \cup {NONE},
               result(w, c, F, e, f)
        PROVE  Kept
    BY <1>3 DEF result, ResultRow, CanResult
  <1>4. ASSUME NEW w \in Wuids, NEW ok \in BOOLEAN, verification(w, ok) PROVE Kept
    BY <1>4 DEF verification, StatusRow, Received
  <1>5. ASSUME NEW s \in {"CANCELLED", "NEED_RESUBMIT"}, NEW S, set_status(s, S) PROVE Kept
    BY <1>5 DEF set_status, StatusRow
  <1>6. CASE UNCHANGED wus BY <1>6
  <1>7. QED
    BY <1>1, <1>2, <1>3, <1>4, <1>5, <1>6
    DEF WuNext, cancel, expire, cancel_all_available, cancel_all_assigned

LEMMA ResultsComeOnce == Spec => []NoResultYet
  <1>1. Init => NoResultYet BY DEF Init, WuInit, NoResultYet, NoRow, BlankRow
  <1>2. IInv /\ NoResultYet /\ [Next]_vars => NoResultYet'
    BY TableSteps, ResultsStay DEF IInv, TypeOK
  <1>3. QED BY <1>1, <1>2, Invariance, PTL DEF Spec

(* Only a restart follows a crash.                                         *)
LEMMA KeepsRunning ==
    ASSUME IInv, [Next]_vars, NeverKilled'
    PROVE  NeverKilled
  <1>1. restarts \in Nat BY DEF IInv, TypeOK
  <1>2. ASSUME pc = "down" PROVE restarts' # 0 \/ pc' = "down"
    <2>1. CASE RestartDriver BY <1>1, <2>1 DEF RestartDriver
    <2>2. CASE ClientFetch \/ OperatorExpire \/ (\E w \in Wuids : ClientUpload(w)) \/ UNCHANGED vars
      BY <1>2, <2>2 DEF ClientFetch, Fetch, OperatorExpire, Expire, ClientUpload, Upload
    <2>3. ~(Driver \/ GiveUp \/ RequestMoreRelations \/ HaveEnoughRelations \/ CrashDriver)
      <3>1. ~TaskStep
        BY <1>2 DEF TaskStep, NoResult, ErrorResult, CountFailed, VerifyCount, VerifyRange,
                    VerifyRow, Unclaimed, NoTimeoutCheck, CancelCount, AllHandled, CancelRow,
                    Resubmit, Recreate
      <3>2. ~(Loop \/ Submit \/ Count \/ Create \/ Advance \/ Drain \/ TakeResult \/ AddRels
              \/ AddFile)
        BY <1>2 DEF Loop, Submit, SubmitCommand, Count, CountNew, Create, CreateNew, Advance,
                    Drain, TakeResult, AddRels, AddFile
      <3>3. ~\E S \in SUBSET WithStatus("ASSIGNED") : CheckTimeouts(S)
        BY <1>2 DEF CheckTimeouts, TimeoutCheck
      <3>4. ~(GiveUp \/ RequestMoreRelations \/ HaveEnoughRelations \/ CrashDriver)
        BY <1>2 DEF GiveUp, RequestMoreRelations, HaveEnoughRelations, CrashDriver, Crash,
                    Stopped
      <3>5. QED BY <3>1, <3>2, <3>3, <3>4 DEF Driver
    <2>4. QED BY <2>1, <2>2, <2>3 DEF Next
  <1>3. restarts' >= restarts
    BY <1>1
    DEF Next, vars, sievevars, Driver, Loop, Submit, Count, Create, Advance, Drain, TakeResult,
        AddRels, AddFile, TaskStep, CheckTimeouts, GiveUp, RequestMoreRelations,
        HaveEnoughRelations, CrashDriver, RestartDriver, ClientFetch, ClientUpload,
        OperatorExpire
  <1>4. QED BY <1>1, <1>2, <1>3 DEF NeverKilled

(* A driver that is undisturbed was undisturbed before: restarts are       *)
(* counted, and a result keeps its client and its files.                   *)
LEMMA StillUndisturbed ==
    ASSUME IInv, NoResultYet, [Next]_vars, Undisturbed'
    PROVE  Undisturbed /\ ~CrashDriver /\ ~RestartDriver
  <1>1. /\ TypeOK /\ restarts \in Nat /\ wus \in [Wuids -> Row] BY DEF IInv, TypeOK, WuTypeOK
  <1>2. ~CrashDriver /\ ~RestartDriver
    BY <1>1 DEF Undisturbed, NeverKilled, CrashDriver, Crash, RestartDriver
  <1>3. NeverKilled BY <1>1, <1>2, KeepsRunning DEF Undisturbed
  <1>4. \A w \in Wuids : wus[w].resultclient # NONE =>
            wus'[w].resultclient = wus[w].resultclient /\ wus'[w].files = wus[w].files
    BY TableSteps, ResultsStay DEF IInv, TypeOK
  <1>5. QED BY <1>2, <1>3, <1>4 DEF Undisturbed

-----------------------------------------------------------------------------
LEMMA StepRInv ==
    ASSUME Undisturbed', IInv, IInv', NoResultYet, RInv, [Next]_vars
    PROVE  RInv'
  <1>1. CASE Loop \/ Submit \/ Count \/ Advance \/ Drain \/ GiveUp \/ RequestMoreRelations
    BY <1>1, CountedSteps, RangeSteps DEF RInv
  <1>2. CASE Create BY <1>2, CountedCreate
  <1>3. CASE TakeResult \/ AddRels \/ AddFile BY <1>3, CountedResult
  <1>4. CASE TaskStep
    <2>1. ~Unclaimed BY DEF RInv, AnswersInv, Unclaimed
    <2>2. UNCHANGED sievevars BY <1>4 DEF TaskStep
    <2>3. CASE NoResult \/ ErrorResult \/ CountFailed \/ VerifyCount \/ VerifyRange
      BY <2>2, <2>3, CountedResult
    <2>4. CASE VerifyRow \/ CancelRow BY <2>2, <2>4, CountedSettled
    <2>5. CASE NoTimeoutCheck \/ CancelCount \/ AllHandled \/ Resubmit
      BY <2>2, <2>5, CountedTimeouts
    <2>6. CASE Recreate BY <2>2, <2>6, CountedRecreate
    <2>7. QED BY <1>4, <2>1, <2>3, <2>4, <2>5, <2>6 DEF TaskStep
  <1>5. CASE \E S \in SUBSET WithStatus("ASSIGNED") : CheckTimeouts(S)
    BY <1>5, CountedTimeouts
  <1>6. CASE HaveEnoughRelations BY <1>6, CountedEnough
  <1>7. CASE CrashDriver \/ RestartDriver BY <1>7, StillUndisturbed
  <1>8. CASE ClientFetch \/ OperatorExpire \/ \E w \in Wuids : ClientUpload(w)
    BY <1>8, OpenClients, CountedClients
  <1>9. CASE UNCHANGED vars
    <2>1. OpenTable BY <1>9 DEF OpenTable
    <2>2. QED BY <1>9, <2>1, CountedClients
  <1>10. QED
    BY <1>1, <1>2, <1>3, <1>4, <1>5, <1>6, <1>7, <1>8, <1>9 DEF Next, Driver

(* The counting invariant holds as long as the driver is undisturbed.      *)
THEOREM CountingInvariance == Spec => [](Undisturbed => RInv)
  <1>1. Init => RInv BY InitRInv
  <1>2. IInv /\ IInv' /\ NoResultYet /\ (Undisturbed => RInv) /\ [Next]_vars
          => (Undisturbed => RInv)'
    BY StepRInv, StillUndisturbed
  <1>3. QED BY <1>1, <1>2, Invariance, ResultsComeOnce, PTL DEF Spec

(* get_number_outstanding_wus() is the number of work-units the driver     *)
(* still has to hear of, but for the one it is counting: the counters and  *)
(* the table, which are changed one after the other, never drift apart.    *)
THEOREM OutstandingIsExact == Spec => []OutstandingExact
  <1>1. (Undisturbed => RInv) => OutstandingExact
    BY DEF RInv, OutstandingInv, OutstandingExact
  <1>2. QED BY <1>1, CountingInvariance, PTL

(* The attempts at a range that has rows: the last one that was created.   *)
LEMMA LastOne ==
    ASSUME NEW q \in Ranges, <<q, 1>> \in Rows
    PROVE  \E a \in Attempts : <<q, a>> \in Rows /\ <<q, a + 1>> \notin Rows
  <1> DEFINE S == {b \in Nat : <<q, b + 1>> \notin Rows}
  <1>1. S # {}
    <2>1. maxresubmit \in Nat /\ maxwuerror \in Nat BY TaskAssumption
    <2>2. PICK m \in Nat : m = maxresubmit + maxwuerror + 1 BY <2>1
    <2>3. m + 1 \notin Attempts BY <2>1, <2>2 DEF Attempts
    <2>4. <<q, m + 1>> \notin Rows BY <2>3, WuidPairs DEF Rows
    <2>5. QED BY <2>4
  <1>2. PICK b \in S : \A c \in S : ~(<<c, b>> \in OpToRel(<, Nat))
    BY <1>1, WFMin, NatLessThanWellFounded
  <1>3. b \in Nat /\ <<q, b + 1>> \notin Rows /\ b # 0
    <2>1. b \in Nat /\ <<q, b + 1>> \notin Rows BY <1>2
    <2>2. ASSUME b = 0 PROVE FALSE
      <3>1. b + 1 = 1 BY <2>2
      <3>2. QED BY <2>1, <3>1
    <2>3. QED BY <2>1, <2>2
  <1>4. b - 1 \in Nat /\ b - 1 < b BY <1>3
  <1>5. b - 1 \notin S BY <1>2, <1>3, <1>4 DEF OpToRel
  <1>6. <<q, (b - 1) + 1>> \in Rows BY <1>4, <1>5
  <1>7. (b - 1) + 1 = b BY <1>3
  <1>8. <<q, b>> \in Rows BY <1>6, <1>7
  <1>9. b \in Attempts BY <1>8, WuidPairs DEF Rows
  <1>10. QED BY <1>3, <1>8, <1>9

(* Attempts are numbered without gaps.                                     *)
LEMMA NoAttemptAfter ==
    ASSUME IInv, NEW q \in Ranges, NEW a \in Attempts, <<q, a + 1>> \notin Rows,
           NEW b \in Attempts, b > a
    PROVE  <<q, b>> \notin Rows
  <1>1. a \in Nat /\ b \in Nat /\ maxresubmit \in Nat /\ maxwuerror \in Nat
    BY WuidPairs, TaskAssumption
  <1>2. a + 1 \in Attempts BY <1>1 DEF Attempts
  <1>3. <<q, a + 1>> \in Wuids BY <1>2, WuidPairs
  <1>4. CASE b = a + 1 BY <1>4
  <1>5. CASE a + 1 < b
    <2>1. wus[<<q, b>>].status # "ABSENT" => wus[<<q, a + 1>>].status \in Dead
      BY <1>2, <1>5 DEF IInv, PastDead
    <2>2. QED BY <1>3, <2>1 DEF Rows, Dead
  <1>6. QED BY <1>1, <1>4, <1>5

(* A range that was handed out is not lost: its last attempt is live or    *)
(* settled for good.  At most one range is skipped each time the goal is   *)
(* set.                                                                    *)
THEOREM RangesAreNotLost == Spec => []NoRangeLost
  <1>1. ASSUME IInv, Undisturbed => RInv PROVE NoRangeLost
    <2>1. SUFFICES ASSUME Undisturbed, RInv PROVE NoRangeLost
      BY <1>1 DEF NoRangeLost
    <2>2. Cardinality({p \in Ranges : p < qnext /\ <<p, 1>> \notin Rows}) <= 1 + requests
      <3>1. requests \in Nat BY <1>1 DEF IInv, TypeOK
      <3>2. Cardinality(Skipped) <= requests + 1 BY <2>1 DEF RInv, SkippedInv
      <3>3. Cardinality(Skipped) \in Nat BY FiniteRanges DEF Skipped
      <3>4. QED BY <3>1, <3>2, <3>3 DEF Skipped
    <2>3. ASSUME pc \notin Stopped \cup {"done"}, NEW q \in Ranges, <<q, 1>> \in Rows
          PROVE  \E a \in Attempts : /\ <<q, a>> \in Rows /\ NotLost(q, a)
                                     /\ \A b \in Attempts : b > a => <<q, b>> \notin Rows
      <3>1. PICK a \in Attempts : <<q, a>> \in Rows /\ <<q, a + 1>> \notin Rows
        BY <2>3, LastOne
      <3>2. <<q, a>> \in Wuids /\ a \in Nat /\ maxresubmit \in Nat /\ maxwuerror \in Nat
        BY WuidPairs, TaskAssumption
      <3>3. wus[<<q, a>>].status \in WuStatus
        BY <1>1, <3>1, <3>2 DEF IInv, TypeOK, WuTypeOK, Row, Rows
      <3>4. ASSUME wus[<<q, a>>].status \notin Dead PROVE NotLost(q, a)
        BY <3>3, <3>4 DEF WuStatus, Live, Dead, NotLost
      <3>5. ASSUME wus[<<q, a>>].status = "CANCELLED" PROVE NotLost(q, a)
        <4>1. a < maxresubmit \/ a >= maxresubmit BY <3>2
        <4>2. a < maxresubmit => pc \in Replacing /\ job.wu = <<q, a>>
          BY <2>1, <2>3, <3>1, <3>5 DEF RInv, SuccessorsInv, Succeeded
        <4>3. QED BY <3>5, <4>1, <4>2 DEF NotLost, Replacing
      <3>6. ASSUME wus[<<q, a>>].status = "VERIFIED_ERROR" PROVE NotLost(q, a)
        <4>1. a < maxwuerror \/ a >= maxwuerror BY <3>2
        <4>2. get_exitcode(<<q, a>>, 0) # 0 /\ a < maxwuerror =>
                  pc \in Replacing /\ job.wu = <<q, a>>
          BY <2>1, <2>3, <3>1, <3>6 DEF RInv, SuccessorsInv, Succeeded
        <4>3. QED BY <3>6, <4>1, <4>2 DEF NotLost, Replacing
      <3>7. NotLost(q, a) BY <3>4, <3>5, <3>6 DEF Dead
      <3>8. QED BY <1>1, <3>1, <3>7, NoAttemptAfter
    <2>4. QED BY <2>2, <2>3 DEF NoRangeLost
  <1>2. QED BY <1>1, Invariance, CountingInvariance, PTL

-----------------------------------------------------------------------------
(***************************************************************************)
(* rels_found is a sum over the files that were counted.  Relations is a   *)
(* fold, a function on the subsets of the files that is chosen for the     *)
(* equations it satisfies: one exists (by induction on the size of the     *)
(* subsets), and all agree whatever set of files they are defined on and   *)
(* in whatever order the files are taken.                                  *)
(***************************************************************************)
Pick(s) == CHOOSE x \in s : TRUE

Folded(g, F) ==
    g = [s \in SUBSET F |-> IF s = {} THEN 0 ELSE Pick(s)[2] + g[s \ {Pick(s)}]]

Weighted(F) == IsFiniteSet(F) /\ \A f \in F : f[2] \in Nat

LEMMA LeastNumber ==
    ASSUME NEW T \in SUBSET Nat, T # {}
    PROVE  \E k \in T : \A n \in T : k <= n
  <1>1. PICK k \in T : \A n \in T : ~(<<n, k>> \in OpToRel(<, Nat))
    BY WFMin, NatLessThanWellFounded
  <1>2. ASSUME NEW n \in T PROVE k <= n
    <2>1. k \in Nat /\ n \in Nat OBVIOUS
    <2>2. ~(n < k) BY <1>1, <2>1 DEF OpToRel
    <2>3. QED BY <2>1, <2>2
  <1>3. QED BY <1>1, <1>2

LEMMA SmallerSubset ==
    ASSUME NEW F, Weighted(F), NEW s \in SUBSET F
    PROVE  /\ Cardinality(s) \in Nat
           /\ \A x \in s : /\ s \ {x} \in SUBSET F /\ x[2] \in Nat
                           /\ Cardinality(s) >= 1
                           /\ Cardinality(s \ {x}) = Cardinality(s) - 1
           /\ s # {} => Pick(s) \in s
  <1>1. IsFiniteSet(s) /\ Cardinality(s) \in Nat
    BY FS_Subset, FS_CardinalityType DEF Weighted
  <1>2. ASSUME NEW x \in s
        PROVE  /\ s \ {x} \in SUBSET F /\ x[2] \in Nat
               /\ Cardinality(s) >= 1
               /\ Cardinality(s \ {x}) = Cardinality(s) - 1
    <2>1. IsFiniteSet(s \ {x}) /\ Cardinality(s \ {x}) = Cardinality(s) - 1
      BY <1>1, FS_RemoveElement
    <2>2. Cardinality(s \ {x}) \in Nat BY <2>1, FS_CardinalityType
    <2>3. x \in F BY <1>2
    <2>4. x[2] \in Nat BY <2>3 DEF Weighted
    <2>5. QED BY <1>1, <2>1, <2>2, <2>4
  <1>3. QED BY <1>1, <1>2 DEF Pick

(* There is a function that adds up the relations of a set of files.       *)
LEMMA FoldExists ==
    ASSUME NEW F, Weighted(F)
    PROVE  \E g \in [SUBSET F -> Nat] : Folded(g, F)
  <1> DEFINE Fs == [SUBSET F -> Nat]
             V(g, s) == IF s = {} THEN 0 ELSE Pick(s)[2] + g[s \ {Pick(s)}]
             Good(n) == \E g \in Fs : \A s \in SUBSET F : Cardinality(s) <= n => g[s] = V(g, s)
             T == {n \in Nat : ~Good(n)}
  <1>1. ASSUME NEW g \in Fs, NEW s \in SUBSET F PROVE V(g, s) \in Nat
    <2>1. CASE s = {} BY <2>1
    <2>2. CASE s # {}
      <3>1. PICK x : x = Pick(s) OBVIOUS
      <3>2. x \in s BY <2>2, <3>1, SmallerSubset
      <3>3. x[2] \in Nat /\ s \ {x} \in SUBSET F BY <3>2, SmallerSubset
      <3>4. g[s \ {x}] \in Nat BY <3>3
      <3>5. QED BY <2>2, <3>1, <3>3, <3>4
    <2>3. QED BY <2>1, <2>2
  <1>2. ASSUME NEW n \in Nat, Good(n) PROVE Good(n + 1)
    <2>1. PICK g \in Fs : \A s \in SUBSET F : Cardinality(s) <= n => g[s] = V(g, s)
      BY <1>2
    <2> DEFINE h == [s \in SUBSET F |-> V(g, s)]
    <2>2. h \in Fs BY <1>1
    <2>3. \A s \in SUBSET F : h[s] = V(g, s) OBVIOUS
    <2>4. ASSUME NEW s \in SUBSET F, Cardinality(s) <= n + 1 PROVE h[s] = V(h, s)
      <3>1. CASE s = {} BY <2>3, <3>1
      <3>2. CASE s # {}
        <4>1. PICK p : p = s \ {Pick(s)} OBVIOUS
        <4>2. /\ p \in SUBSET F /\ Cardinality(p) = Cardinality(s) - 1
              /\ Cardinality(s) \in Nat
          BY <3>2, <4>1, SmallerSubset
        <4>3. Cardinality(p) <= n BY <2>4, <4>2
        <4>4. g[p] = V(g, p) BY <2>1, <4>2, <4>3
        <4>5. h[p] = g[p] BY <2>3, <4>2, <4>4
        <4>6. h[s] = Pick(s)[2] + g[p] BY <2>3, <3>2, <4>1
        <4>7. V(h, s) = Pick(s)[2] + h[p] BY <3>2, <4>1
        <4>8. QED BY <4>5, <4>6, <4>7
      <3>3. QED BY <3>1, <3>2
    <2> HIDE DEF h, V
    <2>5. QED BY <2>2, <2>4
  <1>3. Good(0)
    <2> DEFINE z == [s \in SUBSET F |-> 0]
    <2>1. z \in Fs OBVIOUS
    <2>2. ASSUME NEW s \in SUBSET F, Cardinality(s) <= 0 PROVE z[s] = V(z, s)
      <3>1. s = {}
        <4>1. \A x \in s : FALSE
          <5>1. ASSUME NEW x \in s PROVE FALSE
            <6>1. Cardinality(s) >= 1 /\ Cardinality(s) \in Nat BY SmallerSubset
            <6>2. QED BY <2>2, <6>1
          <5>2. QED BY <5>1
        <4>2. QED BY <4>1
      <3>2. QED BY <3>1
    <2> HIDE DEF z, V
    <2>3. QED BY <2>1, <2>2
  <1>4. \A n \in Nat : Good(n)
    <2> HIDE DEF Good
    <2>1. ASSUME T # {} PROVE FALSE
      <3>1. T \in SUBSET Nat OBVIOUS
      <3>2. PICK k \in T : \A n \in T : k <= n
        <4> HIDE DEF T
        <4> QED BY <2>1, <3>1, LeastNumber
      <3>3. k \in Nat /\ ~Good(k) OBVIOUS
      <3>4. k # 0 BY <1>3, <3>3
      <3>5. k - 1 \in Nat /\ ~(k <= k - 1) /\ (k - 1) + 1 = k BY <3>3, <3>4
      <3>6. Good(k - 1) BY <3>2, <3>5
      <3>7. Good((k - 1) + 1) BY <1>2, <3>5, <3>6
      <3>8. QED BY <3>3, <3>5, <3>7
    <2>2. QED BY <2>1
  <1>5. Cardinality(F) \in Nat BY SmallerSubset
  <1>6. PICK g \in Fs : \A s \in SUBSET F : Cardinality(s) <= Cardinality(F) => g[s] = V(g, s)
    <2>1. Good(Cardinality(F)) BY <1>4, <1>5
    <2> HIDE DEF V
    <2>2. QED BY <2>1
  <1>7. ASSUME NEW s \in SUBSET F PROVE g[s] = V(g, s)
    <2>1. Cardinality(s) <= Cardinality(F) BY FS_Subset DEF Weighted
    <2> HIDE DEF V
    <2>2. QED BY <1>6, <2>1
  <1>8. g = [s \in SUBSET F |-> V(g, s)]
    <2> HIDE DEF V
    <2> QED BY <1>7
  <1>9. QED BY <1>8 DEF Folded

(* What a folded function satisfies.                                       *)
LEMMA FoldStep ==
    ASSUME NEW F, NEW g, Folded(g, F), NEW s \in SUBSET F
    PROVE  /\ s = {} => g[s] = 0
           /\ s # {} => g[s] = Pick(s)[2] + g[s \ {Pick(s)}]
  <1> DEFINE V(q, r) == IF r = {} THEN 0 ELSE Pick(r)[2] + q[r \ {Pick(r)}]
  <1>1. g = [r \in SUBSET F |-> V(g, r)] BY DEF Folded
  <1>2. g[s] = V(g, s)
    <2> HIDE DEF V
    <2> QED BY <1>1
  <1>3. QED BY <1>2

(* Two such functions agree where both are defined.                        *)
LEMMA FoldsAgree ==
    ASSUME NEW F, NEW G, NEW g, NEW h, Weighted(F), Folded(g, F), Folded(h, G),
           NEW S \in SUBSET F, S \in SUBSET G
    PROVE  g[S] = h[S]
  <1> DEFINE Bad(s) == s \in SUBSET F /\ s \in SUBSET G /\ g[s] # h[s]
             T == {n \in Nat : \E s : Bad(s) /\ Cardinality(s) = n}
  <1> HIDE DEF Bad
  <1>1. SUFFICES ASSUME Bad(S) PROVE FALSE BY DEF Bad
  <1>2. T # {} /\ T \in SUBSET Nat
    <2>1. Cardinality(S) \in Nat BY SmallerSubset
    <2>2. QED BY <1>1, <2>1
  <1>3. PICK k \in T : \A n \in T : k <= n
    <2> HIDE DEF T
    <2> QED BY <1>2, LeastNumber
  <1>4. PICK s : Bad(s) /\ Cardinality(s) = k BY <1>3
  <1>5. s \in SUBSET F /\ s \in SUBSET G /\ g[s] # h[s] /\ k \in Nat BY <1>2, <1>4 DEF Bad
  <1>6. s # {}
    <2>1. ASSUME s = {} PROVE g[s] = 0 /\ h[s] = 0
      BY <1>5, <2>1, FoldStep
    <2>2. QED BY <1>5, <2>1
  <1>7. PICK p : p = s \ {Pick(s)} OBVIOUS
  <1>8. /\ p \in SUBSET F /\ Cardinality(p) = k - 1 /\ k >= 1
    BY <1>4, <1>5, <1>6, <1>7, SmallerSubset
  <1>9. p \in SUBSET G BY <1>5, <1>7
  <1>10. k - 1 \in Nat /\ ~(k <= k - 1) BY <1>5, <1>8
  <1>11. g[p] = h[p]
    <2>1. k - 1 \notin T
      <3> HIDE DEF T
      <3> QED BY <1>3, <1>10
    <2>2. ~Bad(p) BY <1>8, <1>10, <2>1
    <2>3. QED BY <1>8, <1>9, <2>2 DEF Bad
  <1>12. g[s] = Pick(s)[2] + g[p] BY <1>5, <1>6, <1>7, FoldStep
  <1>13. h[s] = Pick(s)[2] + h[p] BY <1>5, <1>6, <1>7, FoldStep
  <1>14. QED BY <1>5, <1>11, <1>12, <1>13

(* The order in which the files are taken does not matter.                 *)
AnyOrder(g, F) == \A S \in SUBSET F : \A z \in S : g[S] = z[2] + g[S \ {z}]

LEMMA FoldAnyOrder ==
    ASSUME NEW F, Weighted(F), NEW g, g \in [SUBSET F -> Nat], Folded(g, F)
    PROVE  AnyOrder(g, F)
  <1> DEFINE Bad(s) == s \in SUBSET F /\ \E x \in s : g[s] # x[2] + g[s \ {x}]
             T == {n \in Nat : \E s : Bad(s) /\ Cardinality(s) = n}
  <1> HIDE DEF Bad
  <1>1. SUFFICES ASSUME NEW S \in SUBSET F, Bad(S) PROVE FALSE BY DEF Bad, AnyOrder
  <1>2. T # {} /\ T \in SUBSET Nat
    <2>1. Cardinality(S) \in Nat BY SmallerSubset
    <2>2. QED BY <1>1, <2>1
  <1>3. PICK k \in T : \A n \in T : k <= n
    <2> HIDE DEF T
    <2> QED BY <1>2, LeastNumber
  <1>4. PICK s : Bad(s) /\ Cardinality(s) = k BY <1>3
  <1>5. PICK x \in s : g[s] # x[2] + g[s \ {x}] BY <1>4 DEF Bad
  <1>6. s \in SUBSET F /\ k \in Nat BY <1>2, <1>4 DEF Bad
  <1>7. PICK y : y = Pick(s) OBVIOUS
  <1>8. y \in s BY <1>5, <1>6, <1>7, SmallerSubset
  <1>9. g[s] = y[2] + g[s \ {y}] BY <1>5, <1>6, <1>7, FoldStep
  <1>10. x # y BY <1>5, <1>9
  <1>11. PICK a, b, c : a = s \ {x} /\ b = s \ {y} /\ c = a \ {y} OBVIOUS
  <1>12. y \in a /\ x \in b /\ c = b \ {x} BY <1>5, <1>8, <1>10, <1>11
  <1>13. /\ a \in SUBSET F /\ b \in SUBSET F /\ c \in SUBSET F
         /\ Cardinality(a) = k - 1 /\ Cardinality(b) = k - 1 /\ k >= 1
         /\ x[2] \in Nat /\ y[2] \in Nat
    BY <1>4, <1>5, <1>6, <1>8, <1>11, SmallerSubset
  <1>14. k - 1 \in Nat /\ ~(k <= k - 1) BY <1>6, <1>13
  <1>15. ~Bad(a) /\ ~Bad(b)
    <2>1. k - 1 \notin T
      <3> HIDE DEF T
      <3> QED BY <1>3, <1>14
    <2>2. QED BY <1>13, <1>14, <2>1
  <1>16. g[a] = y[2] + g[c] BY <1>11, <1>12, <1>13, <1>15 DEF Bad
  <1>17. g[b] = x[2] + g[c] BY <1>12, <1>13, <1>15 DEF Bad
  <1>18. g[c] \in Nat BY <1>13
  <1>19. g[s] = y[2] + g[b] BY <1>9, <1>11
  <1>20. g[s] # x[2] + g[a] BY <1>5, <1>11
  <1>21. QED BY <1>13, <1>16, <1>17, <1>18, <1>19, <1>20

LEMMA RelationsFold ==
    ASSUME NEW F, Weighted(F)
    PROVE  \E g \in [SUBSET F -> Nat] : Folded(g, F) /\ Relations(F) = g[F]
  <1> DEFINE h == CHOOSE g : Folded(g, F)
  <1>1. Relations(F) = h[F]
    BY DEF Relations, MapThenSumSet, MapThenFoldSet, Folded, Pick
  <1>2. PICK g \in [SUBSET F -> Nat] : Folded(g, F) BY FoldExists
  <1>3. Folded(h, F) BY <1>2
  <1> HIDE DEF h
  <1>4. h[F] = g[F] BY <1>2, <1>3, FoldsAgree
  <1>5. QED BY <1>1, <1>2, <1>4

(* One file more adds its relations.                                       *)
LEMMA RelationsAdded ==
    ASSUME NEW F, Weighted(F), NEW f, f \notin F, f[2] \in Nat
    PROVE  /\ Weighted(F \cup {f}) /\ Relations(F) \in Nat
           /\ Relations(F \cup {f}) = Relations(F) + f[2]
  <1>1. PICK G : G = F \cup {f} OBVIOUS
  <1>2. Weighted(G)
    <2>1. IsFiniteSet(G) BY <1>1, FS_AddElement DEF Weighted
    <2>2. QED BY <1>1, <2>1 DEF Weighted
  <1>3. PICK g \in [SUBSET F -> Nat] : Folded(g, F) /\ Relations(F) = g[F] BY RelationsFold
  <1>4. PICK h \in [SUBSET G -> Nat] : Folded(h, G) /\ Relations(G) = h[G] BY <1>2, RelationsFold
  <1>5. F = G \ {f} /\ f \in G BY <1>1
  <1>6. h[G] = f[2] + h[F]
    <2>1. G \in SUBSET G OBVIOUS
    <2>2. AnyOrder(h, G) BY <1>2, <1>4, FoldAnyOrder
    <2>3. QED BY <1>5, <2>1, <2>2 DEF AnyOrder
  <1>7. F \in SUBSET G BY <1>5
  <1>8. g[F] = h[F] BY <1>3, <1>4, <1>7, FoldsAgree
  <1>9. g[F] \in Nat BY <1>3
  <1>10. QED BY <1>1, <1>2, <1>3, <1>4, <1>6, <1>8, <1>9

LEMMA RelationsOfNone == Relations({}) = 0 /\ Weighted({})
  <1>1. Weighted({}) BY FS_EmptySet DEF Weighted
  <1>2. PICK g \in [SUBSET {} -> Nat] : Folded(g, {}) /\ Relations({}) = g[{}]
    BY <1>1, RelationsFold
  <1>3. QED BY <1>1, <1>2, FoldStep

-----------------------------------------------------------------------------
(* A counted file has a number of relations and belongs to a work-unit.    *)
LEMMA CountedFiles ==
    ASSUME IInv, IsFiniteSet(output_files)
    PROVE  /\ Weighted(output_files)
           /\ \A f \in output_files :
                 f[1] \in Wuids /\ wus[f[1]].status \notin {"AVAILABLE", "ASSIGNED"}
  <1>1. ASSUME NEW f \in output_files
        PROVE  f[1] \in Wuids /\ f[2] # CORRUPT /\ wus[f[1]].status \in Countable
    BY DEF IInv, CountedOK
  <1>2. ASSUME NEW f \in output_files PROVE f[2] \in Nat
    <2>1. f \in Paths BY DEF IInv, TypeOK
    <2>2. f[2] \in Outputs BY <2>1, SievingAssumption
    <2>3. QED BY <1>1, <2>2, SievingAssumption
  <1>3. QED BY <1>1, <1>2 DEF Weighted, Countable

(* A step that counts nothing and brings no counted result back keeps the  *)
(* invariant, unless it leaves verification() without settling the result. *)
LEMMA NothingCounted ==
    ASSUME IInv, SumInv, UNCHANGED <<rels_found, output_files>>,
           pc # "add_file", pc' # "add_file", pc \notin Stopped,
           \A w \in Wuids : wus'[w].status \in Received => wus[w].status \in Received,
           \/ pc \notin Verifying
           \/ pc' \in Stopped
           \/ pc' \in Verifying /\ UNCHANGED job
           \/ wus'[job.wu].status \notin Received
    PROVE  SumInv'
  <1>1. RelsInv' BY DEF SumInv, RelsInv
  <1>2. CountedOnceInv'
    <2>1. ASSUME NEW f \in output_files, wus'[f[1]].status \in Received
          PROVE  pc' \in Stopped \/ (pc' \in Verifying /\ job'.wu = f[1])
      <3>1. f[1] \in Wuids BY CountedFiles DEF SumInv
      <3>2. pc \in Verifying /\ job.wu = f[1] BY <2>1, <3>1 DEF SumInv, CountedOnceInv
      <3>3. QED BY <2>1, <3>2
    <2>2. QED BY <2>1 DEF CountedOnceInv
  <1>3. QED BY <1>1, <1>2 DEF SumInv

(* Clients and the operator do not touch what was received.                *)
LEMMA ClientsCountNothing ==
    ASSUME IInv, SumInv, UNCHANGED <<taskvars, sievevars>>,
           \A w \in Wuids : wus[w].status \in {"AVAILABLE", "ASSIGNED"} \/ wus'[w] = wus[w]
    PROVE  SumInv'
  <1>1. pc = "add_file" => Output(job.wu)' = Output(job.wu)
    <2>1. pc = "add_file" => job.wu \in Wuids /\ wus[job.wu].status \in Received
      BY DEF IInv, JobInv, Handling, Jobs
    <2>2. pc = "add_file" => wus'[job.wu] = wus[job.wu] BY <2>1 DEF Received
    <2>3. QED BY <2>2 DEF Output
  <1>2. RelsInv' BY <1>1 DEF SumInv, RelsInv
  <1>3. \A f \in output_files : wus'[f[1]] = wus[f[1]] BY CountedFiles DEF SumInv
  <1>4. CountedOnceInv' BY <1>3 DEF SumInv, CountedOnceInv
  <1>5. QED BY <1>2, <1>4 DEF SumInv

LEMMA ClientsSum ==
    ASSUME IInv, SumInv, ClientFetch \/ OperatorExpire \/ \E w \in Wuids : ClientUpload(w)
    PROVE  SumInv'
  <1>1. wus \in [Wuids -> Row] BY DEF IInv, TypeOK, WuTypeOK
  <1>2. UNCHANGED <<taskvars, sievevars>>
    BY DEF ClientFetch, Fetch, OperatorExpire, Expire, ClientUpload, Upload
  <1>3. PICK v \in Wuids : /\ wus[v].status \in {"AVAILABLE", "ASSIGNED"}
                           /\ \A w \in Wuids \ {v} : wus'[w] = wus[w]
    <2>1. CASE ClientFetch
      <3>1. PICK c \in Clients, w \in Wuids :
               wus[w].status = "AVAILABLE" /\ wus' = [wus EXCEPT ![w] = AssignedRow(wus[w], c)]
        BY <2>1 DEF ClientFetch, Fetch, assign, WithStatus
      <3>2. QED BY <1>1, <3>1
    <2>2. CASE OperatorExpire
      <3>1. PICK w \in Wuids : /\ wus[w].status \in {"AVAILABLE", "ASSIGNED"}
                               /\ set_status("NEED_RESUBMIT", {w})
        BY <2>2 DEF OperatorExpire, Expire, expire
      <3>2. \A u \in Wuids \ {w} : wus'[u] = wus[u] BY <3>1 DEF set_status
      <3>3. QED BY <3>1, <3>2
    <2>3. CASE \E w \in Wuids : ClientUpload(w)
      <3>1. PICK w \in Wuids : ClientUpload(w) BY <2>3
      <3>2. wus[w].status = "ASSIGNED" /\ \E r : wus' = [wus EXCEPT ![w] = r]
        BY <3>1 DEF ClientUpload, Upload, result, CanResult
      <3>3. QED BY <1>1, <3>2
    <2>4. QED BY <2>1, <2>2, <2>3
  <1>4. \A w \in Wuids : wus[w].status \in {"AVAILABLE", "ASSIGNED"} \/ wus'[w] = wus[w]
    BY <1>3
  <1>5. QED BY <1>2, <1>4, ClientsCountNothing

(* The result that is added has a file with a number of relations, and     *)
(* this file does not count yet.                                           *)
LEMMA AddedFile ==
    ASSUME IInv, SumInv, pc \in {"add_rels", "add_file"}
    PROVE  /\ Output(job.wu) \notin output_files
           /\ Output(job.wu)[2] \in Nat
           /\ Output(job.wu)[1] = job.wu
  <1>1. /\ job.wu \in Wuids /\ wus[job.wu].status \in Received /\ wus[job.wu].files # {}
        /\ \A f \in wus[job.wu].files : f[2] # CORRUPT
    BY DEF IInv, JobInv, Handling, Jobs
  <1>2. PICK f : f = Output(job.wu) OBVIOUS
  <1>3. f \in wus[job.wu].files BY <1>1, <1>2 DEF Output
  <1>4. f[1] = job.wu BY <1>1, <1>3 DEF IInv, OwnFile
  <1>5. f[2] \in Nat
    <2>1. wus[job.wu] \in Row BY <1>1 DEF IInv, TypeOK, WuTypeOK
    <2>2. f \in Paths BY <1>3, <2>1 DEF Row
    <2>3. f[2] \in Outputs BY <2>2, SievingAssumption
    <2>4. QED BY <1>1, <1>3, <2>3, SievingAssumption
  <1>6. f \notin output_files
    BY <1>1, <1>4 DEF SumInv, CountedOnceInv, Stopped, Verifying
  <1>7. QED BY <1>2, <1>4, <1>5, <1>6

LEMMA AddSum ==
    ASSUME IInv, SumInv, AddRels \/ AddFile
    PROVE  SumInv'
  <1>1. UNCHANGED <<wus, job>> /\ Output(job.wu)' = Output(job.wu)
    BY DEF AddRels, AddFile, Output
  <1>2. PICK f : f = Output(job.wu) OBVIOUS
  <1>3. f \notin output_files /\ f[2] \in Nat /\ f[1] = job.wu
    BY <1>2, AddedFile DEF AddRels, AddFile
  <1>4. Weighted(output_files) /\ rels_found \in Nat
    BY CountedFiles DEF SumInv, IInv, TypeOK
  <1>5. /\ Weighted(output_files \cup {f}) /\ Relations(output_files) \in Nat
        /\ Relations(output_files \cup {f}) = Relations(output_files) + f[2]
    BY <1>3, <1>4, RelationsAdded
  <1>6. \A g \in output_files : wus[g[1]].status \notin Received
    BY DEF SumInv, CountedOnceInv, Stopped, Verifying, AddRels, AddFile
  <1>7. CASE AddRels
    <2>1. /\ pc = "add_rels" /\ pc' = "add_file" /\ rels_found' = rels_found + f[2]
          /\ UNCHANGED output_files
      BY <1>2, <1>7 DEF AddRels
    <2>2. rels_found = Relations(output_files) BY <1>5, <2>1 DEF SumInv, RelsInv
    <2>3. RelsInv' BY <1>1, <1>2, <2>1, <2>2 DEF RelsInv
    <2>4. CountedOnceInv' BY <1>1, <1>6, <2>1 DEF CountedOnceInv
    <2>5. QED BY <2>1, <2>3, <2>4 DEF SumInv
  <1>8. CASE AddFile
    <2>1. /\ pc = "add_file" /\ pc' = "verify" /\ rels_found' = rels_found
          /\ output_files' = output_files \cup {f}
      BY <1>2, <1>8 DEF AddFile
    <2>2. rels_found = Relations(output_files) + f[2] BY <1>2, <2>1 DEF SumInv, RelsInv
    <2>3. Relations(output_files)' = Relations(output_files \cup {f}) BY <2>1
    <2>4. RelsInv' BY <1>3, <1>5, <2>1, <2>2, <2>3 DEF RelsInv
    <2>5. CountedOnceInv' BY <1>1, <1>3, <1>6, <2>1 DEF CountedOnceInv, Verifying
    <2>6. IsFiniteSet(output_files') BY <1>5, <2>1 DEF Weighted
    <2>7. QED BY <2>4, <2>5, <2>6 DEF SumInv
  <1>9. QED BY <1>7, <1>8

LEMMA SumInit == Init => SumInv
  <1>1. ASSUME Init PROVE SumInv
    <2>1. output_files = {} /\ rels_found = 0 /\ pc = "up" BY <1>1 DEF Init, TaskInit
    <2>2. Relations(output_files) = 0 BY <2>1, RelationsOfNone
    <2>3. QED BY <2>1, <2>2, RelationsOfNone DEF SumInv, RelsInv, CountedOnceInv, Weighted
  <1>2. QED BY <1>1

(* The other steps of the driver count nothing.                            *)
LEMMA TableUntouched ==
    ASSUME IInv, SumInv,
           \/ Loop \/ Submit \/ Count \/ Advance \/ Drain \/ GiveUp \/ RequestMoreRelations
           \/ NoResult \/ NoTimeoutCheck \/ AllHandled \/ CancelCount \/ Resubmit
           \/ \E S : CheckTimeouts(S),
           UNCHANGED <<rels_found, output_files>>
    PROVE  SumInv'
  <1>1. TypeOK BY DEF IInv
  <1>2. UNCHANGED wus /\ pc \notin Verifying \cup Stopped \cup {"add_file"}
    BY DEF Loop, Submit, SubmitCommand, Count, CountNew, Advance, Drain, GiveUp,
           RequestMoreRelations, NoResult, NoTimeoutCheck, AllHandled, CancelCount,
           Resubmit, CheckTimeouts, TimeoutCheck, Verifying, Stopped
  <1>3. pc' # "add_file"
    <2>1. ASSUME NEW r \in BOOLEAN, Answered(r) PROVE pc' # "add_file"
      BY <1>1, <2>1, AnsweredQuiet DEF Quiet, Handling
    <2>2. caller # "add_file" BY <1>1 DEF TypeOK
    <2>3. CASE NoResult \/ Resubmit
      BY <2>1, <2>3 DEF NoResult, Resubmit, Resubmitted
    <2>4. CASE ~(NoResult \/ Resubmit)
      BY <2>2, <2>4
      DEF Loop, Submit, SubmitCommand, Count, CountNew, Advance, Drain, GiveUp,
          RequestMoreRelations, NoTimeoutCheck, AllHandled, CancelCount, Raise,
          CheckTimeouts, TimeoutCheck
    <2>5. QED BY <2>3, <2>4
  <1>4. QED BY <1>2, <1>3, NothingCounted

LEMMA ResultSum ==
    ASSUME IInv, SumInv, UNCHANGED <<rels_found, output_files>>,
           TakeResult \/ ErrorResult \/ CountFailed \/ VerifyCount \/ VerifyRange
    PROVE  SumInv'
  <1>1. UNCHANGED wus /\ pc \in {"result", "failed"} \cup Verifying
    BY DEF TakeResult, ErrorResult, CountFailed, VerifyCount, VerifyRange, Verifying
  <1>2. pc' # "add_file"
    BY DEF TakeResult, ErrorResult, CountFailed, VerifyCount, VerifyRange, Raise
  <1>3. pc \notin Verifying \/ pc' \in Stopped \/ (pc' \in Verifying /\ UNCHANGED job)
    BY DEF TakeResult, ErrorResult, CountFailed, VerifyCount, VerifyRange, Raise, Verifying,
           Stopped
  <1>4. pc # "add_file" /\ pc \notin Stopped BY <1>1 DEF Verifying, Stopped
  <1>5. QED BY <1>1, <1>2, <1>3, <1>4, NothingCounted

(* Rows that are created or settled.                                       *)
LEMMA RowsSum ==
    ASSUME IInv, SumInv, UNCHANGED <<rels_found, output_files>>,
           Create \/ Recreate \/ VerifyRow \/ CancelRow \/ Unclaimed \/ HaveEnoughRelations
    PROVE  SumInv'
  <1>1. TypeOK /\ wus \in [Wuids -> Row] BY DEF IInv, TypeOK, WuTypeOK
  <1>2. /\ pc \in {"create", "recreate", "verify_row", "cancel", "unclaimed", "exit"}
        /\ pc \in Verifying => VerifyRow
    BY DEF Create, CreateNew, Recreate, VerifyRow, CancelRow, Unclaimed, HaveEnoughRelations,
           Verifying
  <1>3. pc' # "add_file"
    <2>1. ASSUME NEW r \in BOOLEAN, Answered(r) PROVE pc' # "add_file"
      BY <1>1, <2>1, AnsweredQuiet DEF Quiet, Handling
    <2>2. QED
      BY <2>1 DEF Create, CreateNew, Recreate, Resubmitted, VerifyRow, CancelRow, Unclaimed,
                  HaveEnoughRelations, Raise
  <1>4. \A w \in Wuids : wus'[w].status \in Received => wus[w].status \in Received
    <2>1. ASSUME NEW v, create(v)
          PROVE  \A w \in Wuids : wus'[w].status \in Received => wus[w].status \in Received
      BY <1>1, <2>1 DEF create, NewRow, BlankRow, Received
    <2>2. ASSUME NEW S, set_status("CANCELLED", S)
          PROVE  \A w \in Wuids : wus'[w].status \in Received => wus[w].status \in Received
      BY <2>2 DEF set_status, StatusRow, Received
    <2>3. ASSUME NEW v, NEW ok, verification(v, ok)
          PROVE  \A w \in Wuids : wus'[w].status \in Received => wus[w].status \in Received
      BY <1>1, <2>3 DEF verification, StatusRow, Received
    <2>4. CASE Create \/ Recreate BY <2>1, <2>4 DEF Create, CreateNew, Recreate
    <2>5. CASE CancelRow \/ Unclaimed \/ HaveEnoughRelations
      BY <2>2, <2>5 DEF CancelRow, Unclaimed, cancel, HaveEnoughRelations, cancel_all_available
    <2>6. CASE VerifyRow BY <2>3, <2>6 DEF VerifyRow
    <2>7. QED BY <2>4, <2>5, <2>6
  <1>5. CASE pc \in Verifying
    <2>1. job.wu \in Wuids BY <1>5 DEF IInv, JobInv, Handling, Verifying, Jobs
    <2>2. pc' \in Stopped \/ wus'[job.wu].status \notin Received
      <3>1. CASE verification(job.wu, job.ok)
        BY <1>1, <2>1, <3>1 DEF verification, StatusRow, Received
      <3>2. CASE ~verification(job.wu, job.ok)
        BY <1>2, <1>5, <3>2 DEF VerifyRow, Raise, Stopped
      <3>3. QED BY <3>1, <3>2
    <2>3. pc # "add_file" /\ pc \notin Stopped BY <1>2 DEF Stopped
    <2>4. QED BY <1>3, <1>4, <2>2, <2>3, NothingCounted
  <1>6. CASE pc \notin Verifying
    <2>1. pc # "add_file" /\ pc \notin Stopped BY <1>2 DEF Stopped
    <2>2. QED BY <1>3, <1>4, <1>6, <2>1, NothingCounted
  <1>7. QED BY <1>5, <1>6

LEMMA SumStep ==
    ASSUME NeverKilled', IInv, SumInv, [Next]_vars
    PROVE  SumInv'
  <1>1. CASE AddRels \/ AddFile BY <1>1, AddSum
  <1>2. CASE Loop \/ Submit \/ Count \/ Advance \/ Drain \/ GiveUp \/ RequestMoreRelations
    <2>1. UNCHANGED <<rels_found, output_files>>
      BY <1>2 DEF Loop, Submit, Count, Advance, Drain, GiveUp, RequestMoreRelations
    <2>2. QED BY <1>2, <2>1, TableUntouched
  <1>3. CASE TakeResult BY <1>3, ResultSum DEF TakeResult
  <1>4. CASE Create \/ HaveEnoughRelations
    BY <1>4, RowsSum DEF Create, HaveEnoughRelations
  <1>5. CASE TaskStep
    <2>1. UNCHANGED <<rels_found, output_files>> BY <1>5 DEF TaskStep
    <2>2. CASE NoResult \/ NoTimeoutCheck \/ AllHandled \/ CancelCount \/ Resubmit
      BY <2>1, <2>2, TableUntouched
    <2>3. CASE ErrorResult \/ CountFailed \/ VerifyCount \/ VerifyRange
      BY <2>1, <2>3, ResultSum
    <2>4. CASE Recreate \/ VerifyRow \/ CancelRow \/ Unclaimed BY <2>1, <2>4, RowsSum
    <2>5. QED BY <1>5, <2>2, <2>3, <2>4 DEF TaskStep
  <1>6. CASE \E S \in SUBSET WithStatus("ASSIGNED") : CheckTimeouts(S)
    <2>1. \E S : CheckTimeouts(S) BY <1>6
    <2>2. UNCHANGED <<rels_found, output_files>> BY <2>1 DEF CheckTimeouts
    <2>3. QED BY <2>1, <2>2, TableUntouched
  <1>7. CASE CrashDriver \/ RestartDriver
    BY <1>7 DEF NeverKilled, CrashDriver, Crash, RestartDriver, IInv, TypeOK
  <1>8. CASE ClientFetch \/ OperatorExpire \/ \E w \in Wuids : ClientUpload(w)
    BY <1>8, ClientsSum
  <1>9. CASE UNCHANGED vars BY <1>9, ClientsCountNothing
  <1>10. QED
    BY <1>1, <1>2, <1>3, <1>4, <1>5, <1>6, <1>7, <1>8, <1>9 DEF Next, Driver

(* rels_found is the number of relations in the files that filtering will  *)
(* be given, but for the file being added, until the driver is killed,     *)
(* whatever clients answer.                                                *)
THEOREM RelationsAreExact == Spec => []RelsExact
  <1>1. Init => SumInv BY SumInit
  <1>2. IInv /\ (NeverKilled => SumInv) /\ [Next]_vars => (NeverKilled => SumInv)'
    BY SumStep, KeepsRunning
  <1>3. (NeverKilled => SumInv) => RelsExact BY DEF SumInv, RelsInv, RelsExact
  <1>4. QED BY <1>1, <1>2, <1>3, Invariance, PTL DEF Spec
=============================================================================
