-------------------------- MODULE ClientServerTask --------------------------
(***************************************************************************)
(* class ClientServerTask of scripts/cadofactor/cadotask.py: how a driver  *)
(* task submits work-units, takes their results out of the work-unit table *)
(* and times out, cancels and resubmits the ones that do not come back.    *)
(*                                                                         *)
(* The driver is one sequential process, but each change it makes to the   *)
(* database is a transaction of its own (the `commit' arguments are        *)
(* ignored), the HTTP server and its clients work on the same table        *)
(* between two of them, and the driver can be killed between two of them.  *)
(* So pc names the next transaction of the driver.  What a task adds --    *)
(* its run() loop and updateObserver() -- is in the modules that extend    *)
(* this one.                                                               *)
(***************************************************************************)
EXTENDS WuAccess, Integers

CONSTANTS Ranges,      \* identifiers: the ranges of work, one per work-unit
          maxwu, maxresubmit, maxwuerror, maxtimedout, maxfailed

(* A work-unit name is an identifier and an attempt (make_wuname); no      *)
(* attempt suffix is attempt 1.                                            *)
Attempts == {a \in 1 .. maxresubmit + maxwuerror + 1 :
               a = 1 \/ a <= maxresubmit \/ a <= maxwuerror}

ASSUME TaskAssumption ==
    /\ Wuids = Ranges \X Attempts
    /\ {maxwu, maxresubmit, maxwuerror, maxtimedout, maxfailed} \subseteq Nat
    /\ maxwu >= 1

VARIABLES
    state,   \* the task's counters in its DB-backed dictionary
    pc,      \* the driver's next transaction
    caller,  \* who asked for a result: wait() in "submit" or "drain", or
             \* submit_command() itself ("once")
    job,     \* the work-unit in hand, and the verdict on its result
    todo,    \* the timed-out work-units still to be handled
    why      \* what stopped the driver with an exception

taskvars == <<state, pc, caller, job, todo, why>>

Counters == {"wu_submitted", "wu_received", "wu_range_received",
             "wu_timedout", "wu_failed"}

TaskInit ==
    /\ state = [k \in Counters |-> 0]
    /\ pc = "up" /\ caller = "submit" /\ why = "none"
    /\ job = NONE /\ todo = {}

(* Mutant: timed-out work-units stay outstanding.                          *)
outstanding_NoTimeouts == state["wu_submitted"] - state["wu_received"]

get_number_outstanding_wus ==
    state["wu_submitted"] - state["wu_received"] - state["wu_timedout"]

Increment(k) == state' = [state EXCEPT ![k] = @ + 1]

(* An exception leaves run(): the program ends.                            *)
Raise(reason) == pc' = "aborted" /\ why' = reason

(* GET_WU_RESULT is answered.  wait() goes on to look for timeouts when no *)
(* result was taken.                                                       *)
Answered(received) ==
    pc' = IF caller = "once" THEN "count"
          ELSE IF received THEN caller ELSE "timeouts"

-----------------------------------------------------------------------------
(* submit_command(): wait while the table holds maxwu available            *)
(* work-units, give up if the task has enough; else ask once for a result, *)
(* then submit.                                                            *)
SubmitCommand(enough) ==
    /\ pc = "submit"
    /\ \/ /\ count_available >= maxwu
          /\ pc' = IF enough THEN "advance" ELSE "result"
          /\ caller' = "submit"
       \/ /\ count_available < maxwu
          /\ pc' = "result" /\ caller' = "once"
    /\ UNCHANGED <<wus, state, job, todo, why>>

(* submit_wu() for a new range: the counter, then the row.                 *)
CountNew ==
    /\ pc = "count" /\ pc' = "create"
    /\ Increment("wu_submitted")
    /\ UNCHANGED <<wus, caller, job, todo, why>>

CreateNew(q) ==
    /\ pc = "create"
    /\ \/ create(<<q, 1>>) /\ pc' = "advance" /\ UNCHANGED why
       \/ ~CanCreate(<<q, 1>>) /\ Raise("integrity") /\ UNCHANGED wus
    /\ UNCHANGED <<state, caller, job, todo>>

-----------------------------------------------------------------------------
(* send_result() finds no result.                                          *)
NoResult ==
    /\ pc = "result" /\ get_one_result = {}
    /\ Answered(FALSE)
    /\ UNCHANGED <<wus, state, caller, job, todo, why>>

(* handle_error_result(): a result whose first command failed.  No more    *)
(* than maxfailed of them.                                                 *)
ErrorResult ==
    /\ pc = "result"
    /\ \E w \in get_one_result :
         /\ get_exitcode(w, 0) # 0
         /\ job' = [wu |-> w, ok |-> FALSE, error |-> TRUE]
         /\ IF state["wu_failed"] < maxfailed
              THEN pc' = "failed" /\ UNCHANGED why
              ELSE Raise("maxfailed")
    /\ UNCHANGED <<wus, state, caller, todo>>

CountFailed ==
    /\ pc = "failed" /\ pc' = "verify"
    /\ Increment("wu_failed")
    /\ UNCHANGED <<wus, caller, job, todo, why>>

(* verification(): the assertion and wu_received; wu_range_received (every *)
(* range has size 1); then the row.                                        *)
VerifyCount ==
    /\ pc = "verify"
    /\ \/ /\ get_number_outstanding_wus >= 1
          /\ Increment("wu_received") /\ pc' = "verify_range"
          /\ UNCHANGED why
       \/ /\ get_number_outstanding_wus < 1
          /\ Raise("assert") /\ UNCHANGED state
    /\ UNCHANGED <<wus, caller, job, todo>>

VerifyRange ==
    /\ pc = "verify_range" /\ pc' = "verify_row"
    /\ Increment("wu_range_received")
    /\ UNCHANGED <<wus, caller, job, todo, why>>

VerifyRow ==
    /\ pc = "verify_row"
    /\ \/ /\ verification(job.wu, job.ok)
          /\ IF job.error THEN pc' = "resubmit" ELSE Answered(TRUE)
          /\ UNCHANGED why
       \/ /\ wus[job.wu].status \notin Received
          /\ Raise("assert") /\ UNCHANGED wus
    /\ UNCHANGED <<state, caller, job, todo>>

(* send_result(): no task took the result; its work-unit is cancelled.     *)
Unclaimed ==
    /\ pc = "unclaimed"
    /\ cancel(job.wu)
    /\ Answered(FALSE)
    /\ UNCHANGED <<state, caller, job, todo, why>>

-----------------------------------------------------------------------------
(* resubmit_timed_out_wus(): not yet time to check (the first call never   *)
(* checks), or the query for the work-units assigned too long ago -- any   *)
(* subset of the assigned ones -- and for the expired ones.                *)
(* Mutant: the query forgets to ask for the status.                        *)
TimeoutCheck_AnyStatus(S) ==
    /\ pc = "timeouts" /\ pc' = "next"
    /\ S \subseteq WithStatus("ASSIGNED")
    /\ todo' = S \cup WithStatus("NEED_RESUBMIT") \cup WithStatus("VERIFIED_OK")
    /\ UNCHANGED <<wus, state, caller, job, why>>

TimeoutCheck(S) ==
    /\ pc = "timeouts"
    /\ S \subseteq WithStatus("ASSIGNED")
    /\ todo' = S \cup WithStatus("NEED_RESUBMIT")
    /\ pc' = "next"
    /\ UNCHANGED <<wus, state, caller, job, why>>

NoTimeoutCheck ==
    /\ pc = "timeouts" /\ pc' = caller
    /\ UNCHANGED <<wus, state, caller, job, todo, why>>

(* cancel_wu(): the limit and the counter; then the row, whatever happened *)
(* to it since the query.                                                  *)
CancelCount ==
    /\ pc = "next" /\ todo # {}
    /\ \E w \in todo :
         /\ job' = [wu |-> w, ok |-> FALSE, error |-> FALSE]
         /\ todo' = todo \ {w}
         /\ IF state["wu_timedout"] < maxtimedout
              THEN Increment("wu_timedout") /\ pc' = "cancel" /\ UNCHANGED why
              ELSE Raise("maxtimedout") /\ UNCHANGED state
    /\ UNCHANGED <<wus, caller>>

AllHandled ==
    /\ pc = "next" /\ todo = {} /\ pc' = caller
    /\ UNCHANGED <<wus, state, caller, job, todo, why>>

(* Mutant: only a row that is still assigned is cancelled.                 *)
CancelRow_IfAssigned ==
    /\ pc = "cancel" /\ pc' = "resubmit"
    /\ IF wus[job.wu].status = "ASSIGNED" THEN cancel(job.wu) ELSE UNCHANGED wus
    /\ UNCHANGED <<state, caller, job, todo, why>>

CancelRow ==
    /\ pc = "cancel" /\ pc' = "resubmit"
    /\ cancel(job.wu)
    /\ UNCHANGED <<state, caller, job, todo, why>>

(* resubmit_one_wu(): up to maxresubmit (maxwuerror after an error)        *)
(* attempts; submit_wu() under the next name: the counter, then the row.   *)
Resubmitted == IF job.error THEN Answered(TRUE) ELSE pc' = "next"

(* Mutant: one attempt too few.                                            *)
Limit_OffByOne == (IF job.error THEN maxwuerror ELSE maxresubmit) - 1

Limit == IF job.error THEN maxwuerror ELSE maxresubmit
NextAttempt == <<job.wu[1], job.wu[2] + 1>>

Resubmit ==
    /\ pc = "resubmit"
    /\ \/ /\ job.wu[2] + 1 > Limit
          /\ Resubmitted /\ UNCHANGED state
       \/ /\ job.wu[2] + 1 <= Limit
          /\ Increment("wu_submitted") /\ pc' = "recreate"
    /\ UNCHANGED <<wus, caller, job, todo, why>>

Recreate ==
    /\ pc = "recreate"
    /\ \/ create(NextAttempt) /\ Resubmitted /\ UNCHANGED why
       \/ ~CanCreate(NextAttempt) /\ Raise("integrity") /\ UNCHANGED wus
    /\ UNCHANGED <<state, caller, job, todo>>

-----------------------------------------------------------------------------
(* The driver is killed: what was not in the database is gone.  A new run  *)
(* constructs the task from the database (ClientServerTask.__init__).      *)
Stopped == {"down", "aborted", "gaveup"}

Crash ==
    /\ pc \notin Stopped /\ pc' = "down"
    /\ job' = NONE /\ todo' = {} /\ caller' = "submit"
    /\ UNCHANGED <<wus, state, why>>

Restart ==
    /\ pc \in Stopped
    /\ job' = NONE /\ todo' = {} /\ caller' = "submit"
    /\ IF get_number_outstanding_wus >= 0
         THEN pc' = "up" /\ why' = "none"
         ELSE Raise("assert")
    /\ UNCHANGED <<wus, state>>

-----------------------------------------------------------------------------
(* The HTTP server runs in the driver's process.  A client fetches a       *)
(* work-unit; the client it was assigned to uploads a result -- in time or *)
(* late: result() refuses it unless the row is still ASSIGNED.             *)
(* Once filtering has enough relations ("done") it serves no more          *)
(* work-units (stop_serving_wus).                                          *)
ServerUp == pc \notin Stopped
Serving  == ServerUp /\ pc # "done"

Fetch(c) == Serving /\ assign(c) /\ UNCHANGED taskvars

Upload(w, F, e, f) ==
    /\ ServerUp /\ wus[w].assignedclient # NONE
    /\ result(w, wus[w].assignedclient, F, e, f)
    /\ UNCHANGED taskvars

(* The operator expires work-units that are on the way, from the command   *)
(* line of wudb.py (-avail -expire, -assigned -expire), whether or not the *)
(* driver runs.  Expiring a row that has a result, and -cancel, are calls  *)
(* of WuAccess only: no driver is told of them.                            *)
Expire(w) ==
    /\ wus[w].status \in {"AVAILABLE", "ASSIGNED"}
    /\ expire(w) /\ UNCHANGED taskvars
=============================================================================
