----------------------------- MODULE SievingTask -----------------------------
(***************************************************************************)
(* class SievingTask of scripts/cadofactor/cadotask.py on top of           *)
(* ClientServerTask: the loop that hands out one special-q range after the *)
(* other until enough relations are in, and what it does with a result.    *)
(*                                                                         *)
(* Ranges are numbered 0, 1, ... (qrange = 1).  A result file is the pair  *)
(* of its work-unit and its contents: a number of relations, or CORRUPT    *)
(* when parse_rel_count() finds no relation count or a relation that does  *)
(* not verify.                                                             *)
(***************************************************************************)
EXTENDS ClientServerTask, FiniteSetsExt

CONSTANTS qmax,         \* parameter qmax, in ranges
          RelsWanted,   \* parameter rels_wanted
          Targets,      \* the goals filtering may ask for later
          Outputs,      \* contents of result files: counts and CORRUPT
          CORRUPT,      \* contents without a relation count or with a bad relation
          Answers,      \* what clients answer: [output, errorcode, failed]
          MaxRestarts,  \* bound: crashes and restarts
          MaxRequests   \* bound: requests for more relations

ASSUME SievingAssumption ==
    /\ qmax \in Nat /\ Ranges = 0 .. qmax - 1
    /\ Outputs \ {CORRUPT} \subseteq Nat
    /\ Paths = Wuids \X Outputs
    /\ RelsWanted \in Nat /\ Targets \subseteq Nat
    /\ MaxRestarts \in Nat /\ MaxRequests \in Nat
    /\ Answers \subseteq [output : Outputs \cup {NONE},
                          errorcode : ErrorCodes \cup {NONE},
                          failed : Commands \cup {NONE}]
    /\ \A a \in Answers : a.errorcode = NONE => a.failed = NONE

VARIABLES qnext,         \* state["qnext"]: the next range to hand out
          rels_found,    \* state["rels_found"]
          rels_wanted,   \* state["rels_wanted"]
          output_files,  \* the table of result files that count
          restarts, requests

sievevars == <<qnext, rels_found, rels_wanted, output_files, restarts, requests>>
vars == <<wus, taskvars, sievevars>>

Init ==
    /\ WuInit /\ TaskInit
    /\ qnext = 0 /\ rels_found = 0 /\ rels_wanted = RelsWanted
    /\ output_files = {} /\ restarts = 0 /\ requests = 0

enough_work_received == rels_found >= rels_wanted
reached_qmax         == qnext >= qmax

-----------------------------------------------------------------------------
(* run(): schedule the next range, or wait for the outstanding work-units, *)
(* or return.                                                              *)
Loop ==
    /\ pc = "up"
    /\ pc' = IF ~enough_work_received /\ ~reached_qmax THEN "submit"
             ELSE IF reached_qmax THEN "drain" ELSE "exit"
    /\ UNCHANGED <<wus, state, caller, job, todo, why, sievevars>>

Submit == SubmitCommand(enough_work_received) /\ UNCHANGED sievevars

Count == CountNew /\ UNCHANGED sievevars

Create == CreateNew(qnext) /\ UNCHANGED sievevars

(* After submit_command() returned, whether or not it submitted anything.  *)
Advance ==
    /\ pc = "advance" /\ pc' = "up"
    /\ qnext' = qnext + 1
    /\ UNCHANGED <<wus, state, caller, job, todo, why, rels_found,
                   rels_wanted, output_files, restarts, requests>>

Drain ==
    /\ pc = "drain" /\ caller' = "drain"
    /\ pc' = IF get_number_outstanding_wus > 0 /\ ~enough_work_received
               THEN "result" ELSE "exit"
    /\ UNCHANGED <<wus, state, job, todo, why, sievevars>>

(* run() returns False and the program ends if the goal was not reached.   *)
(* Else the later tasks run: filtering may ask for more relations          *)
(* (request_more_relations), or has enough (HAVE_ENOUGH_RELATIONS).        *)
GiveUp ==
    /\ pc = "exit" /\ ~enough_work_received /\ pc' = "gaveup"
    /\ UNCHANGED <<wus, state, caller, job, todo, why, sievevars>>

RequestMoreRelations ==
    /\ pc = "exit" /\ enough_work_received /\ requests < MaxRequests
    /\ \E target \in Targets :
         /\ rels_wanted' = IF target > rels_wanted THEN target ELSE rels_wanted
         /\ pc' = IF rels_wanted' > rels_found THEN "up" ELSE "exit"
    /\ requests' = requests + 1
    /\ UNCHANGED <<wus, state, caller, job, todo, why, qnext, rels_found,
                   output_files, restarts>>

HaveEnoughRelations ==
    /\ pc = "exit" /\ enough_work_received /\ pc' = "done"
    /\ cancel_all_available
    /\ UNCHANGED <<state, caller, job, todo, why, sievevars>>

-----------------------------------------------------------------------------
(* updateObserver() for a result that handle_error_result() let pass:      *)
(* without exactly one output file it is not ours; add_file() refuses a    *)
(* corrupt one, else adds its relations, then the file itself.             *)
Output(w) == CHOOSE F \in wus[w].files : TRUE

TakeResult ==
    /\ pc = "result"
    /\ \E w \in get_one_result :
         /\ get_exitcode(w, 0) = 0
         /\ LET ok == wus[w].files # {} /\ Output(w)[2] # CORRUPT IN
              /\ job' = [wu |-> w, ok |-> ok, error |-> FALSE]
              /\ pc' = IF wus[w].files = {} THEN "unclaimed"
                       ELSE IF ok THEN "add_rels" ELSE "verify"
    /\ UNCHANGED <<wus, state, caller, todo, why, sievevars>>

AddRels ==
    /\ pc = "add_rels" /\ pc' = "add_file"
    /\ rels_found' = rels_found + Output(job.wu)[2]
    /\ UNCHANGED <<wus, state, caller, job, todo, why, qnext, rels_wanted,
                   output_files, restarts, requests>>

(* Mutant: the table of files is replaced, not extended.                   *)
AddFile_Replaces ==
    /\ pc = "add_file" /\ pc' = "verify"
    /\ output_files' = {Output(job.wu)}
    /\ UNCHANGED <<wus, state, caller, job, todo, why, qnext, rels_found,
                   rels_wanted, restarts, requests>>

AddFile ==
    /\ pc = "add_file" /\ pc' = "verify"
    /\ output_files' = output_files \cup {Output(job.wu)}
    /\ UNCHANGED <<wus, state, caller, job, todo, why, qnext, rels_found,
                   rels_wanted, restarts, requests>>

TaskStep ==
    /\ \/ NoResult \/ ErrorResult \/ CountFailed
       \/ VerifyCount \/ VerifyRange \/ VerifyRow \/ Unclaimed
       \/ NoTimeoutCheck \/ CancelCount \/ AllHandled \/ CancelRow
       \/ Resubmit \/ Recreate
    /\ UNCHANGED sievevars

CheckTimeouts(S) == TimeoutCheck(S) /\ UNCHANGED sievevars

-----------------------------------------------------------------------------
(* A crash, at any transaction or after the sieving is complete, and a     *)
(* restart: __init__ sets the goal to the parameter again.                 *)
CrashDriver ==
    /\ restarts < MaxRestarts
    /\ Crash /\ UNCHANGED sievevars

RestartDriver ==
    /\ restarts < MaxRestarts
    /\ Restart
    /\ restarts' = restarts + 1 /\ rels_wanted' = RelsWanted
    /\ UNCHANGED <<qnext, rels_found, output_files, requests>>

(* Clients and operator.                                                   *)
ClientFetch == (\E c \in Clients : Fetch(c)) /\ UNCHANGED sievevars

ClientUpload(w) ==
    /\ \E a \in Answers :
         Upload(w, IF a.output = NONE THEN {} ELSE {<<w, a.output>>},
                a.errorcode, a.failed)
    /\ UNCHANGED sievevars

OperatorExpire == (\E w \in Wuids : Expire(w)) /\ UNCHANGED sievevars

-----------------------------------------------------------------------------
Driver ==
    \/ Loop \/ Submit \/ Count \/ Create \/ Advance \/ Drain
    \/ TakeResult \/ AddRels \/ AddFile \/ TaskStep
    \/ \E S \in SUBSET WithStatus("ASSIGNED") : CheckTimeouts(S)

Next ==
    \/ Driver
    \/ GiveUp \/ RequestMoreRelations \/ HaveEnoughRelations
    \/ CrashDriver \/ RestartDriver
    \/ ClientFetch \/ (\E w \in Wuids : ClientUpload(w)) \/ OperatorExpire

Spec == Init /\ [][Next]_vars

(* The driver keeps running, some client keeps asking for work, and a      *)
(* work-unit that stays assigned (for wutimeout) or expired is found: the  *)
(* check becomes due again and again (wutimeoutcheck).  Nothing is assumed *)
(* of clients that hold a work-unit: they may never answer.                *)
TimeoutFound(w) ==
    \E S \in SUBSET WithStatus("ASSIGNED") : CheckTimeouts(S) /\ w \in todo'

Fairness ==
    /\ WF_vars(Driver) /\ WF_vars(ClientFetch)
    /\ \A w \in Wuids : SF_vars(TimeoutFound(w))

FairSpec == Spec /\ Fairness

-----------------------------------------------------------------------------
Pcs == {"up", "submit", "result", "count", "create", "advance", "drain",
        "exit", "done", "failed", "verify", "verify_range", "verify_row",
        "unclaimed", "add_rels", "add_file", "timeouts", "next", "cancel",
        "resubmit", "recreate"} \cup Stopped

Jobs == [wu : Wuids, ok : BOOLEAN, error : BOOLEAN]

(* Type invariant of the driver, its table and its counters.               *)
TypeOK ==
    /\ WuTypeOK
    /\ state \in [Counters -> Nat]
    /\ pc \in Pcs /\ caller \in {"submit", "drain", "once"}
    /\ job \in Jobs \cup {NONE}
    /\ todo \subseteq Wuids
    /\ why \in {"none", "integrity", "assert", "maxfailed", "maxtimedout"}
    /\ qnext \in Nat /\ rels_found \in Nat /\ rels_wanted \in Nat
    /\ output_files \subseteq Paths
    /\ restarts \in Nat /\ requests \in Nat

(* A range of special-q is never in the hands of two attempts: at most one *)
(* attempt is available, assigned, waiting to be resubmitted, received or  *)
(* accepted, whatever is timed out, resubmitted, uploaded late or lost in  *)
(* a crash.  (Only submit_wu() after cancel() keeps it so.)                *)
Live == {"AVAILABLE", "ASSIGNED", "NEED_RESUBMIT", "RECEIVED_OK",
         "RECEIVED_ERROR", "VERIFIED_OK"}
AtMostOneLive ==
    \A q \in Ranges : \A a, b \in Attempts :
        (wus[<<q, a>>].status \in Live /\ wus[<<q, b>>].status \in Live) => a = b

(* No range is counted from two result files, so no relation reaches the   *)
(* filtering twice because of a timeout, a retry or a crash.               *)
RangeCountedOnce ==
    \A f, g \in output_files : f[1][1] = g[1][1] => f = g

(* The attempts of a range are created one after the other, and an attempt *)
(* is only created when the previous one is settled for good: cancelled,   *)
(* or verified with an error.                                              *)
AttemptsInOrder ==
    \A q \in Ranges : \A a \in Attempts :
        (a > 1 /\ <<q, a>> \in Rows) =>
            wus[<<q, a - 1>>].status \in {"CANCELLED", "VERIFIED_ERROR"}

(* The counters are kept in transactions of their own, so a crash between  *)
(* a counter and its row sets them apart; and a result without a file is   *)
(* cancelled without being counted (send_result).  The counting properties *)
(* are about a driver to which neither has happened yet.                   *)
NeverKilled == restarts = 0 /\ pc # "down"
Undisturbed ==
    /\ NeverKilled
    /\ \A w \in Wuids : wus[w].resultclient # NONE => wus[w].files # {}

(* get_number_outstanding_wus() is the number of work-units the driver     *)
(* still has to hear of: exactly, but for the one it is counting.  Waiting *)
(* for it to become 0 is how a task ends.                                  *)
Open == {"AVAILABLE", "ASSIGNED", "NEED_RESUBMIT", "RECEIVED_OK", "RECEIVED_ERROR"}
InHand ==
    IF pc \in {"create", "recreate"} THEN 1
    ELSE IF pc \in {"verify_range", "verify_row", "cancel"} THEN -1 ELSE 0
OutstandingExact ==
    Undisturbed /\ pc # "done" =>
        get_number_outstanding_wus =
            Cardinality({w \in Wuids : wus[w].status \in Open}) + InHand

(* Until the driver is killed, rels_found is the number of relations in    *)
(* the files that filtering will be given, but for the file being added.   *)
Relations(F) == MapThenSumSet(LAMBDA f : f[2], F)
RelsExact ==
    NeverKilled =>
        rels_found = Relations(output_files)
                     + (IF pc = "add_file" THEN Output(job.wu)[2] ELSE 0)

(* A range that was handed out is not lost.  Its last attempt is live, or  *)
(* settled for good: cancelled as the last that maxresubmit allows,        *)
(* reported as failed as the last that maxwuerror allows, or refused as    *)
(* corrupt (which is never resubmitted); or the driver is about to create  *)
(* the next attempt.  Only the range in hand when run() finds that it has  *)
(* enough can be skipped: one for each time the goal was set.              *)
NotLost(q, a) ==
    \/ wus[<<q, a>>].status \in Live
    \/ wus[<<q, a>>].status = "CANCELLED" /\ a >= maxresubmit
    \/ /\ wus[<<q, a>>].status = "VERIFIED_ERROR"
       /\ get_exitcode(<<q, a>>, 0) = 0 \/ a >= maxwuerror
    \/ pc \in {"resubmit", "recreate"} /\ job.wu = <<q, a>>

NoRangeLost ==
    Undisturbed =>
        /\ Cardinality({q \in Ranges : q < qnext /\ <<q, 1>> \notin Rows}) <= 1 + requests
        /\ pc \notin Stopped \cup {"done"} =>
              \A q \in Ranges :
                  <<q, 1>> \in Rows =>
                      \E a \in Attempts :
                          /\ <<q, a>> \in Rows /\ NotLost(q, a)
                          /\ \A b \in Attempts : b > a => <<q, b>> \notin Rows

(* The docstring of handle_error_result(): a work-unit that came back with *)
(* a failed command is resubmitted once it is verified (up to maxwuerror   *)
(* attempts).                                                              *)
ErrorsResubmitted ==
    \A q \in Ranges : \A a \in Attempts :
        (/\ wus[<<q, a>>].status \in {"VERIFIED_OK", "VERIFIED_ERROR"}
         /\ wus[<<q, a>>].errorcode # NONE
         /\ a < maxwuerror) =>
            \/ <<q, a + 1>> \in Rows
            \/ pc \in {"resubmit", "recreate"} \cup Stopped

(* run() ends: it reaches its goal, gives up or stops with one of its      *)
(* documented limits, even if clients come and go without ever answering   *)
(* -- unless it is killed or gets a result without a file.                 *)
RunEnds ==
    (pc = "up") ~> (pc \in {"exit", "done", "gaveup", "aborted"} \/ ~Undisturbed)
=============================================================================
