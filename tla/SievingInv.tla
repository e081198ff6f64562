----------------------------- MODULE SievingInv -----------------------------
(***************************************************************************)
(* The inductive invariant behind AtMostOneLive, AttemptsInOrder and       *)
(* RangeCountedOnce of SievingTask: what the driver knows of the work-unit *)
(* in its hands at each of its transactions, however clients, timeouts and *)
(* crashes interleave.  SievingProofs proves it inductive.                 *)
(***************************************************************************)
EXTENDS SievingTask

Dead      == {"CANCELLED", "VERIFIED_ERROR"}
Countable == {"RECEIVED_OK", "RECEIVED_ERROR", "VERIFIED_OK"}
Counted(w) == \E f \in output_files : f[1] = w

(* All attempts before one that was created are settled for good.          *)
PastDead ==
    \A q \in Ranges : \A a, b \in Attempts :
        (a < b /\ wus[<<q, b>>].status # "ABSENT") => wus[<<q, a>>].status \in Dead

(* A work-unit has at most one file, its own, and none before its result.  *)
OwnFile ==
    \A w \in Wuids :
        /\ \A f \in wus[w].files : f[1] = w
        /\ \A f, g \in wus[w].files : f = g
        /\ wus[w].status \in {"ABSENT", "AVAILABLE", "ASSIGNED"} => wus[w].files = {}

(* A file that counts is the good file of a result that was not settled    *)
(* as an error.                                                            *)
CountedOK ==
    \A f \in output_files :
        /\ f[1] \in Wuids /\ f \in wus[f[1]].files /\ f[2] # CORRUPT
        /\ get_exitcode(f[1], 0) = 0
        /\ wus[f[1]].status \in Countable

(* The work-unit in the driver's hands.                                    *)
Handling  == {"failed", "add_rels", "add_file", "verify", "verify_range", "verify_row"}
Replacing == {"resubmit", "recreate"}
JobInv ==
    /\ pc \in Handling \cup Replacing \cup {"cancel", "unclaimed"} => job \in Jobs
    /\ pc \in Handling =>
          /\ wus[job.wu].status \in Received
          /\ job.error => ~job.ok
          /\ Counted(job.wu) => job.ok
    /\ pc \in {"add_rels", "add_file"} =>
          /\ job.ok /\ wus[job.wu].files # {}
          /\ \A f \in wus[job.wu].files : f[2] # CORRUPT
          /\ get_exitcode(job.wu, 0) = 0
    /\ pc \in {"cancel", "unclaimed"} => ~Counted(job.wu)
    /\ pc = "cancel" => ~job.error
    /\ pc \in Replacing => wus[job.wu].status \in Dead

(* The timed-out work-units still to be handled have not been counted.     *)
TodoInv ==
    /\ \A w \in todo : ~Counted(w)
    /\ todo # {} => \/ pc \in {"next", "cancel"} \cup Stopped
                    \/ pc \in Replacing /\ ~job.error

(* Only wait() looks for timeouts, and it goes back to its caller.         *)
CallerInv ==
    (pc \in {"timeouts", "next", "cancel"} \/ (pc \in Replacing /\ ~job.error)) =>
        caller \in {"submit", "drain"}

(* The strengthening of the three properties that every step preserves.    *)
IInv ==
    TypeOK /\ PastDead /\ OwnFile /\ CountedOK /\ JobInv /\ TodoInv /\ CallerInv

-----------------------------------------------------------------------------
(***************************************************************************)
(* The counting properties are about an Undisturbed driver.  RInv is what  *)
(* every step of it preserves, with IInv, as long as it is undisturbed.    *)
(***************************************************************************)
(* submit_command() has been called for the range qnext.                   *)
Waiting  == {"result", "timeouts", "next", "cancel"} \cup Handling \cup Replacing
InSubmit == \/ pc \in {"submit", "count", "create", "advance"}
            \/ pc \in Waiting /\ caller \in {"submit", "once"}

(* The ranges that have rows are those before qnext.                       *)
RangesInv ==
    /\ qnext <= qmax /\ (InSubmit => qnext < qmax)
    /\ \A w \in Rows : w[1] < qnext \/ (w[1] = qnext /\ pc = "advance")
    /\ pc = "advance" => <<qnext, 1>> \in Rows \/ enough_work_received

(* The ranges that were skipped.                                           *)
Skipped == {q \in Ranges : q < qnext /\ <<q, 1>> \notin Rows}
SkippedInv ==
    /\ Cardinality(Skipped) <= requests + 1
    /\ InSubmit \/ ~enough_work_received => Cardinality(Skipped) <= requests

(* What a result says of its work-unit.                                    *)
AnswersInv ==
    /\ \A w \in Wuids : wus[w].status \in Received => wus[w].files # {}
    /\ pc \notin {"unclaimed", "down"} /\ restarts = 0

(* The work-unit in hand: what is being cancelled is open, what is being   *)
(* replaced has no successor yet.                                          *)
HandInv ==
    /\ \A w \in todo : wus[w].status \in Open
    /\ pc = "cancel" => wus[job.wu].status \in Open
    /\ pc \in Handling => (get_exitcode(job.wu, 0) # 0 => job.error)
    /\ pc \in Replacing =>
          /\ wus[job.wu].status = IF job.error THEN "VERIFIED_ERROR" ELSE "CANCELLED"
          /\ NextAttempt \notin Rows
    /\ pc = "recreate" => NextAttempt \in Wuids
    /\ pc \in {"cancel"} \cup Replacing => job.wu \notin todo

(* What was settled without success has a successor, or gets one now.      *)
Succeeded(q, a) == <<q, a + 1>> \in Rows \/ (pc \in Replacing /\ job.wu = <<q, a>>)

SuccessorsInv ==
    \A q \in Ranges : \A a \in Attempts :
        /\ wus[<<q, a>>].status = "CANCELLED" /\ a < maxresubmit =>
              Succeeded(q, a) \/ pc \in Stopped \cup {"done"}
        /\ /\ wus[<<q, a>>].status = "VERIFIED_ERROR"
           /\ get_exitcode(<<q, a>>, 0) # 0 /\ a < maxwuerror
           => Succeeded(q, a) \/ pc \in Stopped

(* The counters and the table.                                             *)
OutstandingInv ==
    pc # "done" =>
        get_number_outstanding_wus =
            Cardinality({w \in Wuids : wus[w].status \in Open}) + InHand

RInv == RangesInv /\ SkippedInv /\ AnswersInv /\ HandInv /\ SuccessorsInv /\ OutstandingInv

-----------------------------------------------------------------------------
(***************************************************************************)
(* A file that counts was settled, or is being settled: so no result is    *)
(* counted when it is added.  A driver that is killed in between counts it *)
(* again, so this holds of a driver that is not killed.                    *)
(***************************************************************************)
Verifying == {"verify", "verify_range", "verify_row"}

CountedOnceInv ==
    \A f \in output_files :
        wus[f[1]].status \in Received =>
            pc \in Stopped \/ (pc \in Verifying /\ job.wu = f[1])

RelsInv ==
    rels_found = Relations(output_files)
                 + (IF pc = "add_file" THEN Output(job.wu)[2] ELSE 0)

SumInv == RelsInv /\ CountedOnceInv /\ IsFiniteSet(output_files)
=============================================================================
