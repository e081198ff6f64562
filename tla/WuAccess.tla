------------------------------ MODULE WuAccess ------------------------------
(***************************************************************************)
(* The work-unit table of scripts/cadofactor/wudb.py: one row per          *)
(* work-unit, with the rows of the `files' table that refer to it.  Every  *)
(* method of class WuAccess runs in one EXCLUSIVE SQLite transaction (the  *)
(* `commit' argument is ignored), so every method is one atomic action.    *)
(* The callers -- the driver, the HTTP server, the operator's command line *)
(* -- may call the methods in any order; Spec allows them all.             *)
(***************************************************************************)
EXTENDS Naturals, FiniteSets

CONSTANTS Wuids,       \* names a work-unit can have (UNIQUE in the table)
          Clients,     \* client ids
          ErrorCodes,  \* non-zero exit codes a client can report
          Commands,    \* command numbers a client can report as failed
          Paths,       \* places in the upload directory (UNIQUE in `files')
          NONE         \* SQL NULL

ASSUME NoneAssumption ==
    /\ NONE \notin Clients \cup ErrorCodes \cup Commands
    /\ 0 \notin ErrorCodes

VARIABLE wus

-----------------------------------------------------------------------------
(* STATUS_NAMES; "ABSENT" stands for a name that has no row.               *)
WuStatus == {"AVAILABLE", "ASSIGNED", "NEED_RESUBMIT", "RECEIVED_OK",
             "RECEIVED_ERROR", "VERIFIED_OK", "VERIFIED_ERROR", "CANCELLED"}
Received == {"RECEIVED_OK", "RECEIVED_ERROR"}

(* A row of `workunits' and the paths of its rows in `files'.              *)
Row == [status         : WuStatus \cup {"ABSENT"},
        assignedclient : Clients \cup {NONE},
        resultclient   : Clients \cup {NONE},
        errorcode      : ErrorCodes \cup {NONE},
        failedcommand  : Commands \cup {NONE},
        files          : SUBSET Paths]

BlankRow(s) == [status |-> s, assignedclient |-> NONE, resultclient |-> NONE,
                errorcode |-> NONE, failedcommand |-> NONE, files |-> {}]
NoRow  == BlankRow("ABSENT")
NewRow == BlankRow("AVAILABLE")

Rows == {w \in Wuids : wus[w].status # "ABSENT"}

(* query(eq={"status": ...}) and count_available().                        *)
WithStatus(s)   == {w \in Wuids : wus[w].status = s}
count_available == Cardinality(WithStatus("AVAILABLE"))

WuInit == wus = [w \in Wuids |-> NoRow]

(* set_status(status, **conditions): UPDATE ... WHERE, whatever the        *)
(* statuses the selected rows have.                                        *)
StatusRow(r, s) ==
    [status |-> s, assignedclient |-> r.assignedclient, resultclient |-> r.resultclient,
     errorcode |-> r.errorcode, failedcommand |-> r.failedcommand, files |-> r.files]

set_status(s, S) ==
    wus' = [w \in Wuids |-> IF w \in S /\ wus[w].status # "ABSENT"
                              THEN StatusRow(wus[w], s) ELSE wus[w]]

-----------------------------------------------------------------------------
(* create(wu): INSERT; a second row of the same wuid violates UNIQUE.      *)
CanCreate(w) == wus[w].status = "ABSENT"

create(w) ==
    /\ CanCreate(w)
    /\ wus' = [wus EXCEPT ![w] = NewRow]

(* assign(clientid): SELECT ... WHERE status=AVAILABLE LIMIT 1, which fixes *)
(* no order, then the UPDATE of that row.                                  *)
AssignedRow(r, c) ==
    [status |-> "ASSIGNED", assignedclient |-> c, resultclient |-> r.resultclient,
     errorcode |-> r.errorcode, failedcommand |-> r.failedcommand, files |-> r.files]

(* Mutant: hands out expired work-units too.                               *)
assign_Expired(c) ==
    \E w \in WithStatus("AVAILABLE") \cup WithStatus("NEED_RESUBMIT") :
        wus' = [wus EXCEPT ![w] = AssignedRow(wus[w], c)]

assign(c) ==
    \E w \in WithStatus("AVAILABLE") :
        wus' = [wus EXCEPT ![w] = AssignedRow(wus[w], c)]

(* result(wuid, clientid, files, errorcode, failedcommand).  Any client    *)
(* may answer for any ASSIGNED row; a row with another status raises       *)
(* StatusUpdateError, a path that is already in `files' violates UNIQUE:   *)
(* both roll the transaction back.                                         *)
(* Mutant: without the check of the status.                                *)
CanResult_AnyStatus(w, F) == w \in Rows /\ \A v \in Wuids : wus[v].files \cap F = {}

CanResult(w, F) ==
    /\ wus[w].status = "ASSIGNED"
    /\ \A v \in Wuids : wus[v].files \cap F = {}

(* Mutant: every result is RECEIVED_OK.                                    *)
ResultRow_AlwaysOk(r, c, F, e, f) ==
    [status |-> "RECEIVED_OK", assignedclient |-> r.assignedclient, resultclient |-> c,
     errorcode |-> e, failedcommand |-> f, files |-> r.files \cup F]

ResultRow(r, c, F, e, f) ==
    [status |-> IF e = NONE THEN "RECEIVED_OK" ELSE "RECEIVED_ERROR",
     assignedclient |-> r.assignedclient, resultclient |-> c,
     errorcode |-> e, failedcommand |-> f, files |-> r.files \cup F]

result(w, c, F, e, f) ==
    /\ CanResult(w, F)
    /\ wus' = [wus EXCEPT ![w] = ResultRow(wus[w], c, F, e, f)]

(* verification(wuid, ok): only from RECEIVED_OK or RECEIVED_ERROR.        *)
verification(w, ok) ==
    /\ wus[w].status \in Received
    /\ wus' = [wus EXCEPT ![w] =
                 StatusRow(wus[w], IF ok THEN "VERIFIED_OK" ELSE "VERIFIED_ERROR")]

(* cancel(wuid), cancel_all_available(), cancel_all_assigned(), and the    *)
(* -expire option of the command line.  None looks at the old status       *)
(* beyond its WHERE clause.                                                *)
cancel(w)            == w \in Rows /\ set_status("CANCELLED", {w})
cancel_all_available == set_status("CANCELLED", WithStatus("AVAILABLE"))
cancel_all_assigned  == set_status("CANCELLED", WithStatus("ASSIGNED"))
expire(w)            == w \in Rows /\ set_status("NEED_RESUBMIT", {w})

(* get_one_result(): a row RECEIVED_OK if there is one, else one           *)
(* RECEIVED_ERROR.  A query: changes nothing.                              *)
get_one_result ==
    IF WithStatus("RECEIVED_OK") # {} THEN WithStatus("RECEIVED_OK")
                                      ELSE WithStatus("RECEIVED_ERROR")

(* ResultInfo.get_exitcode(command_nr).                                    *)
get_exitcode(w, n) ==
    IF wus[w].failedcommand = n THEN wus[w].errorcode ELSE 0

-----------------------------------------------------------------------------
WuNext ==
    \/ \E w \in Wuids : create(w)
    \/ \E c \in Clients : assign(c)
    \/ \E w \in Wuids, c \in Clients, F \in SUBSET Paths,
          e \in ErrorCodes \cup {NONE}, f \in Commands \cup {NONE} :
          /\ (e = NONE) => (f = NONE)
          /\ result(w, c, F, e, f)
    \/ \E w \in Wuids, ok \in BOOLEAN : verification(w, ok)
    \/ \E w \in Wuids : cancel(w) \/ expire(w)
    \/ cancel_all_available
    \/ cancel_all_assigned

WuSpec == WuInit /\ [][WuNext]_wus

-----------------------------------------------------------------------------
(* Type invariant: every row is a row of the schema.                       *)
WuTypeOK == wus \in [Wuids -> Row]

(* What WuAccess.check() asserts of a row, and that it may assert it after *)
(* every method: an error code only with RECEIVED_ERROR (and never with    *)
(* RECEIVED_OK), no result before one was received, no client before       *)
(* assignment.                                                             *)
check ==
    \A w \in Wuids :
        /\ wus[w].status = "RECEIVED_ERROR" => wus[w].errorcode # NONE
        /\ wus[w].status = "RECEIVED_OK" => wus[w].errorcode = NONE
        /\ wus[w].status \in {"AVAILABLE", "ASSIGNED"} =>
              wus[w].errorcode = NONE /\ wus[w].resultclient = NONE
        /\ wus[w].status = "AVAILABLE" => wus[w].assignedclient = NONE

(* Each stored file belongs to one work-unit, which has a result: a lost,  *)
(* repeated or late upload never leaves a file in `files' that belongs to  *)
(* a work-unit without result or to two of them.                           *)
FilesOfOneResult ==
    \A w \in Wuids :
        wus[w].files # {} =>
            /\ wus[w].resultclient # NONE
            /\ \A v \in Wuids \ {w} : wus[v].files \cap wus[w].files = {}

(* The first accepted result stays: no later upload, by the same or        *)
(* another client, changes who delivered it, its exit code or its files.   *)
ResultIsFinal ==
    [][\A w \in Wuids :
          wus[w].resultclient # NONE =>
              /\ wus'[w].resultclient = wus[w].resultclient
              /\ wus'[w].errorcode = wus[w].errorcode
              /\ wus'[w].failedcommand = wus[w].failedcommand
              /\ wus'[w].files = wus[w].files]_wus

(* A work-unit that was cancelled or expired is never handed out again and *)
(* never receives a result: its range is only computed again under a new   *)
(* name.                                                                   *)
NoRevival ==
    [][\A w \in Wuids :
          wus[w].status \in {"CANCELLED", "NEED_RESUBMIT"} =>
              wus'[w].status \in {"CANCELLED", "NEED_RESUBMIT"}]_wus
=============================================================================
