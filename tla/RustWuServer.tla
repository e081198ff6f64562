---------------------------- MODULE RustWuServer ----------------------------
(***************************************************************************)
(* rust/cado-wu-server/src/main.rs in the place of api_server.py: a second *)
(* process that serves the same SQLite file as the Python driver (here     *)
(* SievingTask).  It is not class WuAccess: it has its own SQL, and no     *)
(* transaction around a handler, so the driver and other requests work on  *)
(* the table between two statements of a handler; the handlers run on      *)
(* several threads and share the upload directory without a lock.  What a  *)
(* second write changes in a saved file is not modelled: attempts at a     *)
(* range find the same relations.                                          *)
(***************************************************************************)
EXTENDS SievingTask

CONSTANT MaxEvents   \* bound: reclaims and statements that fail, together

ASSUME EventsAssumption == MaxEvents \in Nat /\ IsFiniteSet(Clients)

VARIABLES selected,    \* per client: the row its /workunit handler read, or NONE
          held,        \* the work-units each client was handed and has not delivered
          post,        \* per client: its /upload request in progress, or NONE
          uploaded,    \* the ranges that have a file in the upload directory
          reclaims,    \* work-units the background task took back
          busy         \* statements that failed because the database was busy

rustvars == <<selected, held, post, uploaded, reclaims, busy>>
allvars  == <<vars, rustvars>>

RustInit ==
    /\ Init
    /\ selected = [c \in Clients |-> NONE]
    /\ held = [c \in Clients |-> {}]
    /\ post = [c \in Clients |-> NONE] /\ uploaded = {}
    /\ reclaims = 0 /\ busy = 0

-----------------------------------------------------------------------------
(* get_workunit(): SELECT an AVAILABLE row (the code takes the oldest; the *)
(* model any) ...                                                          *)
SelectWorkunit(c) ==
    /\ Serving /\ selected[c] = NONE
    /\ \E w \in WithStatus("AVAILABLE") : selected' = [selected EXCEPT ![c] = w]
    /\ UNCHANGED <<vars, held, post, uploaded, reclaims, busy>>

(* ... then UPDATE it WHERE status is still AVAILABLE: one row changed and *)
(* the client gets the work-unit, or none and the answer is 404.           *)
(* Mutant: UPDATE without the condition on the status.                     *)
UpdateWorkunit_AnyStatus(c) ==
    /\ selected[c] # NONE
    /\ wus' = [wus EXCEPT ![selected[c]] = AssignedRow(wus[selected[c]], c)]
    /\ held' = [held EXCEPT ![c] = @ \cup {selected[c]}]
    /\ selected' = [selected EXCEPT ![c] = NONE]
    /\ UNCHANGED <<taskvars, sievevars, post, uploaded, reclaims, busy>>

UpdateWorkunit(c) ==
    /\ selected[c] # NONE
    /\ LET w == selected[c] IN
       \/ /\ wus[w].status = "AVAILABLE"
          /\ wus' = [wus EXCEPT ![w] = AssignedRow(wus[w], c)]
          /\ held' = [held EXCEPT ![c] = @ \cup {w}]
       \/ wus[w].status # "AVAILABLE" /\ UNCHANGED <<wus, held>>
    /\ selected' = [selected EXCEPT ![c] = NONE]
    /\ UNCHANGED <<taskvars, sievevars, post, uploaded, reclaims, busy>>

-----------------------------------------------------------------------------
(* upload() is a request of its own: a client has one at a time, but those *)
(* of several clients run side by side.  A client posts again what was     *)
(* refused or cut off.                                                     *)
Request(w, a, at) == [wu |-> w, answer |-> a, at |-> at]
At(c, place)      == post[c] # NONE /\ post[c].at = place
Continue(c, at)   == post' = [post EXCEPT ![c] = Request(@.wu, @.answer, at)]
Finish(c)         == post' = [post EXCEPT ![c] = NONE]

PostResult(c, w) ==
    /\ ServerUp /\ w \in held[c] /\ post[c] = NONE
    /\ \E a \in Answers :
         post' = [post EXCEPT ![c] = Request(w, a, IF a.output = NONE THEN "update" ELSE "exists")]
    /\ UNCHANGED <<vars, selected, held, reclaims, uploaded, busy>>

(* dest.exists(): refused (403) when the upload directory holds a file of  *)
(* that name, which all attempts of a range share.                         *)
CheckExists(c) ==
    /\ At(c, "exists")
    /\ IF post[c].wu[1] \in uploaded THEN Finish(c) ELSE Continue(c, "write")
    /\ UNCHANGED <<vars, selected, held, reclaims, uploaded, busy>>

(* fs::write(): also over a file that another request wrote meanwhile.     *)
WriteFile(c) ==
    /\ At(c, "write")
    /\ uploaded' = uploaded \cup {post[c].wu[1]}
    /\ Continue(c, "insert")
    /\ UNCHANGED <<vars, selected, held, reclaims, busy>>

(* record_result(): INSERT INTO files.  A path that is in the table        *)
(* violates UNIQUE; the error is ignored.                                  *)
(* Mutant: the column is not UNIQUE.                                       *)
PathIsNew_NotUnique(w) == TRUE

PathIsNew(w) == \A a \in Attempts : wus[<<w[1], a>>].files = {}

(* A statement that finds the database busy for all of busy_timeout fails, *)
(* and that error is ignored too.                                          *)
Busy == reclaims + busy < MaxEvents /\ busy' = busy + 1 /\ UNCHANGED wus

InsertFile(c) ==
    /\ At(c, "insert")
    /\ LET w == post[c].wu IN
       \/ /\ PathIsNew(w)
          /\ wus' = [wus EXCEPT ![w].files = @ \cup {<<w, post[c].answer.output>>}]
          /\ UNCHANGED busy
       \/ ~PathIsNew(w) /\ UNCHANGED <<wus, busy>>
       \/ Busy
    /\ Continue(c, "update")
    /\ UNCHANGED <<taskvars, sievevars, selected, held, reclaims, uploaded>>

(* ... then the row, whatever its status, which only gets a warning;       *)
(* failedcommand is not stored.  The client gets a 200, also when the      *)
(* database is busy and the row stays as it is.                            *)
ReceivedRow(r, c, e) ==
    [r EXCEPT !.status = IF e = NONE THEN "RECEIVED_OK" ELSE "RECEIVED_ERROR",
              !.resultclient = c, !.errorcode = e]

UpdateResult(c) ==
    /\ At(c, "update")
    /\ LET w == post[c].wu IN
       /\ \/ /\ wus' = [wus EXCEPT ![w] = ReceivedRow(@, c, post[c].answer.errorcode)]
             /\ UNCHANGED busy
          \/ Busy
       /\ held' = [held EXCEPT ![c] = @ \ {w}]
    /\ Finish(c)
    /\ UNCHANGED <<taskvars, sievevars, selected, reclaims, uploaded>>

(* The request ends early, before or after it saved its file: the body     *)
(* does not come to its end (400), the file cannot be saved (500), or the  *)
(* database is busy (500, 503).                                            *)
AbortUpload(c) ==
    /\ At(c, "exists") \/ At(c, "write") \/ At(c, "insert")
    /\ Finish(c)
    /\ UNCHANGED <<vars, selected, held, reclaims, uploaded, busy>>

(* The background task: a row assigned too long ago goes back to AVAILABLE. *)
Reclaim ==
    /\ reclaims + busy < MaxEvents /\ ServerUp
    /\ \E w \in WithStatus("ASSIGNED") :
         wus' = [wus EXCEPT ![w].status = "AVAILABLE", ![w].assignedclient = NONE]
    /\ reclaims' = reclaims + 1
    /\ UNCHANGED <<taskvars, sievevars, selected, held, post, uploaded, busy>>

-----------------------------------------------------------------------------
RustNext ==
    \/ (Driver \/ GiveUp \/ RequestMoreRelations \/ HaveEnoughRelations)
          /\ UNCHANGED rustvars
    \/ \E c \in Clients : SelectWorkunit(c) \/ UpdateWorkunit(c)
    \/ \E c \in Clients, w \in Wuids : PostResult(c, w)
    \/ \E c \in Clients : CheckExists(c) \/ WriteFile(c) \/ InsertFile(c) \/ UpdateResult(c)
                         \/ AbortUpload(c)
    \/ Reclaim

RustSpec == RustInit /\ [][RustNext]_allvars

-----------------------------------------------------------------------------
(* Two clients that ask at the same time are not handed the same           *)
(* work-unit: only a work-unit the background task took back is handed out *)
(* a second time.                                                          *)
HandedOutOnce ==
    \A w \in Wuids : Cardinality({c \in Clients : w \in held[c]}) <= 1 + reclaims
=============================================================================
