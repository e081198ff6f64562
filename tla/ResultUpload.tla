---------------------------- MODULE ResultUpload ----------------------------
(***************************************************************************)
(* How a result travels from cado-nfs-client.py (WorkunitClient,           *)
(* ResultUploader) through api_upload_file() of api_server.py into the     *)
(* upload directory and the work-unit table, while connections break, the  *)
(* server process is killed and the driver times work-units out.           *)
(*                                                                         *)
(* The server runs one thread per request; it saves the file before it     *)
(* looks at the table.  All attempts at a range upload a file of the same  *)
(* name (resubmit_one_wu() only changes the id of the work-unit), into the *)
(* next of nrsubdir directories, or always into the same one when nrsubdir *)
(* is 0.                                                                   *)
(***************************************************************************)
EXTENDS WuAccess, Integers, Sequences

CONSTANTS Ranges, maxresubmit,
          nrsubdir,      \* server parameter: number of upload directories
          MaxFaults,     \* bound: broken connections, lost work-units and server crashes
          MaxTimeouts    \* bound: work-units found timed out

Attempts == 1 .. maxresubmit
Dirs == 0 .. (IF nrsubdir = 0 THEN 0 ELSE nrsubdir - 1)

ASSUME UploadAssumption ==
    /\ Wuids = Ranges \X Attempts /\ Paths = Dirs \X Ranges
    /\ nrsubdir \in Nat /\ maxresubmit \in Nat \ {0}
    /\ MaxFaults \in Nat /\ MaxTimeouts \in Nat

VARIABLES
    disk,     \* what the upload directories hold: "none", "data" or "empty"
    cycle,    \* upload_cycle, modulo the number of directories
    threads,  \* requests being handled
    client,   \* per client: what WorkunitClient and ResultUploader hold
    spent,    \* answers whose file handles were read to the end by a POST
    settled,  \* answers the server acknowledged with 200
    lost,     \* history: work-units assigned to a client that did not get to run them
    todo,     \* timed-out work-units the driver is about to cancel
    faults, timeouts

vars == <<wus, disk, cycle, threads, client, spent, settled, lost, todo, faults, timeouts>>

(* phase: "idle" (asking for work), "run", "post" (about to POST old[at]), *)
(* "wait" (for the response) or "failed".  old and new are the backlog     *)
(* before and after the current process_uploads(), which is at old[at].    *)
ClientRec == [phase : {"idle", "run", "post", "wait", "failed"},
              wu : Wuids \cup {NONE},
              old : Seq(Wuids), at : Nat \ {0}, new : Seq(Wuids),
              backlog_size : Nat]

Current(c) == client[c].old[client[c].at]
More(c)    == client[c].at <= Len(client[c].old)

Init ==
    /\ wus = [w \in Wuids |-> IF w[2] = 1
                THEN NewRow ELSE NoRow]
    /\ disk = [p \in Paths |-> "none"]
    /\ cycle = 0 /\ threads = {} /\ spent = {} /\ settled = {} /\ lost = {} /\ todo = {}
    /\ client = [c \in Clients |-> [phase |-> "idle", wu |-> NONE, old |-> <<>>,
                                    at |-> 1, new |-> <<>>, backlog_size |-> 0]]
    /\ faults = 0 /\ timeouts = 0

-----------------------------------------------------------------------------
(* get_wu_full(), run_commands(), schedule_upload(); then process_uploads() *)
(* goes through the whole backlog.                                         *)
FetchWu(c) ==
    /\ client[c].phase = "idle"
    /\ \E w \in WithStatus("AVAILABLE") :
         /\ wus' = [wus EXCEPT ![w] = AssignedRow(wus[w], c)]
         /\ client' = [client EXCEPT ![c].phase = "run", ![c].wu = w]
    /\ UNCHANGED <<disk, cycle, threads, spent, settled, lost, todo, faults, timeouts>>

(* The row is assigned and the client does not get to run it: the answer   *)
(* to its GET is lost, or get_files() meets a wrong checksum twice and the *)
(* work-unit is discarded.  The client asks for another one.               *)
LoseWu(c) ==
    /\ client[c].phase = "idle"
    /\ faults < MaxFaults /\ faults' = faults + 1
    /\ \E w \in WithStatus("AVAILABLE") :
         /\ wus' = [wus EXCEPT ![w] = AssignedRow(wus[w], c)]
         /\ lost' = lost \cup {w}
    /\ UNCHANGED <<disk, cycle, threads, client, spent, settled, todo, timeouts>>

RunCommands(c) ==
    /\ client[c].phase = "run"
    /\ client' = [client EXCEPT ![c].phase = "post", ![c].wu = NONE,
                     ![c].old = Append(@, client[c].wu),
                     ![c].backlog_size = @ + 1]
    /\ UNCHANGED <<wus, disk, cycle, threads, spent, settled, lost, todo, faults, timeouts>>

(* POST: the request carries what is left to read of the open files.       *)
Contents(w) == IF w \in spent THEN "empty" ELSE "data"

Post(c) ==
    /\ client[c].phase = "post" /\ More(c)
    /\ LET w == Current(c) IN
         /\ threads' = threads \cup
              {[wu |-> w, c |-> c, at |-> "check", path |-> NONE, data |-> Contents(w)]}
         /\ spent' = spent \cup {w}
    /\ client' = [client EXCEPT ![c].phase = "wait"]
    /\ UNCHANGED <<wus, disk, cycle, settled, lost, todo, faults, timeouts>>

(* The connection is refused or breaks; the request may have reached the   *)
(* server.                                                                 *)
ConnectionError(c) ==
    /\ faults < MaxFaults /\ faults' = faults + 1
    /\ \/ /\ client[c].phase = "post" /\ More(c)
          /\ spent' = spent \cup {Current(c)}
       \/ client[c].phase = "wait" /\ UNCHANGED spent
    /\ client' = [client EXCEPT ![c].phase = "failed"]
    /\ UNCHANGED <<wus, disk, cycle, threads, settled, lost, todo, timeouts>>

(* After a failed POST: sleep and retry, or give up on this upload for now. *)
Retry(c) ==
    /\ client[c].phase = "failed"
    /\ client' = [client EXCEPT ![c].phase = "post"]
    /\ UNCHANGED <<wus, disk, cycle, threads, spent, settled, lost, todo, faults, timeouts>>

(* Mutant: the upload is given up for good.                                *)
GiveUpUpload_Drops(c) ==
    /\ client[c].phase = "failed"
    /\ client' = [client EXCEPT ![c].phase = "post", ![c].at = @ + 1]
    /\ UNCHANGED <<wus, disk, cycle, threads, spent, settled, lost, todo, faults, timeouts>>

GiveUpUpload(c) ==
    /\ client[c].phase = "failed"
    /\ client' = [client EXCEPT ![c].phase = "post", ![c].at = @ + 1,
                     ![c].new = Append(@, Current(c))]
    /\ UNCHANGED <<wus, disk, cycle, threads, spent, settled, lost, todo, faults, timeouts>>

(* The end of process_uploads(): the uploads that failed are the backlog.  *)
EndUploads(c) ==
    /\ client[c].phase = "post" /\ ~More(c)
    /\ client' = [client EXCEPT ![c].phase = "idle",
                     ![c].old = client[c].new, ![c].at = 1, ![c].new = <<>>,
                     ![c].backlog_size =
                         @ - (Len(client[c].old) - Len(client[c].new))]
    /\ UNCHANGED <<wus, disk, cycle, threads, spent, settled, lost, todo, faults, timeouts>>

-----------------------------------------------------------------------------
(* The answer to a request reaches the client if it still waits for it.    *)
Respond(t, ok) ==
    IF client[t.c].phase = "wait" /\ Current(t.c) = t.wu
      THEN IF ok
        THEN /\ client' = [client EXCEPT ![t.c].phase = "post", ![t.c].at = @ + 1]
             /\ settled' = settled \cup {t.wu}
        ELSE /\ client' = [client EXCEPT ![t.c].phase = "failed"]
             /\ UNCHANGED settled
      ELSE UNCHANGED <<client, settled>>

(* api_upload_file(): the next upload folder; 403 if it holds the file.    *)
(* upload_cycle is read and written without a lock: the increment is lost  *)
(* when another request does the same at the same time.                    *)
NextDir == (cycle + 1) % Cardinality(Dirs)

(* Mutants: an existing file is overwritten; it is answered with 200.      *)
CheckFile_Overwrites(t) ==
    /\ t.at = "check" /\ cycle' = NextDir
    /\ threads' = (threads \ {t}) \cup {[t EXCEPT !.at = "save", !.path = <<cycle, t.wu[1]>>]}
    /\ UNCHANGED <<client, settled, wus, disk, spent, lost, todo, faults, timeouts>>
CheckFile_SaysOk(t) ==
    /\ t.at = "check" /\ cycle' = NextDir
    /\ LET p == <<cycle, t.wu[1]>> IN
       \/ /\ disk[p] = "none"
          /\ threads' = (threads \ {t}) \cup {[t EXCEPT !.at = "save", !.path = p]}
          /\ UNCHANGED <<client, settled>>
       \/ /\ disk[p] # "none"
          /\ threads' = threads \ {t} /\ Respond(t, TRUE)
    /\ UNCHANGED <<wus, disk, spent, lost, todo, faults, timeouts>>

CheckFile(t) ==
    /\ t.at = "check"
    /\ \/ cycle' = NextDir
       \/ (\E u \in threads \ {t} : u.at = "check") /\ UNCHANGED cycle
    /\ LET p == <<cycle, t.wu[1]>> IN
       \/ /\ disk[p] = "none"
          /\ threads' = (threads \ {t}) \cup {[t EXCEPT !.at = "save", !.path = p]}
          /\ UNCHANGED <<client, settled>>
       \/ /\ disk[p] # "none"
          /\ threads' = threads \ {t} /\ Respond(t, FALSE)
    /\ UNCHANGED <<wus, disk, spent, lost, todo, faults, timeouts>>

SaveFile(t) ==
    /\ t.at = "save"
    /\ disk' = [disk EXCEPT ![t.path] = t.data]
    /\ threads' = (threads \ {t}) \cup {[t EXCEPT !.at = "record"]}
    /\ UNCHANGED <<wus, cycle, client, spent, settled, lost, todo, faults, timeouts>>

(* WuAccess.result(): recorded, or StatusUpdateError, which is answered    *)
(* with 200 all the same; a violation of UNIQUE(path) would be a 500.      *)
RecordResult(t) ==
    /\ t.at = "record" /\ threads' = threads \ {t}
    /\ \/ result(t.wu, t.c, {t.path}, NONE, NONE) /\ Respond(t, TRUE)
       \/ wus[t.wu].status # "ASSIGNED" /\ Respond(t, TRUE) /\ UNCHANGED wus
       \/ /\ wus[t.wu].status = "ASSIGNED" /\ ~CanResult(t.wu, {t.path})
          /\ Respond(t, FALSE) /\ UNCHANGED wus
    /\ UNCHANGED <<disk, cycle, spent, lost, todo, faults, timeouts>>

(* The server process is killed and started again.                         *)
ServerCrash ==
    /\ faults < MaxFaults /\ faults' = faults + 1
    /\ threads' = {} /\ todo' = {} /\ cycle' = 0
    /\ client' = [c \in Clients |-> IF client[c].phase = "wait"
                    THEN [client[c] EXCEPT !.phase = "failed"] ELSE client[c]]
    /\ UNCHANGED <<wus, disk, spent, settled, lost, timeouts>>

-----------------------------------------------------------------------------
(* The driver, seen from the table (ClientServerTask has the details): it  *)
(* finds a work-unit timed out, cancels it -- whatever its status is by    *)
(* then -- and creates the next attempt.                                   *)
TimedOut(w) ==
    /\ wus[w].status = "ASSIGNED" /\ w \notin todo /\ timeouts < MaxTimeouts
    /\ todo' = todo \cup {w} /\ timeouts' = timeouts + 1
    /\ UNCHANGED <<wus, disk, cycle, threads, client, spent, settled, lost, faults>>

CancelAndResubmit(w) ==
    /\ w \in todo /\ todo' = todo \ {w}
    /\ wus' = [v \in Wuids |->
                 IF v = w THEN StatusRow(wus[v], "CANCELLED")
                 ELSE IF v = <<w[1], w[2] + 1>>
                   THEN NewRow ELSE wus[v]]
    /\ UNCHANGED <<disk, cycle, threads, client, spent, settled, lost, faults, timeouts>>

Next ==
    \/ \E c \in Clients : FetchWu(c) \/ LoseWu(c) \/ RunCommands(c) \/ Post(c)
                          \/ ConnectionError(c) \/ Retry(c) \/ GiveUpUpload(c)
                          \/ EndUploads(c)
    \/ \E t \in threads : CheckFile(t) \/ SaveFile(t) \/ RecordResult(t)
    \/ ServerCrash
    \/ \E w \in Wuids : TimedOut(w) \/ CancelAndResubmit(w)

Spec == Init /\ [][Next]_vars

-----------------------------------------------------------------------------
(* Type invariant of the upload path.                                      *)
UploadTypeOK ==
    /\ WuTypeOK
    /\ disk \in [Paths -> {"none", "data", "empty"}] /\ cycle \in Dirs
    /\ threads \subseteq [wu : Wuids, c : Clients, at : {"check", "save", "record"},
                          path : Paths \cup {NONE}, data : {"data", "empty"}]
    /\ client \in [Clients -> ClientRec]
    /\ spent \subseteq Wuids /\ settled \subseteq Wuids /\ lost \subseteq Wuids /\ todo \subseteq Wuids

(* Recording a result never violates UNIQUE(files.path): although threads  *)
(* check for the file and save it without a lock, and although timed-out   *)
(* attempts upload under the same name, no accepted result meets a path    *)
(* that an earlier one has in the table.                                   *)
NoPathClash ==
    \A t \in threads :
        t.at = "record" /\ wus[t.wu].status = "ASSIGNED" => CanResult(t.wu, {t.path})

(* What the server acknowledged is settled: the work-unit has the result   *)
(* or was cancelled -- it is not left to time out.                         *)
AcknowledgedIsSettled == \A w \in settled : wus[w].status # "ASSIGNED"

InBacklog(c) == {client[c].old[i] : i \in client[c].at .. Len(client[c].old)}
                   \cup {client[c].new[i] : i \in DOMAIN client[c].new}

(* A client drops no result: each work-unit it was given, but for those it *)
(* never got to run, is being computed, in its backlog, or acknowledged;   *)
(* and backlog_size, which decides whether process_uploads() does          *)
(* anything, is the length of the backlog whenever process_uploads()       *)
(* begins or ends.                                                         *)
NoResultDropped ==
    /\ UploadTypeOK
    /\ \A c \in Clients : client[c].phase \in {"idle", "run"} =>
        client[c].backlog_size = Len(client[c].old) /\ client[c].new = <<>>
    /\ \A w \in Wuids : wus[w].assignedclient # NONE /\ w \notin lost =>
        LET c == wus[w].assignedclient IN
            client[c].wu = w \/ w \in InBacklog(c) \/ w \in settled
=============================================================================
