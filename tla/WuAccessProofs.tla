--------------------------- MODULE WuAccessProofs ---------------------------
(***************************************************************************)
(* Proofs about the work-unit table: of wudb.py, the methods called in any *)
(* order, and of the Rust server beside the driver; for any number of      *)
(* work-units, clients and files.                                          *)
(***************************************************************************)
EXTENDS RustWuServer, FiniteSetTheorems, TLAPS

(* Type correctness is inductive on its own: a row is only ever replaced   *)
(* by a row.                                                               *)
LEMMA WuTypeStep == WuTypeOK /\ [WuNext]_wus => WuTypeOK'
<1> USE DEF WuTypeOK, Row, NoRow, NewRow, BlankRow, StatusRow, WuStatus, Received
<1> SUFFICES ASSUME WuTypeOK, [WuNext]_wus PROVE WuTypeOK'
    OBVIOUS
<1>1. ASSUME NEW w \in Wuids, create(w) PROVE WuTypeOK'
  BY <1>1 DEF create
<1>2. ASSUME NEW c \in Clients, assign(c) PROVE WuTypeOK'
  BY <1>2 DEF assign, AssignedRow, WithStatus
<1>3. ASSUME NEW w \in Wuids, NEW c \in Clients, NEW F \in SUBSET Paths,
             NEW e \in ErrorCodes \cup {NONE}, NEW f \in Commands \cup {NONE},
             result(w, c, F, e, f)
      PROVE  WuTypeOK'
  BY <1>3 DEF result, ResultRow
<1>4. ASSUME NEW w \in Wuids, NEW ok \in BOOLEAN, verification(w, ok)
      PROVE  WuTypeOK'
  BY <1>4 DEF verification
<1>5. ASSUME NEW s \in WuStatus, NEW S \in SUBSET Wuids, set_status(s, S)
      PROVE  WuTypeOK'
  BY <1>5 DEF set_status
<1>6. CASE UNCHANGED wus
  BY <1>6
<1>7. ASSUME NEW w \in Wuids, cancel(w) \/ expire(w) PROVE WuTypeOK'
  BY <1>5, <1>7 DEF cancel, expire
<1>8. CASE cancel_all_available \/ cancel_all_assigned
  BY <1>5, <1>8 DEF cancel_all_available, cancel_all_assigned, WithStatus
<1> QED
  BY <1>1, <1>2, <1>3, <1>4, <1>6, <1>7, <1>8 DEF WuNext

(* Every row is always a row of the schema.                                *)
THEOREM WuTypeCorrect == WuSpec => []WuTypeOK
<1>1. WuInit => WuTypeOK
  BY DEF WuInit, WuTypeOK, Row, NoRow, BlankRow
<1> QED
  BY <1>1, WuTypeStep, PTL DEF WuSpec

-----------------------------------------------------------------------------
(* A name without a row carries no data.  With the type invariant and the  *)
(* two properties themselves this is inductive.                            *)
Blank == \A w \in Wuids : wus[w].status = "ABSENT" => wus[w] = NoRow

WuInv == WuTypeOK /\ check /\ FilesOfOneResult /\ Blank

LEMMA WuInvInit == WuInit => WuInv
  BY DEF WuInit, WuInv, WuTypeOK, check, FilesOfOneResult, Blank, Row, NoRow, BlankRow

(* Every method preserves the invariant, whatever row it is applied to.    *)
LEMMA WuInvStep == WuInv /\ [WuNext]_wus => WuInv'
<1> SUFFICES ASSUME WuInv, [WuNext]_wus PROVE check' /\ FilesOfOneResult' /\ Blank'
    BY WuTypeStep DEF WuInv
<1> USE NoneAssumption
    DEF WuInv, WuTypeOK, Row, NoRow, NewRow, BlankRow, StatusRow, WuStatus, check, FilesOfOneResult, Blank
<1>1. ASSUME NEW w \in Wuids, create(w)
      PROVE  check' /\ FilesOfOneResult' /\ Blank'
  BY <1>1 DEF create, CanCreate
<1>2. ASSUME NEW c \in Clients, assign(c)
      PROVE  check' /\ FilesOfOneResult' /\ Blank'
  BY <1>2 DEF assign, AssignedRow, WithStatus
<1>3. ASSUME NEW w \in Wuids, NEW c \in Clients, NEW F \in SUBSET Paths,
             NEW e \in ErrorCodes \cup {NONE}, NEW f \in Commands \cup {NONE},
             result(w, c, F, e, f)
      PROVE  check' /\ FilesOfOneResult' /\ Blank'
  <2>1. check' /\ Blank'
    BY <1>3 DEF result, ResultRow, CanResult
  <2>2. FilesOfOneResult'
    BY <1>3 DEF result, ResultRow, CanResult
  <2> QED
    BY <2>1, <2>2
<1>4. ASSUME NEW w \in Wuids, NEW ok \in BOOLEAN, verification(w, ok)
      PROVE  check' /\ FilesOfOneResult' /\ Blank'
  BY <1>4 DEF verification, Received
<1>5. ASSUME NEW s \in {"CANCELLED", "NEED_RESUBMIT"}, NEW S \in SUBSET Wuids,
             set_status(s, S)
      PROVE  check' /\ FilesOfOneResult' /\ Blank'
  BY <1>5 DEF set_status
<1>6. CASE UNCHANGED wus
  BY <1>6
<1>7. ASSUME NEW w \in Wuids, cancel(w) \/ expire(w)
      PROVE  check' /\ FilesOfOneResult' /\ Blank'
  BY <1>5, <1>7 DEF cancel, expire
<1>8. CASE cancel_all_available \/ cancel_all_assigned
  BY <1>5, <1>8 DEF cancel_all_available, cancel_all_assigned, WithStatus
<1> QED
  BY <1>1, <1>2, <1>3, <1>4, <1>6, <1>7, <1>8 DEF WuNext

(* What WuAccess.check() asserts of a row holds after every method.        *)
THEOREM CheckHolds == WuSpec => []check
<1>1. WuInv => check
  BY DEF WuInv
<1> QED
  BY <1>1, WuInvInit, WuInvStep, PTL DEF WuSpec

(* No file of the table belongs to two work-units, or to one that has no   *)
(* result.                                                                 *)
THEOREM FilesHaveOneOwner == WuSpec => []FilesOfOneResult
<1>1. WuInv => FilesOfOneResult
  BY DEF WuInv
<1> QED
  BY <1>1, WuInvInit, WuInvStep, PTL DEF WuSpec

-----------------------------------------------------------------------------
(* What a step may not do to a row that has a result.                      *)
Kept(w) ==
    /\ wus'[w].resultclient = wus[w].resultclient
    /\ wus'[w].errorcode = wus[w].errorcode
    /\ wus'[w].failedcommand = wus[w].failedcommand
    /\ wus'[w].files = wus[w].files

(* A step keeps each row's result: create() needs a name without row,      *)
(* result() an ASSIGNED row, and by check neither has a result.            *)
LEMMA ResultKept ==
    ASSUME WuInv, WuNext, NEW w \in Wuids, wus[w].resultclient # NONE
    PROVE  Kept(w)
<1> USE DEF WuInv, WuTypeOK, Row, NoRow, NewRow, BlankRow, StatusRow, WuStatus, Kept
<1>1. wus[w].status \notin {"ABSENT", "AVAILABLE", "ASSIGNED"}
  BY DEF check, Blank
<1>2. ASSUME NEW v \in Wuids, create(v) PROVE Kept(w)
  BY <1>1, <1>2 DEF create, CanCreate
<1>3. ASSUME NEW c \in Clients, assign(c) PROVE Kept(w)
  BY <1>1, <1>3 DEF assign, AssignedRow, WithStatus
<1>4. ASSUME NEW v \in Wuids, NEW c \in Clients, NEW F \in SUBSET Paths,
             NEW e \in ErrorCodes \cup {NONE}, NEW f \in Commands \cup {NONE},
             result(v, c, F, e, f)
      PROVE  Kept(w)
  BY <1>1, <1>4 DEF result, ResultRow, CanResult
<1>5. ASSUME NEW v \in Wuids, NEW ok \in BOOLEAN, verification(v, ok)
      PROVE  Kept(w)
  BY <1>5 DEF verification
<1>6. ASSUME NEW s, NEW S, set_status(s, S) PROVE Kept(w)
  BY <1>6 DEF set_status
<1> QED
  BY <1>2, <1>3, <1>4, <1>5, <1>6
  DEF WuNext, cancel, expire, cancel_all_available, cancel_all_assigned

(* The first accepted result of a work-unit stays: late and repeated       *)
(* uploads change nothing of it.                                           *)
THEOREM FirstResultStays == WuSpec => ResultIsFinal
<1>1. ASSUME WuInv, [WuNext]_wus
      PROVE  [\A w \in Wuids : wus[w].resultclient # NONE =>
                 /\ wus'[w].resultclient = wus[w].resultclient
                 /\ wus'[w].errorcode = wus[w].errorcode
                 /\ wus'[w].failedcommand = wus[w].failedcommand
                 /\ wus'[w].files = wus[w].files]_wus
  BY <1>1, ResultKept DEF Kept
<1> QED
  BY <1>1, WuInvInit, WuInvStep, PTL DEF WuSpec, ResultIsFinal

(* A cancelled or expired work-unit is never handed out again and never    *)
(* receives a result.                                                      *)
THEOREM CancelledStays == WuSpec => NoRevival
<1> DEFINE Gone(s) == s \in {"CANCELLED", "NEED_RESUBMIT"}
<1>1. ASSUME WuTypeOK, WuNext, NEW w \in Wuids, Gone(wus[w].status)
      PROVE  Gone(wus'[w].status)
  <2> USE <1>1 DEF WuTypeOK, Row, NoRow, NewRow, BlankRow, StatusRow, WuStatus
  <2>1. ASSUME NEW v \in Wuids, create(v) PROVE Gone(wus'[w].status)
    BY <2>1 DEF create, CanCreate
  <2>2. ASSUME NEW c \in Clients, assign(c) PROVE Gone(wus'[w].status)
    BY <2>2 DEF assign, AssignedRow, WithStatus
  <2>3. ASSUME NEW v \in Wuids, NEW c \in Clients, NEW F \in SUBSET Paths,
               NEW e \in ErrorCodes \cup {NONE}, NEW f \in Commands \cup {NONE},
               result(v, c, F, e, f)
        PROVE  Gone(wus'[w].status)
    BY <2>3 DEF result, ResultRow, CanResult
  <2>4. ASSUME NEW v \in Wuids, NEW ok \in BOOLEAN, verification(v, ok)
        PROVE  Gone(wus'[w].status)
    BY <2>4 DEF verification, Received
  <2>5. ASSUME NEW s \in {"CANCELLED", "NEED_RESUBMIT"}, NEW S, set_status(s, S)
        PROVE  Gone(wus'[w].status)
    BY <2>5 DEF set_status
  <2> QED
    BY <1>1, <2>1, <2>2, <2>3, <2>4, <2>5
    DEF WuNext, cancel, expire, cancel_all_available, cancel_all_assigned
<1>2. ASSUME WuInv, [WuNext]_wus
      PROVE  [\A w \in Wuids : wus[w].status \in {"CANCELLED", "NEED_RESUBMIT"} =>
                 wus'[w].status \in {"CANCELLED", "NEED_RESUBMIT"}]_wus
  BY <1>1, <1>2 DEF WuInv
<1> QED
  BY <1>2, WuInvInit, WuInvStep, PTL DEF WuSpec, NoRevival

-----------------------------------------------------------------------------
(***************************************************************************)
(* The Rust server.  Whatever the driver does between the SELECT and the   *)
(* UPDATE of get_workunit(), a row that left AVAILABLE comes back to it    *)
(* only through the background task; so a work-unit is in the hands of as  *)
(* many clients as it was taken back, and one more once it was handed out. *)
(***************************************************************************)
Holders(w) == {c \in Clients : w \in held[c]}
Fresh == {"ABSENT", "AVAILABLE"}

HoldersInv ==
    \A w \in Wuids :
        /\ Cardinality(Holders(w)) <= reclaims + 1
        /\ wus[w].status \in Fresh => Cardinality(Holders(w)) <= reclaims

Posts == [wu : Wuids, answer : Answers, at : {"exists", "write", "insert", "update"}]

(* A request that has a file in hand has an output to store.               *)
PostInv ==
    /\ post \in [Clients -> Posts \cup {NONE}]
    /\ \A c \in Clients :
          post[c] # NONE /\ post[c].at # "update" => post[c].answer.output # NONE

RustInv ==
    /\ WuTypeOK
    /\ selected \in [Clients -> Wuids \cup {NONE}]
    /\ held \in [Clients -> SUBSET Wuids] /\ reclaims \in Nat
    /\ PostInv
    /\ HoldersInv

LEMMA HoldersFinite ==
    ASSUME NEW w PROVE IsFiniteSet(Holders(w)) /\ Cardinality(Holders(w)) \in Nat
  BY EventsAssumption, FS_Subset, FS_CardinalityType DEF Holders

LEMMA RustInvInit == RustInit => RustInv
  <1> SUFFICES ASSUME RustInit PROVE RustInv
    OBVIOUS
  <1>1. WuTypeOK BY DEF RustInit, Init, WuInit, WuTypeOK, Row, NoRow, BlankRow
  <1>2. /\ selected \in [Clients -> Wuids \cup {NONE}]
        /\ held \in [Clients -> SUBSET Wuids] /\ reclaims = 0
    BY DEF RustInit
  <1>3. \A w : Holders(w) = {} BY DEF RustInit, Holders
  <1>4. HoldersInv BY <1>2, <1>3, FS_EmptySet DEF HoldersInv
  <1>5. PostInv BY DEF RustInit, PostInv
  <1>6. QED BY <1>1, <1>2, <1>4, <1>5 DEF RustInv

(* A step that hands nothing out makes no row fresh again.                 *)
LEMMA NothingHandedOut ==
    ASSUME RustInv, WuTypeOK', PostInv', UNCHANGED <<selected, held, reclaims>>,
           \A w \in Wuids : wus'[w].status \in Fresh => wus[w].status \in Fresh
    PROVE  RustInv'
  <1>1. \A w : Holders(w)' = Holders(w) BY DEF Holders
  <1>2. HoldersInv' BY <1>1 DEF HoldersInv, RustInv
  <1>3. QED BY <1>2 DEF RustInv

LEMMA StatusOnly ==
    ASSUME WuTypeOK, NEW s \in WuStatus \ Fresh, NEW S, set_status(s, S)
    PROVE  /\ WuTypeOK'
           /\ \A w \in Wuids : wus'[w].status \in Fresh => wus[w].status \in Fresh
  <1>1. \A w \in Wuids :
           /\ wus'[w] \in Row
           /\ wus'[w].status = IF w \in S /\ wus[w].status # "ABSENT" THEN s ELSE wus[w].status
    BY DEF set_status, StatusRow, WuTypeOK, Row
  <1>2. WuTypeOK' BY <1>1 DEF WuTypeOK, set_status
  <1>3. QED BY <1>1, <1>2

LEMMA CreatedOnly ==
    ASSUME WuTypeOK, NEW v, create(v)
    PROVE  /\ WuTypeOK'
           /\ \A w \in Wuids : wus'[w].status \in Fresh => wus[w].status \in Fresh
  <1>1. NewRow \in Row BY DEF NewRow, BlankRow, Row, WuStatus
  <1>2. \A w \in Wuids : wus'[w] = IF w = v THEN NewRow ELSE wus[w]
    BY DEF create, WuTypeOK
  <1>3. WuTypeOK' BY <1>1 DEF WuTypeOK, create
  <1>4. QED BY <1>2, <1>3 DEF create, CanCreate, Fresh

LEMMA VerifiedOnly ==
    ASSUME WuTypeOK, NEW v, NEW ok, verification(v, ok)
    PROVE  /\ WuTypeOK'
           /\ \A w \in Wuids : wus'[w].status \in Fresh => wus[w].status \in Fresh
  <1> DEFINE s == IF ok THEN "VERIFIED_OK" ELSE "VERIFIED_ERROR"
  <1>1. s \in WuStatus \ Fresh BY DEF WuStatus, Fresh
  <1> HIDE DEF s
  <1>2. wus' = [wus EXCEPT ![v] = StatusRow(wus[v], s)] BY DEF verification, s
  <1>3. \A w \in Wuids : wus'[w] = IF w = v THEN StatusRow(wus[w], s) ELSE wus[w]
    BY <1>2 DEF WuTypeOK
  <1>4. \A w \in Wuids : StatusRow(wus[w], s) \in Row /\ StatusRow(wus[w], s).status = s
    BY <1>1 DEF StatusRow, WuTypeOK, Row
  <1>5. WuTypeOK' BY <1>2, <1>3, <1>4 DEF WuTypeOK
  <1>6. QED BY <1>1, <1>3, <1>4, <1>5

(* The driver, whatever its state.                                         *)
LEMMA DriverTable ==
    ASSUME WuTypeOK, Driver \/ GiveUp \/ RequestMoreRelations \/ HaveEnoughRelations
    PROVE  /\ WuTypeOK'
           /\ \A w \in Wuids : wus'[w].status \in Fresh => wus[w].status \in Fresh
  <1>1. "CANCELLED" \in WuStatus \ Fresh BY DEF WuStatus, Fresh
  <1>2. CASE UNCHANGED wus BY <1>2 DEF WuTypeOK
  <1>3. CASE Create BY <1>2, <1>3, CreatedOnly DEF Create, CreateNew
  <1>4. CASE Recreate BY <1>2, <1>4, CreatedOnly DEF Recreate
  <1>5. CASE VerifyRow BY <1>2, <1>5, VerifiedOnly DEF VerifyRow
  <1>6. CASE Unclaimed \/ CancelRow
    BY <1>1, <1>6, StatusOnly DEF Unclaimed, CancelRow, cancel
  <1>7. CASE HaveEnoughRelations
    BY <1>1, <1>7, StatusOnly DEF HaveEnoughRelations, cancel_all_available
  <1>8. CASE \/ Loop \/ Submit \/ Count \/ Advance \/ Drain \/ TakeResult \/ AddRels \/ AddFile
             \/ GiveUp \/ RequestMoreRelations
             \/ \E S \in SUBSET WithStatus("ASSIGNED") : CheckTimeouts(S)
    BY <1>2, <1>8 DEF Loop, Submit, SubmitCommand, Count, CountNew, Advance, Drain, TakeResult,
        AddRels, AddFile, GiveUp, RequestMoreRelations, CheckTimeouts, TimeoutCheck
  <1>9. CASE \/ NoResult \/ ErrorResult \/ CountFailed \/ VerifyCount \/ VerifyRange
             \/ NoTimeoutCheck \/ CancelCount \/ AllHandled \/ Resubmit
    BY <1>2, <1>9 DEF NoResult, ErrorResult, CountFailed, VerifyCount, VerifyRange,
        NoTimeoutCheck, CancelCount, AllHandled, Resubmit
  <1>10. QED
    BY <1>3, <1>4, <1>5, <1>6, <1>7, <1>8, <1>9 DEF Driver, TaskStep

(* get_workunit(): the UPDATE changes the row only if it is still          *)
(* AVAILABLE.                                                              *)
LEMMA HandOutStep ==
    ASSUME RustInv, NEW c \in Clients, UpdateWorkunit(c)
    PROVE  RustInv'
  <1>1. PICK w \in Wuids \cup {NONE} : w = selected[c] BY DEF RustInv
  <1>2. /\ selected' = [selected EXCEPT ![c] = NONE] /\ UNCHANGED reclaims
        /\ w # NONE /\ w \in Wuids /\ PostInv'
    BY <1>1 DEF UpdateWorkunit, RustInv, PostInv
  <1>3. selected' \in [Clients -> Wuids \cup {NONE}] BY <1>2 DEF RustInv
  <1>4. CASE wus[w].status # "AVAILABLE"
    <2>1. UNCHANGED <<wus, held>> BY <1>1, <1>4 DEF UpdateWorkunit
    <2>2. \A v : Holders(v)' = Holders(v) BY <2>1 DEF Holders
    <2>3. HoldersInv' BY <1>2, <2>1, <2>2 DEF HoldersInv, RustInv
    <2>4. QED BY <1>2, <1>3, <2>1, <2>3 DEF RustInv, WuTypeOK
  <1>5. CASE wus[w].status = "AVAILABLE"
    <2>1. /\ wus' = [wus EXCEPT ![w] = AssignedRow(wus[w], c)]
          /\ held' = [held EXCEPT ![c] = @ \cup {w}]
      BY <1>1, <1>5 DEF UpdateWorkunit
    <2>2. AssignedRow(wus[w], c) \in Row /\ AssignedRow(wus[w], c).status = "ASSIGNED"
      BY <1>2 DEF AssignedRow, Row, WuStatus, RustInv, WuTypeOK
    <2>3. WuTypeOK' BY <2>1, <2>2 DEF RustInv, WuTypeOK
    <2>4. held' \in [Clients -> SUBSET Wuids] BY <1>2, <2>1 DEF RustInv
    <2>5. /\ \A v \in Wuids \ {w} : wus'[v] = wus[v] /\ Holders(v)' = Holders(v)
          /\ wus'[w].status = "ASSIGNED" /\ Holders(w)' = Holders(w) \cup {c}
      BY <1>2, <2>1, <2>2 DEF RustInv, WuTypeOK, Holders
    <2>6. Cardinality(Holders(w)) <= reclaims BY <1>2, <1>5 DEF RustInv, HoldersInv, Fresh
    <2>7. Cardinality(Holders(w)') <= Cardinality(Holders(w)) + 1
      <3>1. IsFiniteSet(Holders(w)) /\ Cardinality(Holders(w)) \in Nat BY HoldersFinite
      <3>2. CASE c \in Holders(w)
        <4>1. Holders(w)' = Holders(w) BY <2>5, <3>2
        <4>2. QED BY <3>1, <4>1
      <3>3. CASE c \notin Holders(w)
        <4>1. Cardinality(Holders(w)') = Cardinality(Holders(w)) + 1
          BY <2>5, <3>1, <3>3, FS_AddElement
        <4>2. QED BY <3>1, <4>1
      <3>4. QED BY <3>2, <3>3
    <2>8. Cardinality(Holders(w)') \in Nat /\ Cardinality(Holders(w)) \in Nat /\ reclaims \in Nat
      <3>1. IsFiniteSet(Holders(w)') BY <2>5, HoldersFinite, FS_AddElement
      <3>2. QED BY <3>1, HoldersFinite, FS_CardinalityType DEF RustInv
    <2>9. Cardinality(Holders(w)') <= reclaims + 1 BY <2>6, <2>7, <2>8
    <2>10. HoldersInv'
      BY <1>2, <2>5, <2>9 DEF HoldersInv, RustInv, Fresh
    <2>11. QED BY <1>2, <1>3, <2>3, <2>4, <2>10 DEF RustInv
  <1>6. QED BY <1>4, <1>5

(* A request that moves on, or ends, without touching the table.           *)
LEMMA RequestStep ==
    ASSUME RustInv, NEW c \in Clients,
           UNCHANGED <<wus, selected, held, reclaims>>,
           \/ Finish(c)
           \/ /\ post[c] # NONE /\ post[c].at # "update"
              /\ \E at \in {"write", "insert", "update"} : Continue(c, at)
    PROVE  RustInv'
  <1>1. PostInv' BY DEF RustInv, PostInv, Posts, Finish, Continue, Request
  <1>2. QED BY <1>1, NothingHandedOut DEF RustInv, WuTypeOK

LEMMA PostResultStep ==
    ASSUME RustInv, NEW c \in Clients, NEW w \in Wuids, PostResult(c, w)
    PROVE  RustInv'
  <1>1. PICK a \in Answers :
           post' = [post EXCEPT ![c] = Request(w, a, IF a.output = NONE THEN "update" ELSE "exists")]
    BY DEF PostResult
  <1>2. PostInv' BY <1>1 DEF RustInv, PostInv, Posts, Request
  <1>3. UNCHANGED <<wus, selected, held, reclaims>> BY DEF PostResult, vars
  <1>4. QED BY <1>2, <1>3, NothingHandedOut DEF RustInv, WuTypeOK

LEMMA InsertFileStep ==
    ASSUME RustInv, NEW c \in Clients, InsertFile(c)
    PROVE  RustInv'
  <1>1. /\ post[c] # NONE /\ post[c].at = "insert" /\ Continue(c, "update")
        /\ UNCHANGED <<selected, held, reclaims>>
    BY DEF InsertFile, At
  <1>2. PostInv' BY <1>1 DEF RustInv, PostInv, Posts, Continue, Request
  <1>3. CASE UNCHANGED wus
    BY <1>1, <1>2, <1>3, NothingHandedOut DEF RustInv, WuTypeOK
  <1>4. ASSUME ~UNCHANGED wus PROVE RustInv'
    <2>1. PICK w \in Wuids, a \in Answers : w = post[c].wu /\ a = post[c].answer
      BY <1>1 DEF RustInv, PostInv, Posts
    <2>2. wus' = [wus EXCEPT ![w].files = @ \cup {<<w, a.output>>}]
      BY <1>4, <2>1 DEF InsertFile, Busy
    <2>3. <<w, a.output>> \in Paths
      <3>1. a.output # NONE BY <1>1, <2>1 DEF RustInv, PostInv
      <3>2. a.output \in Outputs BY <3>1, SievingAssumption
      <3>3. QED BY <3>2, SievingAssumption
    <2> DEFINE r == [wus[w] EXCEPT !.files = @ \cup {<<w, a.output>>}]
    <2>4. wus' = [wus EXCEPT ![w] = r] BY <2>2
    <2>5. wus[w] \in Row BY DEF RustInv, WuTypeOK
    <2>6. r \in Row /\ r.status = wus[w].status BY <2>3, <2>5 DEF Row
    <2> HIDE DEF r
    <2>7. WuTypeOK' /\ \A v \in Wuids : wus'[v].status = wus[v].status
      BY <2>4, <2>6 DEF RustInv, WuTypeOK
    <2>8. QED BY <1>1, <1>2, <2>7, NothingHandedOut
  <1>5. QED BY <1>3, <1>4

LEMMA UpdateResultStep ==
    ASSUME RustInv, NEW c \in Clients, UpdateResult(c)
    PROVE  RustInv'
  <1>0. PICK w \in Wuids, a \in Answers :
           post[c] # NONE /\ w = post[c].wu /\ a = post[c].answer
    BY DEF UpdateResult, At, RustInv, PostInv, Posts
  <1>1. /\ UNCHANGED <<selected, reclaims>> /\ held' = [held EXCEPT ![c] = @ \ {w}]
        /\ Finish(c)
    BY <1>0 DEF UpdateResult
  <1> DEFINE r == ReceivedRow(wus[w], c, a.errorcode)
  <1>2. wus' = wus \/ wus' = [wus EXCEPT ![w] = r]
    BY <1>0 DEF UpdateResult, Busy, RustInv, WuTypeOK
  <1>3. a.errorcode \in ErrorCodes \cup {NONE} BY SievingAssumption
  <1>4. wus[w] \in Row BY DEF RustInv, WuTypeOK
  <1>5. r \in Row /\ r.status \notin Fresh
    BY <1>3, <1>4 DEF ReceivedRow, Row, WuStatus, Fresh
  <1> HIDE DEF r
  <1>6. WuTypeOK' BY <1>2, <1>5 DEF RustInv, WuTypeOK
  <1>7. held' \in [Clients -> SUBSET Wuids] BY <1>1 DEF RustInv
  <1>8. /\ \A v \in Wuids \ {w} : wus'[v] = wus[v] /\ Holders(v)' = Holders(v)
        /\ wus'[w].status \in Fresh => wus[w].status \in Fresh
        /\ Holders(w)' \subseteq Holders(w)
    BY <1>1, <1>2, <1>5 DEF RustInv, WuTypeOK, Holders
  <1>9. Cardinality(Holders(w)') <= Cardinality(Holders(w)) BY <1>8, HoldersFinite, FS_Subset
  <1>10. Cardinality(Holders(w)') \in Nat /\ Cardinality(Holders(w)) \in Nat /\ reclaims \in Nat
    <2>1. IsFiniteSet(Holders(w)') BY <1>8, HoldersFinite, FS_Subset
    <2>2. QED BY <2>1, HoldersFinite, FS_CardinalityType DEF RustInv
  <1>11. /\ Cardinality(Holders(w)) <= reclaims + 1
         /\ wus'[w].status \in Fresh => Cardinality(Holders(w)) <= reclaims
    BY <1>8 DEF RustInv, HoldersInv
  <1>12. /\ Cardinality(Holders(w)') <= reclaims + 1
         /\ wus'[w].status \in Fresh => Cardinality(Holders(w)') <= reclaims
    BY <1>9, <1>10, <1>11
  <1>13. HoldersInv' BY <1>1, <1>8, <1>12 DEF HoldersInv, RustInv
  <1>14. PostInv' BY <1>1 DEF RustInv, PostInv, Finish
  <1>15. QED BY <1>1, <1>6, <1>7, <1>13, <1>14 DEF RustInv

LEMMA ReclaimStep ==
    ASSUME RustInv, Reclaim
    PROVE  RustInv'
  <1>1. PICK w \in Wuids :
           /\ wus[w].status = "ASSIGNED"
           /\ wus' = [wus EXCEPT ![w].status = "AVAILABLE", ![w].assignedclient = NONE]
    BY DEF Reclaim, WithStatus
  <1>2. reclaims' = reclaims + 1 /\ UNCHANGED <<selected, held>> BY DEF Reclaim
  <1>3. WuTypeOK'
    <2> DEFINE r == [wus[w] EXCEPT !.status = "AVAILABLE", !.assignedclient = NONE]
    <2>1. wus[w] \in Row BY DEF RustInv, WuTypeOK
    <2>2. r \in Row BY <2>1 DEF Row, WuStatus
    <2>3. wus' = [wus EXCEPT ![w] = r] BY <1>1, <2>1 DEF RustInv, WuTypeOK, Row
    <2> HIDE DEF r
    <2>4. QED BY <2>2, <2>3 DEF RustInv, WuTypeOK
  <1>4. \A v : Holders(v)' = Holders(v) BY <1>2 DEF Holders
  <1>5. \A v \in Wuids : /\ Cardinality(Holders(v)) \in Nat
                         /\ Cardinality(Holders(v)) <= reclaims + 1
    BY HoldersFinite DEF RustInv, HoldersInv
  <1>6. reclaims \in Nat BY DEF RustInv
  <1>7. HoldersInv' BY <1>2, <1>4, <1>5, <1>6 DEF HoldersInv
  <1>8. PostInv' BY DEF Reclaim, RustInv, PostInv
  <1>9. QED BY <1>2, <1>3, <1>6, <1>7, <1>8 DEF RustInv

LEMMA RustInvStep == RustInv /\ [RustNext]_allvars => RustInv'
  <1> SUFFICES ASSUME RustInv, [RustNext]_allvars PROVE RustInv'
    OBVIOUS
  <1>1. CASE /\ Driver \/ GiveUp \/ RequestMoreRelations \/ HaveEnoughRelations
             /\ UNCHANGED rustvars
    <2>1. WuTypeOK BY DEF RustInv
    <2>2. PostInv' /\ UNCHANGED <<selected, held, reclaims>> BY <1>1 DEF rustvars, RustInv, PostInv
    <2>3. QED BY <1>1, <2>1, <2>2, DriverTable, NothingHandedOut
  <1>2. ASSUME NEW c \in Clients, SelectWorkunit(c) PROVE RustInv'
    <2>1. PICK w \in Wuids : selected' = [selected EXCEPT ![c] = w]
      BY <1>2 DEF SelectWorkunit, WithStatus
    <2>2. selected' \in [Clients -> Wuids \cup {NONE}] BY <2>1 DEF RustInv
    <2>3. UNCHANGED <<wus, held, reclaims>> BY <1>2 DEF SelectWorkunit, vars
    <2>4. HoldersInv' BY <2>3 DEF RustInv, HoldersInv, Holders
    <2>5. PostInv' BY <1>2 DEF SelectWorkunit, RustInv, PostInv
    <2>6. QED BY <2>2, <2>3, <2>4, <2>5 DEF RustInv, WuTypeOK
  <1>3. ASSUME NEW c \in Clients, UpdateWorkunit(c) PROVE RustInv' BY <1>3, HandOutStep
  <1>4. ASSUME NEW c \in Clients, NEW w \in Wuids, PostResult(c, w) PROVE RustInv'
    BY <1>4, PostResultStep
  <1>5. CASE Reclaim BY <1>5, ReclaimStep
  <1>6. CASE UNCHANGED allvars
    BY <1>6 DEF allvars, vars, rustvars, RustInv, WuTypeOK, PostInv, HoldersInv, Holders
  <1>7. ASSUME NEW c \in Clients, CheckExists(c) \/ WriteFile(c) \/ AbortUpload(c) PROVE RustInv'
    <2>1. UNCHANGED <<wus, selected, held, reclaims>>
      BY <1>7 DEF CheckExists, WriteFile, AbortUpload, vars
    <2>2. \/ Finish(c)
          \/ /\ post[c] # NONE /\ post[c].at # "update"
             /\ \E at \in {"write", "insert", "update"} : Continue(c, at)
      BY <1>7 DEF CheckExists, WriteFile, AbortUpload, At
    <2>3. QED BY <2>1, <2>2, RequestStep
  <1>8. ASSUME NEW c \in Clients, InsertFile(c) PROVE RustInv' BY <1>8, InsertFileStep
  <1>9. ASSUME NEW c \in Clients, UpdateResult(c) PROVE RustInv' BY <1>9, UpdateResultStep
  <1>10. QED BY <1>1, <1>2, <1>3, <1>4, <1>5, <1>6, <1>7, <1>8, <1>9 DEF RustNext

(* Two clients that ask at the same time are not handed the same           *)
(* work-unit: the condition of the UPDATE is enough, without a transaction *)
(* around get_workunit().                                                  *)
THEOREM NotHandedOutTwice == RustSpec => []HandedOutOnce
  <1>1. ASSUME RustInv PROVE HandedOutOnce
    <2>1. \A w \in Wuids : Cardinality({c \in Clients : w \in held[c]}) <= reclaims + 1
      BY <1>1 DEF RustInv, HoldersInv, Holders
    <2>2. \A w \in Wuids : Cardinality({c \in Clients : w \in held[c]}) \in Nat
      BY HoldersFinite DEF Holders
    <2>3. reclaims \in Nat BY <1>1 DEF RustInv
    <2>4. QED BY <2>1, <2>2, <2>3 DEF HandedOutOnce
  <1>2. QED BY <1>1, RustInvInit, RustInvStep, PTL DEF RustSpec

-----------------------------------------------------------------------------
(***************************************************************************)
(* The Rust server stores one file of a range in the table: the column is  *)
(* UNIQUE and all attempts of a range share a path.  A row never loses its *)
(* files, and what the driver counts is in the table.                      *)
(***************************************************************************)
FilesInv ==
    /\ \A v \in Wuids : wus[v].status = "ABSENT" => wus[v].files = {}
    /\ \A v \in Wuids : \A f \in wus[v].files : f[1] = v
    /\ \A u, v \in Wuids : u[1] = v[1] => \A f \in wus[u].files, g \in wus[v].files : f = g

(* Requests are about rows.                                                *)
RowsInv ==
    /\ \A c \in Clients : held[c] \subseteq Rows
    /\ \A c \in Clients : post[c] # NONE => post[c].wu \in Rows

(* What the driver has counted, or is about to, is a file of a row.        *)
CountedInv ==
    /\ \A f \in output_files : \E v \in Wuids : f \in wus[v].files
    /\ caller \in {"submit", "drain", "once"}
    /\ pc \in {"add_rels", "add_file"} => \E v \in Wuids : job.wu = v /\ wus[v].files # {}

StoredInv == RustInv /\ FilesInv /\ RowsInv /\ CountedInv

(* Rows are not removed, and neither are their files.                      *)
TableKept ==
    \A w \in Wuids :
        /\ wus'[w].files = wus[w].files
        /\ wus[w].status # "ABSENT" => wus'[w].status # "ABSENT"

LEMMA StatusKeepsFiles ==
    ASSUME WuTypeOK, NEW s \in WuStatus, NEW S, set_status(s, S)
    PROVE  TableKept
  BY DEF WuTypeOK, set_status, StatusRow, TableKept, WuStatus

LEMMA CreateKeepsFiles ==
    ASSUME WuTypeOK, FilesInv, NEW v, create(v)
    PROVE  TableKept
  BY DEF WuTypeOK, FilesInv, create, CanCreate, NewRow, BlankRow, TableKept

LEMMA VerificationKeepsFiles ==
    ASSUME WuTypeOK, NEW v, NEW ok, verification(v, ok)
    PROVE  TableKept
  BY DEF WuTypeOK, verification, StatusRow, TableKept

LEMMA DriverKeepsFiles ==
    ASSUME WuTypeOK, FilesInv, Driver \/ GiveUp \/ RequestMoreRelations \/ HaveEnoughRelations
    PROVE  TableKept
  <1>1. "CANCELLED" \in WuStatus BY DEF WuStatus
  <1>2. CASE UNCHANGED wus BY <1>2 DEF TableKept
  <1>3. CASE Create BY <1>2, <1>3, CreateKeepsFiles DEF Create, CreateNew
  <1>4. CASE Recreate BY <1>2, <1>4, CreateKeepsFiles DEF Recreate
  <1>5. CASE VerifyRow BY <1>2, <1>5, VerificationKeepsFiles DEF VerifyRow
  <1>6. CASE Unclaimed \/ CancelRow
    BY <1>1, <1>6, StatusKeepsFiles DEF Unclaimed, CancelRow, cancel
  <1>7. CASE HaveEnoughRelations
    BY <1>1, <1>7, StatusKeepsFiles DEF HaveEnoughRelations, cancel_all_available
  <1>8. CASE \/ Loop \/ Submit \/ Count \/ Advance \/ Drain \/ TakeResult \/ AddRels \/ AddFile
             \/ GiveUp \/ RequestMoreRelations
             \/ \E S \in SUBSET WithStatus("ASSIGNED") : CheckTimeouts(S)
    BY <1>2, <1>8 DEF Loop, Submit, SubmitCommand, Count, CountNew, Advance, Drain, TakeResult,
        AddRels, AddFile, GiveUp, RequestMoreRelations, CheckTimeouts, TimeoutCheck
  <1>9. CASE \/ NoResult \/ ErrorResult \/ CountFailed \/ VerifyCount \/ VerifyRange
             \/ NoTimeoutCheck \/ CancelCount \/ AllHandled \/ Resubmit
    BY <1>2, <1>9 DEF NoResult, ErrorResult, CountFailed, VerifyCount, VerifyRange,
        NoTimeoutCheck, CancelCount, AllHandled, Resubmit
  <1>10. QED
    BY <1>3, <1>4, <1>5, <1>6, <1>7, <1>8, <1>9 DEF Driver, TaskStep

(* The driver counts only the files of the result in its hands.            *)
LEMMA DriverCounts ==
    ASSUME CountedInv, TableKept, Driver \/ GiveUp \/ RequestMoreRelations \/ HaveEnoughRelations
    PROVE  CountedInv'
  <1> DEFINE Adds == {"add_rels", "add_file"}
  <1>1. CASE TakeResult
    <2>1. PICK w \in Wuids :
             /\ job' = [wu |-> w, ok |-> wus[w].files # {} /\ Output(w)[2] # CORRUPT, error |-> FALSE]
             /\ pc' \in Adds => wus[w].files # {}
      BY <1>1 DEF TakeResult, get_one_result, WithStatus
    <2>2. UNCHANGED <<output_files, caller>> BY <1>1 DEF TakeResult, sievevars
    <2>3. job'.wu = w BY <2>1
    <2>4. QED BY <2>1, <2>2, <2>3 DEF CountedInv, TableKept
  <1>2. CASE AddRels
    <2>1. pc = "add_rels" /\ UNCHANGED <<output_files, caller, job>> BY <1>2 DEF AddRels
    <2>2. QED BY <2>1 DEF CountedInv, TableKept
  <1>3. CASE AddFile
    <2>1. PICK v \in Wuids : job.wu = v /\ wus[v].files # {} BY <1>3 DEF AddFile, CountedInv
    <2>2. Output(v) \in wus[v].files BY <2>1 DEF Output
    <2>3. /\ output_files' = output_files \cup {Output(v)}
          /\ pc' = "verify" /\ UNCHANGED caller
      BY <1>3, <2>1 DEF AddFile
    <2>4. QED BY <2>2, <2>3 DEF CountedInv, TableKept
  <1>4. ASSUME pc' \notin Adds, caller' \in {"submit", "drain", "once"}, UNCHANGED output_files
        PROVE  CountedInv'
    BY <1>4 DEF CountedInv, TableKept
  <1>5. CASE \/ Loop \/ Submit \/ Count \/ Create \/ Advance \/ Drain
             \/ GiveUp \/ RequestMoreRelations \/ HaveEnoughRelations
             \/ \E S \in SUBSET WithStatus("ASSIGNED") : CheckTimeouts(S)
    <2>1. UNCHANGED output_files /\ caller' \in {caller, "submit", "drain", "once"}
      BY <1>5 DEF Loop, Submit, SubmitCommand, Count, CountNew, Create, CreateNew, Advance, Drain,
         GiveUp, RequestMoreRelations, HaveEnoughRelations, CheckTimeouts, TimeoutCheck, sievevars
    <2>2. pc' \notin Adds
      BY <1>5 DEF Loop, Submit, SubmitCommand, Count, CountNew, Create, CreateNew, Advance, Drain,
         GiveUp, RequestMoreRelations, HaveEnoughRelations, CheckTimeouts, TimeoutCheck, Raise
    <2>3. QED BY <1>4, <2>1, <2>2 DEF CountedInv
  <1>6. CASE TaskStep
    <2>1. UNCHANGED <<output_files, caller>>
      BY <1>6 DEF TaskStep, sievevars, NoResult, ErrorResult, CountFailed, VerifyCount, VerifyRange,
         VerifyRow, Unclaimed, NoTimeoutCheck, CancelCount, AllHandled, CancelRow, Resubmit, Recreate
    <2>2. pc' \notin Adds
      BY <1>6 DEF TaskStep, NoResult, ErrorResult, CountFailed, VerifyCount, VerifyRange,
         VerifyRow, Unclaimed, NoTimeoutCheck, CancelCount, AllHandled, CancelRow, Resubmit, Recreate,
         Answered, Raise, Resubmitted, CountedInv
    <2>3. QED BY <1>4, <2>1, <2>2 DEF CountedInv
  <1>7. QED BY <1>1, <1>2, <1>3, <1>5, <1>6 DEF Driver

(* A step that leaves the files alone.                                     *)
LEMMA FilesStay ==
    ASSUME StoredInv, RustInv', TableKept, CountedInv',
           \A c \in Clients : held'[c] \subseteq held[c] \cup Rows,
           \A c \in Clients : post'[c] # NONE => post'[c].wu \in Rows
    PROVE  StoredInv'
  <1>1. FilesInv' BY DEF StoredInv, FilesInv, TableKept
  <1>2. Rows \subseteq Rows' BY DEF Rows, TableKept
  <1>3. RowsInv' BY <1>2 DEF StoredInv, RowsInv
  <1>4. QED BY <1>1, <1>3 DEF StoredInv

(* The server leaves the driver alone.                                     *)
LEMMA ServerCountsNothing ==
    ASSUME CountedInv, \A w \in Wuids : wus[w].files \subseteq wus'[w].files,
           UNCHANGED <<taskvars, sievevars>>
    PROVE  CountedInv'
  BY DEF CountedInv, taskvars, sievevars

LEMMA InsertStores ==
    ASSUME StoredInv, RustInv', NEW c \in Clients, InsertFile(c)
    PROVE  StoredInv'
  <1>1. PICK w \in Rows, a \in Answers : post[c].wu = w /\ a = post[c].answer
    BY DEF InsertFile, At, StoredInv, RowsInv, RustInv, PostInv, Posts
  <1>2. /\ UNCHANGED <<taskvars, sievevars, held>>
        /\ post' = [post EXCEPT ![c] = Request(w, a, "update")]
    BY <1>1 DEF InsertFile, Continue
  <1>3. \A d \in Clients : post'[d] # NONE => post'[d].wu \in Rows
    BY <1>1, <1>2 DEF StoredInv, RowsInv, RustInv, PostInv, Request
  <1>4. CASE UNCHANGED wus
    <2>1. TableKept BY <1>4 DEF TableKept
    <2>2. CountedInv' BY <1>2, <1>4, ServerCountsNothing DEF StoredInv
    <2>3. QED BY <1>2, <1>3, <2>1, <2>2, FilesStay
  <1>5. ASSUME ~UNCHANGED wus PROVE StoredInv'
    <2>1. PathIsNew(w) /\ wus' = [wus EXCEPT ![w].files = @ \cup {<<w, a.output>>}]
      BY <1>1, <1>5 DEF InsertFile, Busy
    <2>2. w \in Wuids BY DEF Rows
    <2>3. \A v \in Wuids : v[1] = w[1] => wus[v].files = {}
      <3>1. \A v \in Wuids : v = <<v[1], v[2]>> /\ v[2] \in Attempts BY TaskAssumption
      <3>2. QED BY <2>1, <3>1 DEF PathIsNew
    <2>4. \A v \in Wuids :
             /\ wus'[v].status = wus[v].status
             /\ wus'[v].files = IF v = w THEN {<<w, a.output>>} ELSE wus[v].files
      <3> DEFINE r == [wus[w] EXCEPT !.files = @ \cup {<<w, a.output>>}]
      <3>1. wus[w] \in Row /\ wus[w].files = {} BY <2>2, <2>3 DEF StoredInv, RustInv, WuTypeOK
      <3>2. r.status = wus[w].status /\ r.files = {<<w, a.output>>} BY <3>1 DEF Row
      <3>3. wus' = [wus EXCEPT ![w] = r] BY <2>1
      <3> HIDE DEF r
      <3>4. QED BY <2>2, <3>2, <3>3 DEF StoredInv, RustInv, WuTypeOK
    <2>5. FilesInv' BY <2>2, <2>3, <2>4, w \in Rows DEF StoredInv, FilesInv, Rows
    <2>6. Rows' = Rows BY <2>4 DEF Rows
    <2>7. RowsInv' BY <1>2, <1>3, <2>6 DEF StoredInv, RowsInv
    <2>8. \A v \in Wuids : wus[v].files \subseteq wus'[v].files BY <2>2, <2>3, <2>4
    <2>9. CountedInv' BY <1>2, <2>8, ServerCountsNothing DEF StoredInv
    <2>10. QED BY <2>5, <2>7, <2>9 DEF StoredInv
  <1>6. QED BY <1>4, <1>5

LEMMA UpdateStores ==
    ASSUME StoredInv, RustInv', NEW c \in Clients, UpdateResult(c)
    PROVE  StoredInv'
  <1>1. PICK w \in Rows, a \in Answers : post[c].wu = w /\ a = post[c].answer
    BY DEF UpdateResult, At, StoredInv, RowsInv, RustInv, PostInv, Posts
  <1>2. /\ UNCHANGED <<taskvars, sievevars>> /\ Finish(c)
        /\ wus' = wus \/ wus' = [wus EXCEPT ![w] = ReceivedRow(wus[w], c, a.errorcode)]
        /\ held' = [held EXCEPT ![c] = @ \ {w}]
    BY <1>1 DEF UpdateResult, Busy, StoredInv, RustInv, WuTypeOK
  <1>3. \A v \in Wuids : wus[v] \in Row BY DEF StoredInv, RustInv, WuTypeOK
  <1>4. /\ ReceivedRow(wus[w], c, a.errorcode).files = wus[w].files
        /\ ReceivedRow(wus[w], c, a.errorcode).status # "ABSENT"
    BY <1>3 DEF ReceivedRow, Row, Rows
  <1>5. TableKept BY <1>2, <1>4 DEF TableKept, StoredInv, RustInv, WuTypeOK
  <1>6. CountedInv' BY <1>2, <1>5, ServerCountsNothing DEF StoredInv, TableKept
  <1>7. \A d \in Clients : held'[d] \subseteq held[d] BY <1>2 DEF StoredInv, RustInv
  <1>8. \A d \in Clients : post'[d] # NONE => post'[d].wu \in Rows
    BY <1>2 DEF Finish, StoredInv, RustInv, PostInv, RowsInv
  <1>9. QED BY <1>5, <1>6, <1>7, <1>8, FilesStay

LEMMA HandOutStores ==
    ASSUME StoredInv, RustInv', NEW c \in Clients, UpdateWorkunit(c)
    PROVE  StoredInv'
  <1>1. PICK w \in Wuids : w = selected[c] BY DEF UpdateWorkunit, StoredInv, RustInv
  <1>2. UNCHANGED <<taskvars, sievevars, post>> BY DEF UpdateWorkunit
  <1>3. \/ UNCHANGED <<wus, held>>
        \/ /\ w \in Rows
           /\ wus' = [wus EXCEPT ![w] = AssignedRow(wus[w], c)]
           /\ held' = [held EXCEPT ![c] = @ \cup {w}]
    BY <1>1 DEF UpdateWorkunit, Rows
  <1>4. TableKept BY <1>3 DEF TableKept, AssignedRow, StoredInv, RustInv, WuTypeOK
  <1>5. CountedInv' BY <1>2, <1>4, ServerCountsNothing DEF StoredInv, TableKept
  <1>6. \A d \in Clients : held'[d] \subseteq held[d] \cup Rows BY <1>3 DEF StoredInv, RustInv
  <1>7. QED BY <1>2, <1>4, <1>5, <1>6, FilesStay DEF StoredInv, RowsInv

LEMMA ReclaimStores ==
    ASSUME StoredInv, RustInv', Reclaim
    PROVE  StoredInv'
  <1>1. PICK w \in Wuids :
           wus' = [wus EXCEPT ![w].status = "AVAILABLE", ![w].assignedclient = NONE]
    BY DEF Reclaim, WithStatus
  <1>2. \A v \in Wuids : wus[v] \in Row BY DEF StoredInv, RustInv, WuTypeOK
  <1>3. TableKept BY <1>1, <1>2 DEF TableKept, StoredInv, RustInv, WuTypeOK, Row
  <1>4. CountedInv' BY <1>3, ServerCountsNothing DEF Reclaim, StoredInv, TableKept
  <1>5. UNCHANGED <<held, post>> BY DEF Reclaim
  <1>6. QED BY <1>3, <1>4, <1>5, FilesStay DEF StoredInv, RowsInv

LEMMA StoredInvStep == StoredInv /\ [RustNext]_allvars => StoredInv'
  <1> SUFFICES ASSUME StoredInv, [RustNext]_allvars PROVE StoredInv'
    OBVIOUS
  <1>0. RustInv' BY RustInvStep DEF StoredInv
  <1>1. CASE /\ Driver \/ GiveUp \/ RequestMoreRelations \/ HaveEnoughRelations
             /\ UNCHANGED rustvars
    <2>1. TableKept BY <1>1, DriverKeepsFiles DEF StoredInv, RustInv
    <2>2. CountedInv' BY <1>1, <2>1, DriverCounts DEF StoredInv
    <2>3. QED BY <1>0, <1>1, <2>1, <2>2, FilesStay DEF rustvars, StoredInv, RowsInv
  <1>2. ASSUME NEW c \in Clients, UpdateWorkunit(c) PROVE StoredInv'
    BY <1>0, <1>2, HandOutStores
  <1>3. ASSUME NEW c \in Clients, InsertFile(c) PROVE StoredInv' BY <1>0, <1>3, InsertStores
  <1>4. ASSUME NEW c \in Clients, UpdateResult(c) PROVE StoredInv' BY <1>0, <1>4, UpdateStores
  <1>5. CASE Reclaim BY <1>0, <1>5, ReclaimStores
  <1>6. ASSUME UNCHANGED <<vars, held>>,
               \A c \in Clients : post'[c] # NONE => post'[c].wu \in Rows
        PROVE  StoredInv'
    <2>1. TableKept /\ UNCHANGED <<taskvars, sievevars>> BY <1>6 DEF TableKept, vars
    <2>2. CountedInv' BY <2>1, ServerCountsNothing DEF StoredInv, TableKept
    <2>3. QED BY <1>0, <1>6, <2>1, <2>2, FilesStay
  <1>7. ASSUME NEW c \in Clients, SelectWorkunit(c) PROVE StoredInv'
    BY <1>6, <1>7 DEF SelectWorkunit, StoredInv, RowsInv
  <1>8. ASSUME NEW c \in Clients, NEW w \in Wuids, PostResult(c, w) PROVE StoredInv'
    <2>1. w \in Rows BY <1>8 DEF PostResult, StoredInv, RowsInv
    <2>2. QED BY <1>6, <1>8, <2>1
        DEF PostResult, StoredInv, RowsInv, RustInv, PostInv, Request
  <1>9. ASSUME NEW c \in Clients, CheckExists(c) \/ WriteFile(c) \/ AbortUpload(c) PROVE StoredInv'
    <2>1. UNCHANGED <<vars, held>> BY <1>9 DEF CheckExists, WriteFile, AbortUpload
    <2>2. \/ Finish(c)
          \/ /\ post[c] # NONE
             /\ Continue(c, "write") \/ Continue(c, "insert")
      BY <1>9 DEF CheckExists, WriteFile, AbortUpload, At
    <2>3. \A d \in Clients : post'[d] # NONE => post'[d].wu \in Rows
      BY <2>2 DEF Finish, Continue, Request, StoredInv, RowsInv, RustInv, PostInv
    <2>4. QED BY <1>6, <2>1, <2>3
  <1>10. CASE UNCHANGED allvars
    BY <1>6, <1>10 DEF allvars, rustvars, StoredInv, RowsInv
  <1>11. QED BY <1>1, <1>2, <1>3, <1>4, <1>5, <1>7, <1>8, <1>9, <1>10 DEF RustNext

LEMMA StoredInvInit == RustInit => StoredInv
  <1> SUFFICES ASSUME RustInit PROVE StoredInv
    OBVIOUS
  <1>1. \A w \in Wuids : wus[w].files = {} BY DEF RustInit, Init, WuInit, NoRow, BlankRow
  <1>2. FilesInv BY <1>1 DEF FilesInv
  <1>3. RowsInv BY DEF RustInit, RowsInv
  <1>4. CountedInv BY DEF RustInit, Init, TaskInit, CountedInv
  <1>5. QED BY <1>2, <1>3, <1>4, RustInvInit DEF StoredInv

(* With the Rust server too no range is counted from two files, although   *)
(* two requests may both find that the file of the range does not exist,   *)
(* both save it and both set the status of their rows.                     *)
THEOREM RustCountsOnce == RustSpec => []RangeCountedOnce
  <1>1. ASSUME StoredInv PROVE RangeCountedOnce
    <2>1. ASSUME NEW f \in output_files, NEW g \in output_files, f[1][1] = g[1][1] PROVE f = g
      <3>1. PICK u \in Wuids, v \in Wuids : f \in wus[u].files /\ g \in wus[v].files
        BY <1>1 DEF StoredInv, CountedInv
      <3>2. f[1] = u /\ g[1] = v BY <1>1, <3>1 DEF StoredInv, FilesInv
      <3>3. QED BY <1>1, <2>1, <3>1, <3>2 DEF StoredInv, FilesInv
    <2>2. QED BY <2>1 DEF RangeCountedOnce
  <1>2. QED BY <1>1, StoredInvInit, StoredInvStep, PTL DEF RustSpec
=============================================================================
