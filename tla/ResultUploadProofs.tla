-------------------------- MODULE ResultUploadProofs --------------------------
(***************************************************************************)
(* For any number of clients, ranges, attempts, upload directories, faults *)
(* and timeouts: no accepted result meets a path that is in the table, no  *)
(* acknowledged work-unit is left assigned, no client drops a result.      *)
(*                                                                         *)
(* UNIQUE(files.path) holds because of the order of the attempts: of all   *)
(* attempts at a range, which upload under one name, at most one is not    *)
(* cancelled, so at most one can still be recorded.                        *)
(***************************************************************************)
EXTENDS ResultUpload, FiniteSetTheorems, SequenceTheorems, TLAPS

Handed(w) == wus[w].status \notin {"ABSENT", "AVAILABLE"}
Ended(w)  == Handed(w) /\ wus[w].status # "ASSIGNED"

(* An attempt exists only when the earlier ones were cancelled.            *)
AttemptsInOrder ==
    \A v, w \in Wuids :
        v[1] = w[1] /\ v[2] < w[2] /\ wus[w].status # "ABSENT" => wus[v].status = "CANCELLED"

(* What the table refers to is on the disk, under the name of the range.   *)
FilesOnDisk ==
    \A w \in Wuids : \A p \in wus[w].files : disk[p] # "none" /\ p[2] = w[1] /\ Ended(w)

(* Whatever has a work-unit in hand, it was assigned.                      *)
TableInHand ==
    /\ \A w \in settled : Ended(w)
    /\ \A w \in todo : wus[w].status \in {"ASSIGNED", "RECEIVED_OK"}
    /\ \A t \in threads : Handed(t.wu)
ClientInHand(c) ==
    /\ client[c].phase = "run" => client[c].wu \in Wuids /\ Handed(client[c].wu)
    /\ \A i \in DOMAIN client[c].old : Handed(client[c].old[i])
    /\ \A i \in DOMAIN client[c].new : Handed(client[c].new[i])

(* Past its check, a request has a path that is free if it will be used.   *)
ThreadInv ==
    \A t \in threads : t.at # "check" =>
        /\ t.path \in Paths /\ t.path[2] = t.wu[1]
        /\ t.at = "record" => disk[t.path] # "none"
        /\ wus[t.wu].status = "ASSIGNED" => \A v \in Wuids : t.path \notin wus[v].files

ClientInv(c) ==
    /\ client[c].backlog_size = Len(client[c].old)
    /\ client[c].phase \in {"idle", "run"} => client[c].new = <<>> /\ client[c].at = 1
    /\ client[c].phase \in {"wait", "failed"} => More(c)

Has(c, w) == (client[c].phase = "run" /\ client[c].wu = w) \/ w \in InBacklog(c)
Kept == \A w \in Wuids : wus[w].assignedclient # NONE =>
          Has(wus[w].assignedclient, w) \/ w \in settled \cup lost

ClientsInv == \A c \in Clients : ClientInHand(c) /\ ClientInv(c)

UInv == UploadTypeOK /\ AttemptsInOrder /\ FilesOnDisk /\ TableInHand /\ ThreadInv /\ ClientsInv /\ Kept

-------------------------------------------------------------------------------
LEMMA WuidIsPair ==
    /\ \A w \in Wuids : w[1] \in Ranges /\ w[2] \in Nat /\ w = <<w[1], w[2]>>
    /\ \A q \in Ranges : \A d \in Dirs : <<d, q>> \in Paths /\ <<d, q>>[2] = q
  BY UploadAssumption DEF Attempts

LEMMA DirsSize ==
    /\ 0 \in Dirs
    /\ \A d \in Dirs : (d + 1) % Cardinality(Dirs) \in Dirs
  <1>1. CASE nrsubdir = 0
    <2>1. Dirs = {0} BY <1>1 DEF Dirs
    <2>2. Cardinality(Dirs) = 1 BY <2>1, FS_Singleton
    <2>3. \A d \in Dirs : (d + 1) % 1 = 0 BY <2>1
    <2>4. QED BY <2>1, <2>2, <2>3
  <1>2. CASE nrsubdir # 0
    <2>1. nrsubdir \in Nat /\ Dirs = 0 .. (nrsubdir - 1) BY <1>2, UploadAssumption DEF Dirs
    <2>2. Cardinality(Dirs) = nrsubdir
      <3>1. nrsubdir - 1 \in Int /\ 0 \in Int /\ ~(0 > nrsubdir - 1) BY <1>2, <2>1
      <3>2. Cardinality(0 .. (nrsubdir - 1)) = (nrsubdir - 1) - 0 + 1 BY <3>1, FS_Interval
      <3>3. QED BY <2>1, <3>2
    <2>3. \A d \in Int : (d % nrsubdir) \in 0 .. (nrsubdir - 1) BY <1>2, <2>1
    <2>4. 0 \in Dirs BY <1>2, <2>1
    <2>5. \A d \in Dirs : d + 1 \in Int BY <2>1
    <2>6. \A d \in Dirs : (d + 1) % nrsubdir \in Dirs BY <2>1, <2>3, <2>5
    <2>7. QED BY <2>2, <2>4, <2>6
  <1>3. QED BY <1>1, <1>2

LEMMA UInvInit == Init => UInv
  <1> SUFFICES ASSUME Init PROVE UInv OBVIOUS
  <1>1. \A w \in Wuids : wus[w] \in {NewRow, NoRow} /\ (w[2] # 1 => wus[w] = NoRow) BY DEF Init
  <1>2. /\ NewRow \in Row /\ NoRow \in Row /\ NewRow.files = {} /\ NoRow.files = {}
        /\ NewRow.assignedclient = NONE /\ NoRow.assignedclient = NONE
        /\ NoRow.status = "ABSENT"
    BY DEF NewRow, NoRow, BlankRow, Row, WuStatus
  <1>3. WuTypeOK BY <1>2 DEF Init, WuTypeOK
  <1>4. client \in [Clients -> ClientRec] BY DEF Init, ClientRec
  <1>5. UploadTypeOK BY <1>3, <1>4, DirsSize DEF Init, UploadTypeOK
  <1>6. AttemptsInOrder
    <2>1. \A w \in Wuids : wus[w].status # "ABSENT" => w[2] = 1 BY <1>1, <1>2
    <2>2. \A v \in Wuids : v[2] \in Nat /\ v[2] > 0 BY UploadAssumption DEF Attempts
    <2>3. QED BY <2>1, <2>2 DEF AttemptsInOrder
  <1>7. FilesOnDisk /\ Kept BY <1>1, <1>2 DEF FilesOnDisk, Kept
  <1>8. TableInHand /\ ThreadInv BY DEF Init, TableInHand, ThreadInv
  <1>9. ClientsInv BY DEF Init, ClientsInv, ClientInHand, ClientInv
  <1>10. QED BY <1>5, <1>6, <1>7, <1>8, <1>9 DEF UInv

-------------------------------------------------------------------------------
(* Steps that leave the table and the disk alone.                          *)
LEMMA TableKept ==
    ASSUME UInv, UNCHANGED <<wus, disk>>
    PROVE  AttemptsInOrder' /\ FilesOnDisk' /\ WuTypeOK'
  BY DEF UInv, UploadTypeOK, WuTypeOK, AttemptsInOrder, FilesOnDisk, Ended, Handed

(* One client moves: the others have what they had.                        *)
LEMMA OneClient ==
    ASSUME UInv, NEW c \in Clients, \A d \in Clients \ {c} : client'[d] = client[d],
           \A w \in Wuids : wus'[w].assignedclient = wus[w].assignedclient /\ (Handed(w) => Handed(w)'),
           settled \subseteq settled', UNCHANGED lost, (ClientInHand(c) /\ ClientInv(c))',
           \A w \in Wuids : Has(c, w) => Has(c, w)' \/ w \in settled'
    PROVE  ClientsInv' /\ Kept'
  <1>1. ASSUME NEW d \in Clients, d # c
        PROVE  (ClientInHand(d) /\ ClientInv(d))' /\ \A w : Has(d, w)' <=> Has(d, w)
    <2>1. client'[d] = client[d] BY <1>1
    <2>2. ClientInHand(d) /\ ClientInv(d) BY DEF UInv, ClientsInv
    <2>3. ClientInHand(d)'
      <3>1. /\ \A i \in DOMAIN client[d].old : client[d].old[i] \in Wuids
            /\ \A i \in DOMAIN client[d].new : client[d].new[i] \in Wuids
        <4>1. client[d].old \in Seq(Wuids) /\ client[d].new \in Seq(Wuids)
          BY DEF UInv, UploadTypeOK, ClientRec
        <4>2. QED BY <4>1
      <3>2. \A w \in Wuids : Handed(w) => Handed(w)' OBVIOUS
      <3>3. QED BY <2>1, <2>2, <3>1, <3>2 DEF ClientInHand, Handed
    <2>4. ClientInv(d)' BY <2>1, <2>2 DEF ClientInv, More
    <2>5. \A w : Has(d, w)' <=> Has(d, w) BY <2>1 DEF Has, InBacklog
    <2>6. QED BY <2>3, <2>4, <2>5
  <1>2. ClientsInv' BY <1>1 DEF ClientsInv
  <1>3. ASSUME NEW w \in Wuids, wus'[w].assignedclient # NONE
        PROVE  (Has(wus[w].assignedclient, w) \/ w \in settled \cup lost)'
    <2>1. /\ wus[w].assignedclient \in Clients
          /\ Has(wus[w].assignedclient, w) \/ w \in settled \cup lost
      BY <1>3 DEF UInv, UploadTypeOK, WuTypeOK, Row, Kept
    <2>2. PICK a \in Clients : a = wus[w].assignedclient BY <2>1
    <2>3. a = wus'[w].assignedclient BY <2>2
    <2>4. Has(a, w)' \/ w \in (settled \cup lost)'
      <3>1. CASE a = c BY <2>1, <2>2, <3>1
      <3>2. CASE a # c BY <1>1, <2>1, <2>2, <3>2
      <3>3. QED BY <3>1, <3>2
    <2>5. QED BY <2>3, <2>4 DEF Has, InBacklog
  <1>4. QED BY <1>2, <1>3 DEF Kept

LEMMA RunCommandsStep == ASSUME UInv, NEW c \in Clients, RunCommands(c) PROVE UInv'
  <1>1. /\ client[c].phase = "run" /\ client[c] \in ClientRec
        /\ client' = [client EXCEPT ![c].phase = "post", ![c].wu = NONE,
                     ![c].old = Append(@, client[c].wu), ![c].backlog_size = @ + 1]
        /\ UNCHANGED <<wus, disk, cycle, threads, spent, settled, lost, todo, faults, timeouts>>
    BY DEF RunCommands, UInv, UploadTypeOK
  <1>2. /\ client[c].wu \in Wuids /\ Handed(client[c].wu)
        /\ \A i \in DOMAIN client[c].old : Handed(client[c].old[i])
        /\ client[c].backlog_size = Len(client[c].old) /\ client[c].new = <<>> /\ client[c].at = 1
    BY <1>1 DEF UInv, ClientsInv, ClientInHand, ClientInv
  <1> DEFINE o == client[c].old
             n == Append(o, client[c].wu)
  <1>3. /\ o \in Seq(Wuids) /\ n \in Seq(Wuids) /\ Len(n) = Len(o) + 1 /\ Len(o) \in Nat
        /\ \A i \in 1 .. Len(o) : n[i] = o[i]
        /\ n[Len(o) + 1] = client[c].wu
        /\ DOMAIN n = 1 .. (Len(o) + 1) /\ DOMAIN o = 1 .. Len(o)
    <2>1. o \in Seq(Wuids) BY <1>1 DEF ClientRec
    <2>2. QED BY <1>2, <2>1, AppendProperties, LenProperties
  <1>4. /\ client'[c] = [phase |-> "post", wu |-> NONE, old |-> n, at |-> 1, new |-> <<>>,
                         backlog_size |-> Len(n)]
        /\ \A d \in Clients \ {c} : client'[d] = client[d]
        /\ client' \in [Clients -> ClientRec]
    <2>1. client'[c] = [phase |-> "post", wu |-> NONE, old |-> n, at |-> 1, new |-> <<>>,
                         backlog_size |-> Len(n)]
      BY <1>1, <1>2, <1>3 DEF UInv, UploadTypeOK, ClientRec
    <2>2. \A d \in Clients \ {c} : client'[d] = client[d] BY <1>1 DEF UInv, UploadTypeOK
    <2>3. client'[c] \in ClientRec BY <2>1, <1>3 DEF ClientRec
    <2>4. QED BY <1>1, <2>1, <2>2, <2>3 DEF UInv, UploadTypeOK
  <1>5. UploadTypeOK' BY <1>1, <1>4 DEF UInv, UploadTypeOK, WuTypeOK
  <1>6. AttemptsInOrder' /\ FilesOnDisk' BY <1>1, TableKept
  <1>7. TableInHand' /\ ThreadInv' BY <1>1 DEF UInv, TableInHand, ThreadInv, Ended, Handed
  <1>8. ClientInHand(c)'
    <2>1. client'[c].phase = "post" /\ client'[c].old = n /\ client'[c].new = <<>> BY <1>4
    <2>2. \A w : Handed(w)' <=> Handed(w) BY <1>1 DEF Handed
    <2>3. \A i \in DOMAIN n : Handed(n[i]) BY <1>2, <1>3
    <2> HIDE DEF n
    <2>4. QED BY <2>1, <2>2, <2>3 DEF ClientInHand
  <1>9. ClientInv(c)' BY <1>4 DEF ClientInv
  <1>10. ASSUME NEW w \in Wuids, Has(c, w) PROVE Has(c, w)'
    <2>1. w = client[c].wu \/ \E i \in 1 .. Len(o) : w = o[i]
      BY <1>2, <1>10 DEF Has, InBacklog
    <2>2. \E i \in 1 .. Len(n) : w = n[i] BY <2>1, <1>3
    <2>3. QED BY <1>4, <2>2 DEF Has, InBacklog
  <1>11. ClientsInv' /\ Kept' BY <1>1, <1>4, <1>8, <1>9, <1>10, OneClient DEF Handed
  <1>12. QED BY <1>5, <1>6, <1>7, <1>11 DEF UInv

(* A client that is uploading goes to another phase of its upload.         *)
LEMMA PhaseOnly ==
    ASSUME UInv, NEW c \in Clients, NEW p \in {"post", "wait", "failed"},
           client[c].phase \notin {"idle", "run"}, p # "post" => More(c),
           client' = [client EXCEPT ![c].phase = p],
           \A w \in Wuids : wus'[w].assignedclient = wus[w].assignedclient /\ (Handed(w) => Handed(w)'),
           UNCHANGED <<settled, lost>>
    PROVE  client' \in [Clients -> ClientRec] /\ ClientsInv' /\ Kept'
  <1>1. client \in [Clients -> ClientRec] /\ client[c] \in ClientRec BY DEF UInv, UploadTypeOK
  <1>2. /\ client'[c].phase = p /\ client'[c].wu = client[c].wu /\ client'[c].old = client[c].old
        /\ client'[c].at = client[c].at /\ client'[c].new = client[c].new
        /\ client'[c].backlog_size = client[c].backlog_size
        /\ client'[c] \in ClientRec
    BY <1>1 DEF ClientRec
  <1>3. \A d \in Clients \ {c} : client'[d] = client[d] BY <1>1
  <1>4. client' \in [Clients -> ClientRec] BY <1>1, <1>2, <1>3
  <1>5. ClientInHand(c) /\ ClientInv(c) BY DEF UInv, ClientsInv
  <1>6. ClientInHand(c)'
    <2>1. client[c].old \in Seq(Wuids) /\ client[c].new \in Seq(Wuids) BY <1>1 DEF ClientRec
    <2>2. /\ \A i \in DOMAIN client[c].old : client[c].old[i] \in Wuids
          /\ \A i \in DOMAIN client[c].new : client[c].new[i] \in Wuids
      BY <2>1
    <2>3. \A w \in Wuids : Handed(w) => Handed(w)' OBVIOUS
    <2>4. QED BY <1>2, <1>5, <2>2, <2>3 DEF ClientInHand, Handed
  <1>7. ClientInv(c)' BY <1>2, <1>5 DEF ClientInv, More
  <1>8. \A w \in Wuids : Has(c, w) => Has(c, w)' BY <1>2 DEF Has, InBacklog
  <1>9. QED BY <1>3, <1>4, <1>6, <1>7, <1>8, OneClient

LEMMA CurrentIsHanded ==
    ASSUME UInv, NEW c \in Clients, More(c)
    PROVE  Current(c) \in Wuids /\ Handed(Current(c))
  <1>1. client[c].old \in Seq(Wuids) /\ client[c].at \in Nat \ {0} BY DEF UInv, UploadTypeOK, ClientRec
  <1>2. client[c].at \in 1 .. Len(client[c].old) BY <1>1 DEF More
  <1>3. client[c].at \in DOMAIN client[c].old BY <1>1, <1>2, LenProperties
  <1>4. QED BY <1>1, <1>2, <1>3, ElementOfSeq DEF UInv, ClientsInv, ClientInHand, Current

LEMMA PostStep == ASSUME UInv, NEW c \in Clients, Post(c) PROVE UInv'
  <1>1. /\ client[c].phase = "post" /\ More(c)
        /\ client' = [client EXCEPT ![c].phase = "wait"]
        /\ UNCHANGED <<wus, disk, cycle, settled, lost, todo, faults, timeouts>>
        /\ threads' = threads \cup
              {[wu |-> Current(c), c |-> c, at |-> "check", path |-> NONE, data |-> Contents(Current(c))]}
        /\ spent' = spent \cup {Current(c)}
    BY DEF Post
  <1>2. Current(c) \in Wuids /\ Handed(Current(c)) BY <1>1, CurrentIsHanded
  <1>3. client' \in [Clients -> ClientRec] /\ ClientsInv' /\ Kept' BY <1>1, PhaseOnly DEF Handed
  <1>4. threads' \subseteq [wu : Wuids, c : Clients, at : {"check", "save", "record"},
                            path : Paths \cup {NONE}, data : {"data", "empty"}]
    BY <1>1, <1>2 DEF UInv, UploadTypeOK, Contents
  <1>5. UploadTypeOK' BY <1>1, <1>2, <1>3, <1>4 DEF UInv, UploadTypeOK, WuTypeOK
  <1>6. AttemptsInOrder' /\ FilesOnDisk' BY <1>1, TableKept
  <1>7. TableInHand' /\ ThreadInv' BY <1>1, <1>2 DEF UInv, TableInHand, ThreadInv, Ended, Handed
  <1>8. QED BY <1>3, <1>5, <1>6, <1>7 DEF UInv

LEMMA FailStep == ASSUME UInv, NEW c \in Clients, ConnectionError(c) \/ Retry(c) PROVE UInv'
  <1>1. /\ client[c].phase \in {"post", "wait", "failed"}
        /\ \E p \in {"post", "failed"} : client' = [client EXCEPT ![c].phase = p] /\ (p = "failed" => More(c))
        /\ UNCHANGED <<wus, disk, cycle, threads, settled, lost, todo, timeouts>>
        /\ spent' = spent \/ (More(c) /\ spent' = spent \cup {Current(c)})
    <2>1. client[c].phase = "wait" => More(c) BY DEF UInv, ClientsInv, ClientInv
    <2>2. QED BY <2>1 DEF ConnectionError, Retry
  <1>2. client' \in [Clients -> ClientRec] /\ ClientsInv' /\ Kept' BY <1>1, PhaseOnly DEF Handed
  <1>3. spent' \subseteq Wuids BY <1>1, CurrentIsHanded DEF UInv, UploadTypeOK
  <1>4. UploadTypeOK' BY <1>1, <1>2, <1>3 DEF UInv, UploadTypeOK, WuTypeOK
  <1>5. AttemptsInOrder' /\ FilesOnDisk' BY <1>1, TableKept
  <1>6. TableInHand' /\ ThreadInv' BY <1>1 DEF UInv, TableInHand, ThreadInv, Ended, Handed
  <1>7. QED BY <1>2, <1>4, <1>5, <1>6 DEF UInv

LEMMA GiveUpUploadStep == ASSUME UInv, NEW c \in Clients, GiveUpUpload(c) PROVE UInv'
  <1>1. /\ client[c].phase = "failed" /\ client[c] \in ClientRec
        /\ client' = [client EXCEPT ![c].phase = "post", ![c].at = @ + 1, ![c].new = Append(@, Current(c))]
        /\ UNCHANGED <<wus, disk, cycle, threads, spent, settled, lost, todo, faults, timeouts>>
    BY DEF GiveUpUpload, UInv, UploadTypeOK
  <1>2. ClientInHand(c) /\ ClientInv(c) /\ More(c) BY <1>1 DEF UInv, ClientsInv, ClientInv
  <1>3. Current(c) \in Wuids /\ Handed(Current(c)) BY <1>2, CurrentIsHanded
  <1> DEFINE o == client[c].new
             n == Append(o, Current(c))
  <1>4. /\ o \in Seq(Wuids) /\ n \in Seq(Wuids) /\ Len(n) = Len(o) + 1 /\ Len(o) \in Nat
        /\ \A i \in 1 .. Len(o) : n[i] = o[i]
        /\ n[Len(o) + 1] = Current(c)
        /\ DOMAIN n = 1 .. (Len(o) + 1) /\ DOMAIN o = 1 .. Len(o)
    <2>1. o \in Seq(Wuids) BY <1>1 DEF ClientRec
    <2>2. QED BY <1>3, <2>1, AppendProperties, LenProperties
  <1>5. client[c].at \in Nat /\ client[c].at + 1 \in Nat \ {0} /\ client[c].old \in Seq(Wuids)
    BY <1>1 DEF ClientRec
  <1>6. /\ client'[c] = [phase |-> "post", wu |-> client[c].wu, old |-> client[c].old,
                         at |-> client[c].at + 1, new |-> n, backlog_size |-> client[c].backlog_size]
        /\ \A d \in Clients \ {c} : client'[d] = client[d]
        /\ client' \in [Clients -> ClientRec]
    <2>1. client'[c] = [phase |-> "post", wu |-> client[c].wu, old |-> client[c].old,
                         at |-> client[c].at + 1, new |-> n, backlog_size |-> client[c].backlog_size]
      BY <1>1 DEF UInv, UploadTypeOK, ClientRec
    <2>2. \A d \in Clients \ {c} : client'[d] = client[d] BY <1>1 DEF UInv, UploadTypeOK
    <2>3. client'[c] \in ClientRec BY <2>1, <1>1, <1>4, <1>5 DEF ClientRec
    <2>4. QED BY <1>1, <2>1, <2>2, <2>3 DEF UInv, UploadTypeOK
  <1>7. UploadTypeOK' BY <1>1, <1>6 DEF UInv, UploadTypeOK, WuTypeOK
  <1>8. AttemptsInOrder' /\ FilesOnDisk' BY <1>1, TableKept
  <1>9. TableInHand' /\ ThreadInv' BY <1>1 DEF UInv, TableInHand, ThreadInv, Ended, Handed
  <1>10. ClientInHand(c)' BY <1>1, <1>2, <1>3, <1>4, <1>6, SMTT(30) DEF ClientInHand, Handed
  <1>11. ClientInv(c)' BY <1>2, <1>6 DEF ClientInv
  <1>12. ASSUME NEW w \in Wuids, Has(c, w) PROVE Has(c, w)'
    <2>1. \/ \E i \in client[c].at .. Len(client[c].old) : w = client[c].old[i]
          \/ \E i \in DOMAIN o : w = o[i]
      BY <1>1, <1>12 DEF Has, InBacklog
    <2>2. \/ \E i \in (client[c].at + 1) .. Len(client[c].old) : w = client[c].old[i]
          \/ \E i \in DOMAIN n : w = n[i]
      <3>1. ASSUME NEW i \in client[c].at .. Len(client[c].old), w = client[c].old[i]
            PROVE  \/ i \in (client[c].at + 1) .. Len(client[c].old)
                   \/ w = n[Len(o) + 1] /\ Len(o) + 1 \in DOMAIN n
        <4>1. Len(client[c].old) \in Nat BY <1>5, LenProperties
        <4>2. CASE i = client[c].at BY <1>4, <3>1, <4>2 DEF Current
        <4>3. CASE i # client[c].at BY <1>5, <3>1, <4>1, <4>3
        <4>4. QED BY <4>2, <4>3
      <3>2. QED BY <1>4, <2>1, <3>1
    <2>3. QED BY <1>6, <2>2 DEF Has, InBacklog
  <1>13. ClientsInv' /\ Kept' BY <1>1, <1>6, <1>10, <1>11, <1>12, OneClient DEF Handed
  <1>14. QED BY <1>7, <1>8, <1>9, <1>13 DEF UInv

LEMMA EndUploadsStep == ASSUME UInv, NEW c \in Clients, EndUploads(c) PROVE UInv'
  <1>1. /\ client[c].phase = "post" /\ ~More(c) /\ client[c] \in ClientRec
        /\ client' = [client EXCEPT ![c].phase = "idle", ![c].old = client[c].new, ![c].at = 1,
                         ![c].new = <<>>, ![c].backlog_size = @ - (Len(client[c].old) - Len(client[c].new))]
        /\ UNCHANGED <<wus, disk, cycle, threads, spent, settled, lost, todo, faults, timeouts>>
    BY DEF EndUploads, UInv, UploadTypeOK
  <1>2. ClientInHand(c) /\ client[c].backlog_size = Len(client[c].old)
    BY DEF UInv, ClientsInv, ClientInv
  <1>3. /\ client[c].old \in Seq(Wuids) /\ client[c].new \in Seq(Wuids) /\ client[c].at \in Nat
        /\ Len(client[c].old) \in Nat /\ Len(client[c].new) \in Nat
        /\ DOMAIN client[c].new = 1 .. Len(client[c].new)
    BY <1>1, LenProperties DEF ClientRec
  <1>4. client[c].backlog_size - (Len(client[c].old) - Len(client[c].new)) = Len(client[c].new)
    BY <1>2, <1>3
  <1>5. /\ client'[c] = [phase |-> "idle", wu |-> client[c].wu, old |-> client[c].new,
                         at |-> 1, new |-> <<>>, backlog_size |-> Len(client[c].new)]
        /\ \A d \in Clients \ {c} : client'[d] = client[d]
        /\ client' \in [Clients -> ClientRec]
    <2>1. client'[c] = [phase |-> "idle", wu |-> client[c].wu, old |-> client[c].new,
                         at |-> 1, new |-> <<>>, backlog_size |-> Len(client[c].new)]
      BY <1>1, <1>4 DEF UInv, UploadTypeOK, ClientRec
    <2>2. \A d \in Clients \ {c} : client'[d] = client[d] BY <1>1 DEF UInv, UploadTypeOK
    <2>3. client'[c] \in ClientRec BY <2>1, <1>1, <1>3 DEF ClientRec
    <2>4. QED BY <1>1, <2>1, <2>2, <2>3 DEF UInv, UploadTypeOK
  <1>6. UploadTypeOK' BY <1>1, <1>5 DEF UInv, UploadTypeOK, WuTypeOK
  <1>7. AttemptsInOrder' /\ FilesOnDisk' BY <1>1, TableKept
  <1>8. TableInHand' /\ ThreadInv' BY <1>1 DEF UInv, TableInHand, ThreadInv, Ended, Handed
  <1>9. ClientInHand(c)'
    <2>1. /\ client'[c].phase = "idle" /\ client'[c].old = client[c].new /\ client'[c].new = <<>>
      BY <1>5
    <2>2. \A w : Handed(w)' <=> Handed(w) BY <1>1 DEF Handed
    <2>3. \A i \in DOMAIN client[c].new : Handed(client[c].new[i]) BY <1>2 DEF ClientInHand
    <2>4. QED BY <2>1, <2>2, <2>3 DEF ClientInHand
  <1>10. ClientInv(c)' BY <1>5 DEF ClientInv
  <1>11. ASSUME NEW w \in Wuids, Has(c, w) PROVE Has(c, w)'
    <2>1. client[c].at .. Len(client[c].old) = {} BY <1>1, <1>3 DEF More
    <2>2. \E i \in DOMAIN client[c].new : w = client[c].new[i]
      BY <1>1, <1>11, <2>1 DEF Has, InBacklog
    <2>3. \E i \in 1 .. Len(client[c].new) : w = client[c].new[i] BY <1>3, <2>2
    <2>4. QED BY <1>5, <2>3 DEF Has, InBacklog
  <1>12. ClientsInv' /\ Kept' BY <1>1, <1>5, <1>9, <1>10, <1>11, OneClient DEF Handed
  <1>13. QED BY <1>6, <1>7, <1>8, <1>12 DEF UInv

-------------------------------------------------------------------------------
(* assign(): the row was in nobody's hands.                                *)
LEMMA FetchWuStep == ASSUME UInv, NEW c \in Clients, FetchWu(c) PROVE UInv'
  <1>1. PICK w \in Wuids :
          /\ client[c].phase = "idle" /\ wus[w].status = "AVAILABLE"
          /\ wus' = [wus EXCEPT ![w] = AssignedRow(wus[w], c)]
          /\ client' = [client EXCEPT ![c].phase = "run", ![c].wu = w]
          /\ UNCHANGED <<disk, cycle, threads, spent, settled, lost, todo, faults, timeouts>>
    BY DEF FetchWu, WithStatus
  <1>2. wus \in [Wuids -> Row] /\ client \in [Clients -> ClientRec] /\ client[c] \in ClientRec
    BY DEF UInv, UploadTypeOK, WuTypeOK
  <1>3. /\ wus'[w].status = "ASSIGNED" /\ wus'[w].assignedclient = c
        /\ wus'[w].files = wus[w].files
        /\ wus'[w] \in Row
        /\ \A v \in Wuids \ {w} : wus'[v] = wus[v]
    BY <1>1, <1>2 DEF AssignedRow, Row, WuStatus
  <1>4. wus' \in [Wuids -> Row] BY <1>1, <1>2, <1>3
  <1>5. /\ client'[c].phase = "run" /\ client'[c].wu = w
        /\ client'[c].old = client[c].old /\ client'[c].new = client[c].new
        /\ client'[c].at = client[c].at /\ client'[c].backlog_size = client[c].backlog_size
        /\ client'[c] \in ClientRec
        /\ \A d \in Clients \ {c} : client'[d] = client[d]
    BY <1>1, <1>2 DEF ClientRec
  <1>6. client' \in [Clients -> ClientRec] BY <1>1, <1>2, <1>5
  <1>7. UploadTypeOK' BY <1>1, <1>4, <1>6 DEF UInv, UploadTypeOK, WuTypeOK
  <1>8. \A v \in Wuids : Handed(v) => v # w /\ Handed(v)' BY <1>1, <1>3 DEF Handed
  <1>9. AttemptsInOrder' BY <1>1, <1>3 DEF UInv, AttemptsInOrder
  <1>10. wus[w].files = {} BY <1>1 DEF UInv, FilesOnDisk, Ended, Handed
  <1>11. FilesOnDisk' BY <1>1, <1>3, <1>10 DEF UInv, FilesOnDisk, Ended, Handed
  <1>12. TableInHand'
    <2>1. w \notin settled /\ w \notin todo /\ \A t \in threads : t.wu # w
      BY <1>1 DEF UInv, TableInHand, Ended, Handed
    <2>2. settled \subseteq Wuids /\ todo \subseteq Wuids /\ \A t \in threads : t.wu \in Wuids
      BY DEF UInv, UploadTypeOK
    <2>3. QED BY <1>1, <1>3, <2>1, <2>2 DEF UInv, TableInHand, Ended, Handed
  <1>13. ThreadInv'
    <2>1. \A t \in threads : t.wu # w /\ t.wu \in Wuids
      BY <1>1 DEF UInv, TableInHand, Handed, UploadTypeOK
    <2>2. \A v \in Wuids : wus'[v].files = wus[v].files BY <1>3
    <2>3. QED BY <1>1, <1>3, <2>1, <2>2 DEF UInv, ThreadInv
  <1>14. ASSUME NEW d \in Clients
         PROVE  ClientInHand(d)' /\ ClientInv(d)' /\ \A v \in Wuids : Has(d, v) => Has(d, v)'
    <2>1. ClientInHand(d) /\ ClientInv(d) BY DEF UInv, ClientsInv
    <2>2. /\ client'[d].old = client[d].old /\ client'[d].new = client[d].new
          /\ client'[d].at = client[d].at /\ client'[d].backlog_size = client[d].backlog_size
          /\ client'[d].phase = IF d = c THEN "run" ELSE client[d].phase
          /\ client'[d].wu = IF d = c THEN w ELSE client[d].wu
      BY <1>5
    <2>3. /\ \A i \in DOMAIN client[d].old : client[d].old[i] \in Wuids
          /\ \A i \in DOMAIN client[d].new : client[d].new[i] \in Wuids
      <3>1. client[d].old \in Seq(Wuids) /\ client[d].new \in Seq(Wuids) BY <1>2 DEF ClientRec
      <3>2. QED BY <3>1
    <2>4. Handed(w)' BY <1>3 DEF Handed
    <2>5. ClientInHand(d)' BY <1>8, <2>1, <2>2, <2>3, <2>4 DEF ClientInHand, Handed
    <2>6. ClientInv(d)' BY <1>1, <2>1, <2>2 DEF ClientInv, More
    <2>7. \A v \in Wuids : Has(d, v) => Has(d, v)' BY <1>1, <2>2 DEF Has, InBacklog
    <2>8. QED BY <2>5, <2>6, <2>7
  <1>15. ClientsInv' BY <1>14 DEF ClientsInv
  <1>16. Kept'
    <2>1. ASSUME NEW v \in Wuids, wus'[v].assignedclient # NONE
          PROVE  (Has(wus[v].assignedclient, v) \/ v \in settled \cup lost)'
      <3>1. CASE v = w
        <4>1. Has(c, w)' BY <1>5 DEF Has
        <4>2. QED BY <1>3, <3>1, <4>1 DEF Has, InBacklog
      <3>2. CASE v # w
        <4>1. wus'[v] = wus[v] /\ wus[v].assignedclient \in Clients BY <1>2, <1>3, <2>1, <3>2 DEF Row
        <4>2. PICK a \in Clients : a = wus[v].assignedclient BY <4>1
        <4>3. Has(a, v) \/ v \in settled \cup lost BY <2>1, <4>1, <4>2 DEF UInv, Kept
        <4>4. Has(a, v)' \/ v \in (settled \cup lost)' BY <1>1, <1>14, <4>3
        <4>5. QED BY <4>1, <4>2, <4>4 DEF Has, InBacklog
      <3>3. QED BY <3>1, <3>2
    <2>2. QED BY <2>1 DEF Kept
  <1>17. QED BY <1>7, <1>9, <1>11, <1>12, <1>13, <1>15, <1>16 DEF UInv

LEMMA LoseWuStep == ASSUME UInv, NEW c \in Clients, LoseWu(c) PROVE UInv'
  <1>1. PICK w \in Wuids :
          /\ wus[w].status = "AVAILABLE"
          /\ wus' = [wus EXCEPT ![w] = AssignedRow(wus[w], c)]
          /\ lost' = lost \cup {w}
          /\ UNCHANGED <<disk, cycle, threads, client, spent, settled, todo, timeouts>>
    BY DEF LoseWu, WithStatus
  <1>2. wus \in [Wuids -> Row] BY DEF UInv, UploadTypeOK, WuTypeOK
  <1>3. /\ wus'[w].status = "ASSIGNED" /\ wus'[w].files = wus[w].files /\ wus'[w] \in Row
        /\ \A v \in Wuids \ {w} : wus'[v] = wus[v]
    BY <1>1, <1>2 DEF AssignedRow, Row, WuStatus
  <1>4. wus' \in [Wuids -> Row] BY <1>1, <1>2, <1>3
  <1>5. UploadTypeOK' BY <1>1, <1>4 DEF UInv, UploadTypeOK, WuTypeOK
  <1>6. \A v \in Wuids : Handed(v) => v # w /\ Handed(v)' BY <1>1, <1>3 DEF Handed
  <1>7. AttemptsInOrder' BY <1>1, <1>3 DEF UInv, AttemptsInOrder
  <1>8. wus[w].files = {} BY <1>1 DEF UInv, FilesOnDisk, Ended, Handed
  <1>9. FilesOnDisk' BY <1>1, <1>3, <1>8 DEF UInv, FilesOnDisk, Ended, Handed
  <1>10. TableInHand'
    <2>1. w \notin settled /\ w \notin todo /\ \A t \in threads : t.wu # w
      BY <1>1 DEF UInv, TableInHand, Ended, Handed
    <2>2. settled \subseteq Wuids /\ todo \subseteq Wuids /\ \A t \in threads : t.wu \in Wuids
      BY DEF UInv, UploadTypeOK
    <2>3. QED BY <1>1, <1>3, <2>1, <2>2 DEF UInv, TableInHand, Ended, Handed
  <1>11. ThreadInv'
    <2>1. \A t \in threads : t.wu # w /\ t.wu \in Wuids
      BY <1>1 DEF UInv, TableInHand, Handed, UploadTypeOK
    <2>2. \A v \in Wuids : wus'[v].files = wus[v].files BY <1>3
    <2>3. QED BY <1>1, <1>3, <2>1, <2>2 DEF UInv, ThreadInv
  <1>12. ClientsInv'
    <2>1. ASSUME NEW d \in Clients PROVE ClientInHand(d)' /\ ClientInv(d)'
      <3>1. ClientInHand(d) /\ ClientInv(d) /\ client' = client BY <1>1 DEF UInv, ClientsInv
      <3>2. client[d].old \in Seq(Wuids) /\ client[d].new \in Seq(Wuids)
        BY DEF UInv, UploadTypeOK, ClientRec
      <3>3. /\ \A i \in DOMAIN client[d].old : client[d].old[i] \in Wuids
            /\ \A i \in DOMAIN client[d].new : client[d].new[i] \in Wuids
        BY <3>2
      <3>4. ClientInHand(d)' BY <1>6, <3>1, <3>3 DEF ClientInHand, Handed
      <3>5. ClientInv(d)' BY <3>1 DEF ClientInv, More
      <3>6. QED BY <3>4, <3>5
    <2>2. QED BY <2>1 DEF ClientsInv
  <1>13. Kept'
    <2>1. ASSUME NEW v \in Wuids, wus'[v].assignedclient # NONE
          PROVE  (Has(wus[v].assignedclient, v) \/ v \in settled \cup lost)'
      <3>1. CASE v = w BY <1>1, <3>1
      <3>2. CASE v # w
        <4>1. wus'[v] = wus[v] BY <1>3, <3>2
        <4>2. Has(wus[v].assignedclient, v) \/ v \in settled \cup lost
          BY <2>1, <4>1 DEF UInv, Kept
        <4>3. QED BY <1>1, <4>1, <4>2 DEF Has, InBacklog
      <3>3. QED BY <3>1, <3>2
    <2>2. QED BY <2>1 DEF Kept
  <1>14. QED BY <1>5, <1>7, <1>9, <1>10, <1>11, <1>12, <1>13 DEF UInv

(* The answer: an upload that is acknowledged leaves the backlog, and its  *)
(* work-unit is settled.                                                   *)
LEMMA RespondKeeps ==
    ASSUME UInv, NEW t \in threads, NEW ok \in BOOLEAN, Respond(t, ok), UNCHANGED lost,
           ok => Ended(t.wu)',
           \A w \in Wuids : /\ wus'[w].assignedclient = wus[w].assignedclient
                            /\ Handed(w) => Handed(w)'
                            /\ Ended(w) => Ended(w)'
    PROVE  /\ client' \in [Clients -> ClientRec] /\ ClientsInv' /\ Kept'
           /\ settled' \subseteq Wuids /\ \A w \in settled' : Ended(w)'
  <1>1. /\ t.c \in Clients /\ t.wu \in Wuids /\ client \in [Clients -> ClientRec] /\ settled \subseteq Wuids
        /\ \A w \in settled : Ended(w)'
    BY DEF UInv, UploadTypeOK, TableInHand
  <1>2. PICK c \in Clients : c = t.c BY <1>1
  <1>3. CASE client[c].phase = "wait" /\ Current(c) = t.wu /\ ok
    <2>1. /\ client' = [client EXCEPT ![c].phase = "post", ![c].at = @ + 1]
          /\ settled' = settled \cup {t.wu}
      BY <1>2, <1>3 DEF Respond
    <2>2. client[c] \in ClientRec /\ client[c].at + 1 \in Nat \ {0}
      <3>1. client[c] \in ClientRec BY <1>1
      <3>2. QED BY <3>1 DEF ClientRec
    <2>3. /\ client'[c].phase = "post" /\ client'[c].at = client[c].at + 1
          /\ client'[c].wu = client[c].wu /\ client'[c].old = client[c].old
          /\ client'[c].new = client[c].new /\ client'[c].backlog_size = client[c].backlog_size
          /\ client'[c] \in ClientRec
          /\ \A d \in Clients \ {c} : client'[d] = client[d]
      BY <1>1, <2>1, <2>2 DEF ClientRec
    <2>4. client' \in [Clients -> ClientRec] BY <1>1, <2>1, <2>3
    <2>5. ClientInHand(c) /\ ClientInv(c) BY DEF UInv, ClientsInv
    <2>6. ClientInHand(c)'
      <3>1. client[c].old \in Seq(Wuids) /\ client[c].new \in Seq(Wuids) BY <2>2 DEF ClientRec
      <3>2. /\ \A i \in DOMAIN client[c].old : client[c].old[i] \in Wuids
            /\ \A i \in DOMAIN client[c].new : client[c].new[i] \in Wuids
        BY <3>1
      <3>3. \A w \in Wuids : Handed(w) => Handed(w)' OBVIOUS
      <3>4. QED BY <2>3, <2>5, <3>2, <3>3 DEF ClientInHand, Handed
    <2>7. ClientInv(c)' BY <2>3, <2>5 DEF ClientInv
    <2>8. ASSUME NEW w \in Wuids, Has(c, w) PROVE Has(c, w)' \/ w \in settled'
      <3>1. \/ \E i \in client[c].at .. Len(client[c].old) : w = client[c].old[i]
            \/ \E i \in DOMAIN client[c].new : w = client[c].new[i]
        BY <1>3, <2>8 DEF Has, InBacklog
      <3>2. ASSUME NEW i \in client[c].at .. Len(client[c].old), w = client[c].old[i]
            PROVE  i \in (client[c].at + 1) .. Len(client[c].old) \/ w \in settled'
        <4>1. Len(client[c].old) \in Nat /\ client[c].at \in Nat BY <2>2, LenProperties DEF ClientRec
        <4>2. CASE i = client[c].at BY <1>3, <2>1, <3>2, <4>2 DEF Current
        <4>3. CASE i # client[c].at BY <4>1, <3>2, <4>3
        <4>4. QED BY <4>2, <4>3
      <3>3. QED BY <2>3, <3>1, <3>2 DEF Has, InBacklog
    <2>9. settled \subseteq settled' /\ settled' \subseteq Wuids BY <1>1, <2>1
    <2>10. ClientsInv' /\ Kept' BY <2>3, <2>6, <2>7, <2>8, <2>9, OneClient
    <2>11. \A w \in settled' : Ended(w)' BY <1>1, <1>3, <2>1 DEF Ended, Handed
    <2>12. QED BY <2>4, <2>9, <2>10, <2>11
  <1>4. CASE client[c].phase = "wait" /\ Current(c) = t.wu /\ ~ok
    <2>1. client' = [client EXCEPT ![c].phase = "failed"] /\ UNCHANGED settled
      BY <1>2, <1>4 DEF Respond
    <2>2. More(c) BY <1>4 DEF UInv, ClientsInv, ClientInv
    <2>3. client' \in [Clients -> ClientRec] /\ ClientsInv' /\ Kept' BY <1>4, <2>1, <2>2, PhaseOnly
    <2>4. QED BY <1>1, <2>1, <2>3
  <1>5. CASE ~(client[c].phase = "wait" /\ Current(c) = t.wu)
    <2>1. UNCHANGED <<client, settled>> BY <1>2, <1>5 DEF Respond
    <2>2. ClientInHand(c) /\ ClientInv(c) BY DEF UInv, ClientsInv
    <2>3. ClientInHand(c)'
      <3>1. client[c].old \in Seq(Wuids) /\ client[c].new \in Seq(Wuids) BY <1>1 DEF ClientRec
      <3>2. /\ \A i \in DOMAIN client[c].old : client[c].old[i] \in Wuids
            /\ \A i \in DOMAIN client[c].new : client[c].new[i] \in Wuids
        BY <3>1
      <3>3. \A w \in Wuids : Handed(w) => Handed(w)' OBVIOUS
      <3>4. QED BY <2>1, <2>2, <3>2, <3>3 DEF ClientInHand, Handed
    <2>4. ClientInv(c)' BY <2>1, <2>2 DEF ClientInv, More
    <2>5. \A w \in Wuids : Has(c, w) => Has(c, w)' BY <2>1 DEF Has, InBacklog
    <2>6. ClientsInv' /\ Kept' BY <2>1, <2>3, <2>4, <2>5, OneClient
    <2>7. QED BY <1>1, <2>1, <2>6
  <1>6. QED BY <1>3, <1>4, <1>5

LEMMA CheckFileStep == ASSUME UInv, NEW t \in threads, CheckFile(t) PROVE UInv'
  <1>1. /\ cycle' \in {NextDir, cycle} /\ UNCHANGED <<wus, disk, spent, lost, todo, faults, timeouts>>
        /\ t.wu \in Wuids /\ t.c \in Clients /\ cycle \in Dirs
    BY DEF CheckFile, UInv, UploadTypeOK
  <1>2. cycle' \in Dirs BY <1>1, DirsSize DEF NextDir
  <1>3. <<cycle, t.wu[1]>> \in Paths /\ <<cycle, t.wu[1]>>[2] = t.wu[1] BY <1>1, WuidIsPair
  <1>4. PICK p \in Paths : p = <<cycle, t.wu[1]>> BY <1>3
  <1>5. AttemptsInOrder' /\ FilesOnDisk' BY <1>1, TableKept
  <1>6. \A w \in Wuids : wus'[w].assignedclient = wus[w].assignedclient /\ (Handed(w) => Handed(w)')
                         /\ (Ended(w) => Ended(w)')
    BY <1>1 DEF Handed, Ended
  <1>7. CASE disk[p] = "none" /\ threads' = (threads \ {t}) \cup {[t EXCEPT !.at = "save", !.path = p]}
             /\ UNCHANGED <<client, settled>>
    <2> DEFINE u == [t EXCEPT !.at = "save", !.path = p]
    <2>1. /\ u.at = "save" /\ u.path = p /\ u.wu = t.wu
          /\ u \in [wu : Wuids, c : Clients, at : {"check", "save", "record"},
                            path : Paths \cup {NONE}, data : {"data", "empty"}]
      BY DEF UInv, UploadTypeOK
    <2> HIDE DEF u
    <2>2. threads' \subseteq [wu : Wuids, c : Clients, at : {"check", "save", "record"},
                            path : Paths \cup {NONE}, data : {"data", "empty"}]
      BY <1>7, <2>1 DEF UInv, UploadTypeOK, u
    <2>3. UploadTypeOK' BY <1>1, <1>2, <1>7, <2>2 DEF UInv, UploadTypeOK, WuTypeOK
    <2>4. \A x \in threads' : x = u \/ x \in threads BY <1>7 DEF u
    <2>5. TableInHand' BY <1>1, <1>7, <2>1, <2>4 DEF UInv, TableInHand, Ended, Handed
    <2>6. \A v \in Wuids : p \notin wus[v].files BY <1>7 DEF UInv, FilesOnDisk
    <2>7. ThreadInv' BY <1>1, <1>3, <1>4, <2>1, <2>4, <2>6 DEF UInv, ThreadInv
    <2>8. ClientsInv' /\ Kept'
      BY <1>1, <1>7 DEF UInv, ClientsInv, ClientInHand, ClientInv, More, Handed, Kept, Has, InBacklog
    <2>9. QED BY <1>5, <2>3, <2>5, <2>7, <2>8 DEF UInv
  <1>8. CASE threads' = threads \ {t} /\ Respond(t, FALSE)
    <2>1. /\ client' \in [Clients -> ClientRec] /\ ClientsInv' /\ Kept'
          /\ settled' \subseteq Wuids /\ \A w \in settled' : Ended(w)'
      BY <1>1, <1>6, <1>8, RespondKeeps
    <2>2. UploadTypeOK' BY <1>1, <1>2, <1>8, <2>1 DEF UInv, UploadTypeOK, WuTypeOK
    <2>3. TableInHand' BY <1>1, <1>8, <2>1 DEF UInv, TableInHand, Ended, Handed
    <2>4. ThreadInv' BY <1>1, <1>8 DEF UInv, ThreadInv
    <2>5. QED BY <1>5, <2>1, <2>2, <2>3, <2>4 DEF UInv
  <1>9. QED BY <1>4, <1>7, <1>8 DEF CheckFile

LEMMA SaveFileStep == ASSUME UInv, NEW t \in threads, SaveFile(t) PROVE UInv'
  <1> DEFINE u == [t EXCEPT !.at = "record"]
  <1>1. /\ t.at = "save" /\ disk' = [disk EXCEPT ![t.path] = t.data]
        /\ threads' = (threads \ {t}) \cup {u}
        /\ UNCHANGED <<wus, cycle, client, spent, settled, lost, todo, faults, timeouts>>
    BY DEF SaveFile
  <1>2. /\ t.data \in {"data", "empty"} /\ disk \in [Paths -> {"none", "data", "empty"}]
        /\ t.path \in Paths /\ t.path[2] = t.wu[1]
        /\ wus[t.wu].status = "ASSIGNED" => \A v \in Wuids : t.path \notin wus[v].files
    BY <1>1 DEF UInv, UploadTypeOK, ThreadInv
  <1>3. /\ u.at = "record" /\ u.path = t.path /\ u.wu = t.wu
        /\ u \in [wu : Wuids, c : Clients, at : {"check", "save", "record"},
                          path : Paths \cup {NONE}, data : {"data", "empty"}]
    BY DEF UInv, UploadTypeOK
  <1>4. \A x \in threads' : x = u \/ x \in threads BY <1>1
  <1> HIDE DEF u
  <1>5. disk' \in [Paths -> {"none", "data", "empty"}] /\ disk'[t.path] # "none"
        /\ \A p \in Paths : disk[p] # "none" => disk'[p] # "none"
    BY <1>1, <1>2
  <1>6. threads' \subseteq [wu : Wuids, c : Clients, at : {"check", "save", "record"},
                          path : Paths \cup {NONE}, data : {"data", "empty"}]
    BY <1>3, <1>4 DEF UInv, UploadTypeOK
  <1>7. UploadTypeOK' BY <1>1, <1>5, <1>6 DEF UInv, UploadTypeOK, WuTypeOK
  <1>8. AttemptsInOrder' BY <1>1 DEF UInv, AttemptsInOrder
  <1>9. FilesOnDisk'
    <2>1. \A w \in Wuids : wus[w].files \subseteq Paths BY DEF UInv, UploadTypeOK, WuTypeOK, Row
    <2>2. QED BY <1>1, <1>5, <2>1 DEF UInv, FilesOnDisk, Ended, Handed
  <1>10. TableInHand' BY <1>1, <1>3, <1>4 DEF UInv, TableInHand, Ended, Handed
  <1>11. ThreadInv'
    <2>1. ASSUME NEW x \in threads', x.at # "check"
          PROVE  /\ x.path \in Paths /\ x.path[2] = x.wu[1]
                 /\ x.at = "record" => disk'[x.path] # "none"
                 /\ wus'[x.wu].status = "ASSIGNED" => \A v \in Wuids : x.path \notin wus'[v].files
      <3>1. CASE x = u BY <1>1, <1>2, <1>3, <1>5, <3>1
      <3>2. CASE x \in threads BY <1>1, <1>5, <2>1, <3>2 DEF UInv, ThreadInv
      <3>3. QED BY <1>4, <3>1, <3>2
    <2>2. QED BY <2>1 DEF ThreadInv
  <1>12. ClientsInv' /\ Kept'
    BY <1>1 DEF UInv, ClientsInv, ClientInHand, ClientInv, More, Handed, Kept, Has, InBacklog
  <1>13. QED BY <1>7, <1>8, <1>9, <1>10, <1>11, <1>12 DEF UInv

(***************************************************************************)
(* Two attempts at a range that are both assigned are the same one.        *)
(***************************************************************************)
LEMMA OneIsAssigned ==
    ASSUME UInv, NEW v \in Wuids, NEW w \in Wuids, v[1] = w[1],
           wus[v].status = "ASSIGNED", wus[w].status = "ASSIGNED"
    PROVE  v = w
  <1>1. v[2] \in Nat /\ w[2] \in Nat /\ v = <<v[1], v[2]>> /\ w = <<w[1], w[2]>> BY WuidIsPair
  <1>2. ~(v[2] < w[2]) /\ ~(w[2] < v[2]) BY DEF UInv, AttemptsInOrder
  <1>3. v[2] = w[2] BY <1>1, <1>2
  <1>4. QED BY <1>1, <1>3

LEMMA RecordResultStep == ASSUME UInv, NEW t \in threads, RecordResult(t) PROVE UInv'
  <1>1. /\ t.at = "record" /\ threads' = threads \ {t}
        /\ UNCHANGED <<disk, cycle, spent, lost, todo, faults, timeouts>>
        /\ t.wu \in Wuids /\ t.c \in Clients /\ wus \in [Wuids -> Row] /\ Handed(t.wu)
        /\ t.path \in Paths /\ t.path[2] = t.wu[1] /\ disk[t.path] # "none"
    BY DEF RecordResult, UInv, UploadTypeOK, WuTypeOK, ThreadInv, TableInHand
  <1>2. CASE UNCHANGED wus
    <2>1. \A w \in Wuids : wus'[w].assignedclient = wus[w].assignedclient /\ (Handed(w) => Handed(w)')
                           /\ (Ended(w) => Ended(w)')
      BY <1>2 DEF Handed, Ended
    <2>2. \/ Respond(t, FALSE)
          \/ Respond(t, TRUE) /\ wus[t.wu].status # "ASSIGNED"
      <3>1. ~result(t.wu, t.c, {t.path}, NONE, NONE)
        <4>1. SUFFICES ASSUME result(t.wu, t.c, {t.path}, NONE, NONE) PROVE FALSE OBVIOUS
        <4>2. wus[t.wu].status = "ASSIGNED" /\ wus'[t.wu].status = "RECEIVED_OK"
          BY <1>1, <4>1 DEF result, CanResult, ResultRow
        <4>3. QED BY <1>2, <4>2
      <3>2. QED BY <3>1 DEF RecordResult
    <2>3. \E ok \in BOOLEAN : Respond(t, ok) /\ (ok => Ended(t.wu)')
      BY <1>1, <1>2, <2>2 DEF Ended, Handed
    <2>4. /\ client' \in [Clients -> ClientRec] /\ ClientsInv' /\ Kept'
          /\ settled' \subseteq Wuids /\ \A w \in settled' : Ended(w)'
      BY <1>1, <2>1, <2>3, RespondKeeps
    <2>5. AttemptsInOrder' /\ FilesOnDisk' BY <1>1, <1>2, TableKept
    <2>6. UploadTypeOK' BY <1>1, <1>2, <2>4 DEF UInv, UploadTypeOK, WuTypeOK
    <2>7. TableInHand' BY <1>1, <1>2, <2>4 DEF UInv, TableInHand, Ended, Handed
    <2>8. ThreadInv' BY <1>1, <1>2 DEF UInv, ThreadInv
    <2>9. QED BY <2>4, <2>5, <2>6, <2>7, <2>8 DEF UInv
  <1>3. CASE result(t.wu, t.c, {t.path}, NONE, NONE) /\ Respond(t, TRUE)
    <2>1. /\ wus[t.wu].status = "ASSIGNED"
          /\ wus' = [wus EXCEPT ![t.wu] = ResultRow(wus[t.wu], t.c, {t.path}, NONE, NONE)]
      BY <1>3 DEF result, CanResult
    <2>2. /\ wus'[t.wu].status = "RECEIVED_OK"
          /\ wus'[t.wu].assignedclient = wus[t.wu].assignedclient
          /\ wus'[t.wu].files = wus[t.wu].files \cup {t.path}
          /\ wus'[t.wu] \in Row
          /\ \A v \in Wuids \ {t.wu} : wus'[v] = wus[v]
      BY <1>1, <2>1 DEF ResultRow, Row, WuStatus
    <2>3. wus' \in [Wuids -> Row] BY <1>1, <2>1, <2>2
    <2>4. \A w \in Wuids : wus'[w].assignedclient = wus[w].assignedclient /\ (Handed(w) => Handed(w)')
                           /\ (Ended(w) => Ended(w)')
      BY <2>1, <2>2 DEF Handed, Ended
    <2>5. Ended(t.wu)' BY <2>2 DEF Ended, Handed
    <2>6. /\ client' \in [Clients -> ClientRec] /\ ClientsInv' /\ Kept'
          /\ settled' \subseteq Wuids /\ \A w \in settled' : Ended(w)'
      BY <1>1, <1>3, <2>4, <2>5, RespondKeeps
    <2>7. UploadTypeOK' BY <1>1, <2>3, <2>6 DEF UInv, UploadTypeOK, WuTypeOK
    <2>8. AttemptsInOrder'
      <3>1. \A v \in Wuids : wus'[v].status # "ABSENT" => wus[v].status # "ABSENT"
        BY <2>1, <2>2
      <3>2. \A v \in Wuids : wus[v].status = "CANCELLED" => wus'[v].status = "CANCELLED"
        BY <2>1, <2>2
      <3>3. QED BY <3>1, <3>2 DEF UInv, AttemptsInOrder
    <2>9. FilesOnDisk'
      <3>1. ASSUME NEW w \in Wuids, NEW p \in wus'[w].files
            PROVE  disk'[p] # "none" /\ p[2] = w[1] /\ Ended(w)'
        <4>1. CASE p \in wus[w].files BY <1>1, <2>4, <4>1 DEF UInv, FilesOnDisk
        <4>2. CASE p \notin wus[w].files
          <5>1. w = t.wu /\ p = t.path BY <2>2, <3>1, <4>2
          <5>2. QED BY <1>1, <2>5, <5>1 DEF Ended, Handed
        <4>3. QED BY <4>1, <4>2
      <3>2. QED BY <3>1 DEF FilesOnDisk, Ended, Handed
    <2>10. TableInHand'
      <3>1. \A w \in todo' : wus'[w].status \in {"ASSIGNED", "RECEIVED_OK"}
        BY <1>1, <2>2 DEF UInv, UploadTypeOK, TableInHand
      <3>2. \A x \in threads' : Handed(x.wu)'
        <4>1. ASSUME NEW x \in threads' PROVE wus'[x.wu].status \notin {"ABSENT", "AVAILABLE"}
          <5>1. x.wu \in Wuids /\ Handed(x.wu) BY <1>1 DEF UInv, UploadTypeOK, TableInHand
          <5>2. QED BY <2>2, <5>1 DEF Handed
        <4>2. QED BY <4>1 DEF Handed
      <3>3. QED BY <2>6, <3>1, <3>2 DEF TableInHand, Ended, Handed
    <2>11. ThreadInv'
      <3>1. ASSUME NEW x \in threads', x.at # "check"
            PROVE  /\ x.path \in Paths /\ x.path[2] = x.wu[1]
                   /\ x.at = "record" => disk'[x.path] # "none"
                   /\ wus'[x.wu].status = "ASSIGNED" => \A v \in Wuids : x.path \notin wus'[v].files
        <4>1. /\ x.path \in Paths /\ x.path[2] = x.wu[1] /\ x.wu \in Wuids
              /\ x.at = "record" => disk[x.path] # "none"
              /\ wus[x.wu].status = "ASSIGNED" => \A v \in Wuids : x.path \notin wus[v].files
          BY <1>1, <3>1 DEF UInv, ThreadInv, UploadTypeOK
        <4>2. ASSUME wus'[x.wu].status = "ASSIGNED", NEW v \in Wuids, x.path \in wus'[v].files PROVE FALSE
          <5>1. x.wu # t.wu /\ wus[x.wu].status = "ASSIGNED" BY <2>2, <4>1, <4>2
          <5>2. x.path = t.path BY <2>2, <4>1, <4>2, <5>1
          <5>3. x.wu[1] = t.wu[1] BY <1>1, <4>1, <5>2
          <5>4. QED BY <1>1, <2>1, <4>1, <5>1, <5>3, OneIsAssigned
        <4>3. QED BY <1>1, <4>1, <4>2
      <3>2. QED BY <3>1 DEF ThreadInv
    <2>12. QED BY <2>6, <2>7, <2>8, <2>9, <2>10, <2>11 DEF UInv
  <1>4. QED BY <1>2, <1>3 DEF RecordResult

LEMMA ServerCrashStep == ASSUME UInv, ServerCrash PROVE UInv'
  <1>1. /\ threads' = {} /\ todo' = {} /\ cycle' = 0
        /\ client' = [c \in Clients |-> IF client[c].phase = "wait"
                        THEN [client[c] EXCEPT !.phase = "failed"] ELSE client[c]]
        /\ UNCHANGED <<wus, disk, spent, settled, lost, timeouts>>
    BY DEF ServerCrash
  <1>2. ASSUME NEW c \in Clients
        PROVE  /\ client'[c] \in ClientRec
               /\ client'[c].wu = client[c].wu /\ client'[c].old = client[c].old
               /\ client'[c].at = client[c].at /\ client'[c].new = client[c].new
               /\ client'[c].backlog_size = client[c].backlog_size
               /\ client'[c].phase = IF client[c].phase = "wait" THEN "failed" ELSE client[c].phase
    <2>1. client[c] \in ClientRec BY DEF UInv, UploadTypeOK
    <2>2. QED BY <1>1, <2>1 DEF ClientRec
  <1>3. client' \in [Clients -> ClientRec] BY <1>1, <1>2
  <1>4. UploadTypeOK' BY <1>1, <1>3, DirsSize DEF UInv, UploadTypeOK, WuTypeOK
  <1>5. AttemptsInOrder' /\ FilesOnDisk' BY <1>1, TableKept
  <1>6. TableInHand' /\ ThreadInv' BY <1>1 DEF UInv, TableInHand, ThreadInv, Ended, Handed
  <1>7. ASSUME NEW c \in Clients
        PROVE  ClientInHand(c)' /\ ClientInv(c)' /\ \A w : Has(c, w) => Has(c, w)'
    <2>1. ClientInHand(c) /\ ClientInv(c) BY DEF UInv, ClientsInv
    <2>2. ClientInHand(c)' BY <1>1, <1>2, <2>1 DEF ClientInHand, Handed
    <2>3. ClientInv(c)' BY <1>2, <2>1 DEF ClientInv, More
    <2>4. \A w : Has(c, w) => Has(c, w)' BY <1>2 DEF Has, InBacklog
    <2>5. QED BY <2>2, <2>3, <2>4
  <1>8. ClientsInv' BY <1>7 DEF ClientsInv
  <1>9. Kept'
    <2>1. ASSUME NEW w \in Wuids, wus'[w].assignedclient # NONE
          PROVE  (Has(wus[w].assignedclient, w) \/ w \in settled \cup lost)'
      <3>1. wus[w].assignedclient \in Clients BY <1>1, <2>1 DEF UInv, UploadTypeOK, WuTypeOK, Row
      <3>2. PICK a \in Clients : a = wus[w].assignedclient BY <3>1
      <3>3. Has(a, w) \/ w \in settled \cup lost BY <1>1, <2>1, <3>2 DEF UInv, Kept
      <3>4. Has(a, w)' \/ w \in (settled \cup lost)' BY <1>1, <1>7, <3>3
      <3>5. QED BY <1>1, <3>2, <3>4 DEF Has, InBacklog
    <2>2. QED BY <2>1 DEF Kept
  <1>10. QED BY <1>4, <1>5, <1>6, <1>8, <1>9 DEF UInv

LEMMA TimedOutStep == ASSUME UInv, NEW w \in Wuids, TimedOut(w) PROVE UInv'
  <1>1. /\ wus[w].status = "ASSIGNED" /\ todo' = todo \cup {w}
        /\ UNCHANGED <<wus, disk, cycle, threads, client, spent, settled, lost, faults>>
    BY DEF TimedOut
  <1>2. UploadTypeOK' BY <1>1 DEF UInv, UploadTypeOK, WuTypeOK
  <1>3. AttemptsInOrder' /\ FilesOnDisk' BY <1>1, TableKept
  <1>4. TableInHand' BY <1>1 DEF UInv, TableInHand, Ended, Handed
  <1>5. ThreadInv' BY <1>1 DEF UInv, ThreadInv
  <1>6. ClientsInv' /\ Kept'
    BY <1>1 DEF UInv, ClientsInv, ClientInHand, ClientInv, More, Handed, Kept, Has, InBacklog
  <1>7. QED BY <1>2, <1>3, <1>4, <1>5, <1>6 DEF UInv

(***************************************************************************)
(* cancel() and the resubmission: the next attempt did not exist, so the   *)
(* new row takes nothing away from anybody.                                *)
(***************************************************************************)
LEMMA CancelStep == ASSUME UInv, NEW w \in Wuids, CancelAndResubmit(w) PROVE UInv'
  <1> DEFINE x == <<w[1], w[2] + 1>>
  <1>1. /\ w \in todo /\ todo' = todo \ {w}
        /\ wus' = [v \in Wuids |-> IF v = w THEN StatusRow(wus[v], "CANCELLED")
                                   ELSE IF v = x THEN NewRow ELSE wus[v]]
        /\ UNCHANGED <<disk, cycle, threads, client, spent, settled, lost, faults, timeouts>>
    BY DEF CancelAndResubmit
  <1>2. wus \in [Wuids -> Row] /\ wus[w].status \in {"ASSIGNED", "RECEIVED_OK"}
    BY <1>1 DEF UInv, UploadTypeOK, WuTypeOK, TableInHand
  <1>3. w[2] \in Nat /\ w = <<w[1], w[2]>> /\ x[1] = w[1] /\ x[2] = w[2] + 1 /\ x # w
    <2>1. w[2] \in Nat /\ w = <<w[1], w[2]>> BY WuidIsPair
    <2>2. x[1] = w[1] /\ x[2] = w[2] + 1 OBVIOUS
    <2>3. QED BY <2>1, <2>2
  <1> HIDE DEF x
  <1>4. \A v \in Wuids : v[1] = w[1] /\ w[2] < v[2] => wus[v].status = "ABSENT"
    BY <1>2 DEF UInv, AttemptsInOrder
  <1>5. x \in Wuids => wus[x].status = "ABSENT" BY <1>3, <1>4
  <1>6. /\ wus'[w].status = "CANCELLED" /\ wus'[w].assignedclient = wus[w].assignedclient
        /\ wus'[w].files = wus[w].files /\ wus'[w] \in Row
    <2>1. wus'[w] = StatusRow(wus[w], "CANCELLED") BY <1>1
    <2>2. wus[w] \in Row BY <1>2
    <2>3. QED BY <2>1, <2>2 DEF StatusRow, Row, WuStatus
  <1>7. /\ x \in Wuids => wus'[x] = NewRow
        /\ NewRow.status = "AVAILABLE" /\ NewRow.assignedclient = NONE /\ NewRow.files = {} /\ NewRow \in Row
        /\ \A v \in Wuids \ {w, x} : wus'[v] = wus[v]
    BY <1>1, <1>3 DEF NewRow, BlankRow, Row, WuStatus
  <1>8. wus' \in [Wuids -> Row]
    <2>1. \A v \in Wuids : wus'[v] \in Row BY <1>2, <1>6, <1>7
    <2>2. QED BY <1>1, <2>1
  <1>9. UploadTypeOK' BY <1>1, <1>8 DEF UInv, UploadTypeOK, WuTypeOK
  <1>10. ASSUME NEW v \in Wuids, Handed(v)
         PROVE  /\ v # x /\ Handed(v)' /\ (Ended(v) => Ended(v)')
                /\ wus'[v].assignedclient = wus[v].assignedclient
                /\ wus'[v].status \in {wus[v].status, "CANCELLED"}
    <2>1. v # x BY <1>5, <1>10 DEF Handed
    <2>2. CASE v = w BY <1>6, <2>1, <2>2 DEF Handed, Ended
    <2>3. CASE v # w BY <1>7, <1>10, <2>1, <2>3 DEF Handed, Ended
    <2>4. QED BY <2>1, <2>2, <2>3
  <1>11. \A v \in Wuids : wus'[v].files \subseteq wus[v].files
    BY <1>6, <1>7
  <1>12. AttemptsInOrder'
    <2>1. ASSUME NEW v \in Wuids, NEW y \in Wuids, v[1] = y[1], v[2] < y[2], wus'[y].status # "ABSENT"
          PROVE  wus'[v].status = "CANCELLED"
      <3>1. v[2] \in Nat /\ y[2] \in Nat /\ v = <<v[1], v[2]>> BY WuidIsPair
      <3>2. CASE y = x
        <4>1. v[1] = w[1] /\ v[2] <= w[2] BY <1>3, <2>1, <3>1, <3>2
        <4>2. CASE v[2] = w[2] BY <1>3, <1>6, <3>1, <4>1, <4>2
        <4>3. CASE v[2] < w[2]
          <5>1. wus[v].status = "CANCELLED" BY <1>2, <4>1, <4>3 DEF UInv, AttemptsInOrder
          <5>2. v # w /\ v # x BY <1>3, <3>1, <4>3
          <5>3. QED BY <1>7, <5>1, <5>2
        <4>4. QED BY <1>3, <3>1, <4>1, <4>2, <4>3
      <3>3. CASE y # x
        <4>1. wus[y].status # "ABSENT" BY <1>2, <1>7, <2>1, <3>3
        <4>2. wus[v].status = "CANCELLED" BY <2>1, <4>1 DEF UInv, AttemptsInOrder
        <4>3. Handed(v) BY <4>2 DEF Handed
        <4>4. QED BY <1>10, <4>2, <4>3
      <3>4. QED BY <3>2, <3>3
    <2>2. QED BY <2>1 DEF AttemptsInOrder
  <1>13. FilesOnDisk'
    <2>1. ASSUME NEW v \in Wuids, NEW p \in wus'[v].files
          PROVE  disk'[p] # "none" /\ p[2] = v[1] /\ Ended(v)'
      <3>1. p \in wus[v].files BY <1>11, <2>1
      <3>2. disk[p] # "none" /\ p[2] = v[1] /\ Ended(v) BY <3>1 DEF UInv, FilesOnDisk
      <3>3. QED BY <1>1, <1>10, <3>2 DEF Ended
    <2>2. QED BY <2>1 DEF FilesOnDisk, Ended, Handed
  <1>14. TableInHand'
    <2>1. \A v \in settled' : Ended(v)'
      <3>1. \A v \in settled : v \in Wuids /\ Ended(v) /\ Handed(v) BY DEF UInv, UploadTypeOK, TableInHand, Ended
      <3>2. QED BY <1>1, <1>10, <3>1 DEF Ended, Handed
    <2>2. \A v \in todo' : wus'[v].status \in {"ASSIGNED", "RECEIVED_OK"}
      <3>1. ASSUME NEW v \in todo'
            PROVE  wus'[v].status \in {"ASSIGNED", "RECEIVED_OK"}
        <4>1. v \in Wuids /\ v # w /\ wus[v].status \in {"ASSIGNED", "RECEIVED_OK"}
          BY <1>1, <3>1 DEF UInv, UploadTypeOK, TableInHand
        <4>2. v # x BY <1>5, <4>1
        <4>3. QED BY <1>7, <4>1, <4>2
      <3>2. QED BY <3>1
    <2>3. \A t \in threads' : Handed(t.wu)'
      <3>1. \A t \in threads : t.wu \in Wuids /\ Handed(t.wu) BY DEF UInv, UploadTypeOK, TableInHand
      <3>2. QED BY <1>1, <1>10, <3>1 DEF Handed
    <2>4. QED BY <2>1, <2>2, <2>3 DEF TableInHand, Ended, Handed
  <1>15. ThreadInv'
    <2>1. ASSUME NEW t \in threads', t.at # "check"
          PROVE  /\ t.path \in Paths /\ t.path[2] = t.wu[1]
                 /\ t.at = "record" => disk'[t.path] # "none"
                 /\ wus'[t.wu].status = "ASSIGNED" => \A v \in Wuids : t.path \notin wus'[v].files
      <3>1. t \in threads /\ t.wu \in Wuids /\ Handed(t.wu) BY <1>1 DEF UInv, UploadTypeOK, TableInHand
      <3>2. wus'[t.wu].status = "ASSIGNED" => wus[t.wu].status = "ASSIGNED"
        BY <1>10, <3>1
      <3>3. QED BY <1>1, <1>11, <2>1, <3>1, <3>2 DEF UInv, ThreadInv
    <2>2. QED BY <2>1 DEF ThreadInv
  <1>16. ClientsInv'
    <2>1. ASSUME NEW c \in Clients PROVE ClientInHand(c)' /\ ClientInv(c)'
      <3>1. ClientInHand(c) /\ ClientInv(c) /\ client' = client BY <1>1 DEF UInv, ClientsInv
      <3>2. client[c].old \in Seq(Wuids) /\ client[c].new \in Seq(Wuids)
        BY DEF UInv, UploadTypeOK, ClientRec
      <3>3. /\ \A i \in DOMAIN client[c].old : client[c].old[i] \in Wuids
            /\ \A i \in DOMAIN client[c].new : client[c].new[i] \in Wuids
        BY <3>2
      <3>4. \A v \in Wuids : Handed(v) => Handed(v)' BY <1>10
      <3>5. ClientInHand(c)' BY <3>1, <3>3, <3>4 DEF ClientInHand, Handed
      <3>6. ClientInv(c)' BY <3>1 DEF ClientInv, More
      <3>7. QED BY <3>5, <3>6
    <2>2. QED BY <2>1 DEF ClientsInv
  <1>17. Kept'
    <2>1. ASSUME NEW v \in Wuids, wus'[v].assignedclient # NONE
          PROVE  (Has(wus[v].assignedclient, v) \/ v \in settled \cup lost)'
      <3>1. wus'[v].assignedclient = wus[v].assignedclient BY <1>6, <1>7, <2>1
      <3>2. Has(wus[v].assignedclient, v) \/ v \in settled \cup lost BY <2>1, <3>1 DEF UInv, Kept
      <3>3. QED BY <1>1, <3>1, <3>2 DEF Has, InBacklog
    <2>2. QED BY <2>1 DEF Kept
  <1>18. QED BY <1>9, <1>12, <1>13, <1>14, <1>15, <1>16, <1>17 DEF UInv

-------------------------------------------------------------------------------
LEMMA UInvNext == UInv /\ [Next]_vars => UInv'
  <1> SUFFICES ASSUME UInv, [Next]_vars PROVE UInv' OBVIOUS
  <1>1. ASSUME NEW c \in Clients, FetchWu(c) \/ LoseWu(c) \/ RunCommands(c) \/ Post(c) \/ ConnectionError(c)
                                  \/ Retry(c) \/ GiveUpUpload(c) \/ EndUploads(c)
        PROVE  UInv'
    BY <1>1, FetchWuStep, LoseWuStep, RunCommandsStep, PostStep, FailStep, GiveUpUploadStep, EndUploadsStep
  <1>2. ASSUME NEW t \in threads, CheckFile(t) \/ SaveFile(t) \/ RecordResult(t) PROVE UInv'
    BY <1>2, CheckFileStep, SaveFileStep, RecordResultStep
  <1>3. ASSUME NEW w \in Wuids, TimedOut(w) \/ CancelAndResubmit(w) PROVE UInv'
    BY <1>3, TimedOutStep, CancelStep
  <1>4. CASE UNCHANGED vars
    <2>1. AttemptsInOrder' /\ FilesOnDisk' BY <1>4, TableKept DEF vars
    <2>2. UploadTypeOK' /\ TableInHand' /\ ThreadInv'
      BY <1>4 DEF vars, UInv, UploadTypeOK, WuTypeOK, TableInHand, ThreadInv, Ended, Handed
    <2>3. ClientsInv' /\ Kept'
      BY <1>4 DEF vars, UInv, ClientsInv, ClientInHand, ClientInv, More, Handed, Kept, Has, InBacklog
    <2>4. QED BY <2>1, <2>2, <2>3 DEF UInv
  <1>5. QED BY <1>1, <1>2, <1>3, <1>4, ServerCrashStep DEF Next

LEMMA UInvHolds == Spec => []UInv
  BY UInvInit, UInvNext, PTL DEF Spec

(***************************************************************************)
(* WuAccess.result() called by api_upload_file() for an assigned work-unit *)
(* never violates UNIQUE(files.path): the check for the file and the save  *)
(* are not one step, but no other upload that will be accepted has the     *)
(* path.                                                                   *)
(***************************************************************************)
THEOREM PathsDoNotClash == Spec => []NoPathClash
  <1>1. UInv => NoPathClash BY DEF UInv, ThreadInv, NoPathClash, CanResult
  <1>2. QED BY UInvHolds, <1>1, PTL

(***************************************************************************)
(* A 200 of api_upload_file() settles the work-unit: it has a result or it *)
(* was cancelled.                                                          *)
(***************************************************************************)
THEOREM AcknowledgedAreSettled == Spec => []AcknowledgedIsSettled
  <1>1. UInv => AcknowledgedIsSettled BY DEF UInv, TableInHand, Ended, AcknowledgedIsSettled
  <1>2. QED BY UInvHolds, <1>1, PTL

(***************************************************************************)
(* WorkunitClient and ResultUploader lose no result: what a client was     *)
(* given and got to run is being computed, in its backlog, or              *)
(* acknowledged, through                                                   *)
(* broken connections, restarts of the server and uploads given up for     *)
(* later; and backlog_size is the length of the backlog.                   *)
(***************************************************************************)
THEOREM ResultsAreNotDropped == Spec => []NoResultDropped
  <1>1. UInv => NoResultDropped
    BY DEF UInv, ClientsInv, ClientInv, Kept, Has, NoResultDropped
  <1>2. QED BY UInvHolds, <1>1, PTL
===============================================================================
