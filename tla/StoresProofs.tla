---- MODULE StoresProofs ----
(***************************************************************************)
(* Theorems about the stores of a workspace: Registry, for any number of   *)
(* tasks, processes and writes, TaskIndex, for any number of workers, any  *)
(* ttl and any passing of time, and SessionLog, for any number of savers,  *)
(* messages and nodes: the log and the head file implement the tree of     *)
(* SessionTree, a run's node stands for its own conversation, and a saved  *)
(* one is kept, except where SessionLog says that a death may cost it.     *)
(***************************************************************************)
EXTENDS SessionLog, Registry, TaskIndex, SequenceTheorems, WellFoundedInduction, TLAPS

----
(***************************************************************************)
(* Registry                                                                *)
(***************************************************************************)
StoresOK ==
  /\ file \in [Tasks -> Record] /\ row \in [Tasks -> Record]
  /\ current \in [task : Tasks \union {"none"}, record : Record]
  /\ runner \in [Tasks -> [at : {"idle", "copy", "index", "gone"}, record : Record]]
  /\ settled \in SUBSET Tasks
ClientsOK == client \in [Clients -> ClientState] /\ \A c \in Clients : Placed(client[c])

\* Only the record of a task can be one of a task at work.
CopyOfATask == current.record.status \in Orphaned => current.task \in Tasks
RegTypeInv == StoresOK /\ ClientsOK /\ CopyOfATask

LEMMA WriteFileIs ==
  ASSUME NEW t, NEW status, WriteFile(t, status)
  PROVE  file' = [file EXCEPT ![t] = Written(t, status)]
BY DEF WriteFile

LEMMA Records ==
  /\ Absent \in Record
  /\ \A t \in Tasks : \A s \in Verdicts \union Active :
       file \in [Tasks -> Record] => Written(t, s) \in Record
  /\ "cancelling" \in Active /\ "interrupted" \in Verdicts /\ Orphaned \subseteq Active
BY DEF Absent, Record, Written, Verdicts, Active, Orphaned

LEMMA RestingOK == Resting \in ClientState /\ Placed(Resting)
BY Records DEF Resting, ClientState, Places, Placed

\* A client that does something does it to his own state.
LEMMA OneClient ==
  ASSUME ClientsOK, NEW c \in Clients, NEW new \in ClientState, Placed(new),
         client' = [client EXCEPT ![c] = new]
  PROVE  ClientsOK'
BY DEF ClientsOK

LEMMA RegTypeInit == RegInit => RegTypeInv
<1> SUFFICES ASSUME RegInit PROVE RegTypeInv
  OBVIOUS
<1>1. [Resting EXCEPT !.at = "away"] \in ClientState /\ Placed([Resting EXCEPT !.at = "away"])
  BY Records DEF Resting, ClientState, Places, Placed
<1>2. ClientsOK
  BY <1>1, RestingOK DEF RegInit, ClientsOK
<1>3. StoresOK /\ CopyOfATask
  BY Records DEF RegInit, StoresOK, CopyOfATask, NoTask, Absent, Orphaned
<1> QED BY <1>2, <1>3 DEF RegTypeInv

LEMMA StoresStep == RegTypeInv /\ [RegNext]_regVars => StoresOK' /\ CopyOfATask'
<1> SUFFICES ASSUME RegTypeInv, [RegNext]_regVars PROVE StoresOK' /\ CopyOfATask'
  OBVIOUS
<1> USE Records DEF RegTypeInv, StoresOK, CopyOfATask
<1>1. CASE UNCHANGED regVars
  BY <1>1 DEF regVars
<1>2. ASSUME NEW t \in Tasks, SaveFile(t) PROVE StoresOK' /\ CopyOfATask'
  BY <1>2, WriteFileIs DEF SaveFile
<1>3. ASSUME NEW t \in Tasks, SaveCopy(t) PROVE StoresOK' /\ CopyOfATask'
  BY <1>3 DEF SaveCopy
<1>4. ASSUME NEW t \in Tasks, SaveRow(t) PROVE StoresOK' /\ CopyOfATask'
  BY <1>4 DEF SaveRow
<1>5. ASSUME NEW t \in Tasks, Exit(t) PROVE StoresOK' /\ CopyOfATask'
  BY <1>5 DEF Exit
<1>6. ASSUME NEW c \in Clients PROVE client[c] \in ClientState /\ Placed(client[c])
  BY DEF ClientsOK
<1>7. ASSUME NEW c \in Clients, StopFile(c) \/ ScanMark(c) PROVE StoresOK' /\ CopyOfATask'
  <2>1. client[c].at \in {"file", "mark", "mark copy"}
    BY <1>7 DEF StopFile, ScanMark
  <2>2. client[c].task \in Tasks
    BY <1>6, <2>1 DEF Placed
  <2>3. \E status \in Verdicts \union Active :
          file' = [file EXCEPT ![client[c].task] = Written(client[c].task, status)]
    BY <1>7, WriteFileIs DEF StopFile, ScanMark
  <2>4. UNCHANGED <<current, row, runner, settled>>
    BY <1>7 DEF StopFile, ScanMark
  <2> QED BY <2>2, <2>3, <2>4
<1>8. ASSUME NEW c \in Clients, StopRow(c) \/ ScanRow(c) PROVE StoresOK' /\ CopyOfATask'
  <2>1. client[c].at \in {"row", "row copy"}
    BY <1>8 DEF StopRow, ScanRow
  <2>2. client[c].task \in Tasks /\ client[c].read[client[c].task] \in Record
    BY <1>6, <2>1 DEF Placed, ClientState
  <2>3. /\ row' = [row EXCEPT ![client[c].task] = client[c].read[client[c].task]]
        /\ UNCHANGED <<file, current, runner, settled>>
    BY <1>8 DEF StopRow, ScanRow
  <2> QED BY <2>2, <2>3
<1>9. ASSUME NEW c \in Clients, StopCopy(c) PROVE StoresOK' /\ CopyOfATask'
  BY <1>6, <1>9 DEF StopCopy, ClientState, Placed
<1>10. ASSUME NEW c \in Clients, ScanEnd(c) PROVE StoresOK' /\ CopyOfATask'
  BY <1>6, <1>10 DEF ScanEnd, ClientState
<1>11. ASSUME NEW c \in Clients, ReplaceAll(c) PROVE StoresOK' /\ CopyOfATask'
  BY <1>6, <1>11 DEF ReplaceAll, ClientState
<1>12. ASSUME NEW c \in Clients, BeginScan(c) \/ ScanRead(c) \/ ScanCopy(c) \/ ScanCheck(c)
                                 \/ ListRead(c) \/ ClientDies(c)
       PROVE  StoresOK' /\ CopyOfATask'
  BY <1>12 DEF BeginScan, ScanRead, ScanCopy, ScanCheck, ListRead, ClientDies
<1>13. ASSUME NEW c \in Clients, NEW t \in Tasks, StopRead(c, t) PROVE StoresOK' /\ CopyOfATask'
  BY <1>13 DEF StopRead
<1> QED BY <1>1, <1>2, <1>3, <1>4, <1>5, <1>7, <1>8, <1>9, <1>10, <1>11, <1>12, <1>13
        DEF RegNext

LEMMA ClientsStep == RegTypeInv /\ [RegNext]_regVars => ClientsOK'
<1> SUFFICES ASSUME RegTypeInv, [RegNext]_regVars PROVE ClientsOK'
  OBVIOUS
<1>1. CASE UNCHANGED regVars \/ \E t \in Tasks : SaveFile(t) \/ SaveCopy(t) \/ SaveRow(t) \/ Exit(t)
  BY <1>1 DEF regVars, SaveFile, SaveCopy, SaveRow, Exit, RegTypeInv, ClientsOK
<1>2. ASSUME NEW c \in Clients,
             \/ \E t \in Tasks : StopRead(c, t)
             \/ StopFile(c) \/ StopRow(c) \/ StopCopy(c)
             \/ BeginScan(c) \/ ScanRead(c) \/ ScanCopy(c) \/ ScanCheck(c) \/ ScanMark(c)
             \/ ScanRow(c) \/ ScanEnd(c) \/ ListRead(c) \/ ReplaceAll(c) \/ ClientDies(c)
      PROVE  ClientsOK'
  <2> DEFINE old == client[c]
  <2>0. ClientsOK /\ StoresOK /\ CopyOfATask /\ old \in ClientState /\ Placed(old)
    BY DEF RegTypeInv, ClientsOK
  <2> SUFFICES \E new \in ClientState : Placed(new) /\ client' = [client EXCEPT ![c] = new]
    BY <2>0, OneClient
  <2>1. CASE StopCopy(c) \/ ReplaceAll(c) \/ ClientDies(c)
    BY <2>1, RestingOK DEF StopCopy, ReplaceAll, ClientDies
  <2>2. ASSUME NEW t \in Tasks, StopRead(c, t)
        PROVE  \E new \in ClientState : Placed(new) /\ client' = [client EXCEPT ![c] = new]
    <3> DEFINE new == [Resting EXCEPT !.job = "stop", !.at = "file", !.task = t]
    <3>1. new \in ClientState /\ Placed(new)
      BY RestingOK DEF ClientState, Placed, Places
    <3> QED BY <2>2, <3>1 DEF StopRead
  <2>3. CASE StopFile(c)
    <3> DEFINE t == old.task
               new == [old EXCEPT !.at = "row", !.read[t] = Written(t, "cancelling")]
    <3>1. t \in Tasks
      BY <2>0, <2>3 DEF StopFile, Placed
    <3>2. new \in ClientState /\ Placed(new)
      BY <2>0, <3>1, Records DEF ClientState, Placed, Places, StoresOK
    <3>3. client' = [client EXCEPT ![c] = new]
      BY <2>3, <2>0 DEF StopFile, ClientsOK, ClientState
    <3> QED BY <3>2, <3>3
  <2>4. CASE StopRow(c)
    <3> DEFINE new == [old EXCEPT !.at = "copy"]
    <3>1. new \in ClientState /\ Placed(new)
      BY <2>0, <2>4 DEF StopRow, ClientState, Placed, Places
    <3> QED BY <2>4, <3>1 DEF StopRow
  <2>5. CASE BeginScan(c)
    <3> DEFINE New(job) == [Resting EXCEPT !.job = job, !.at = "scan",
                                           !.left = {t \in Tasks : file[t] # Absent}]
    <3>1. \A job \in {"scan", "rebuild"} : New(job) \in ClientState /\ Placed(New(job))
      BY RestingOK DEF ClientState, Placed, Places
    <3> QED BY <2>5, <3>1 DEF BeginScan
  <2>6. CASE ScanRead(c)
    <3>1. PICK t \in old.left :
            client' = [client EXCEPT
              ![c].left = @ \ {t},
              ![c].task = IF file[t].status \in Orphaned THEN t ELSE "none",
              ![c].at = IF file[t].status \in Orphaned THEN "check" ELSE "scan"]
      BY <2>6 DEF ScanRead
    <3> DEFINE new == [old EXCEPT !.left = @ \ {t},
                         !.task = IF file[t].status \in Orphaned THEN t ELSE "none",
                         !.at = IF file[t].status \in Orphaned THEN "check" ELSE "scan"]
    <3>2. new \in ClientState /\ Placed(new)
      BY <2>0 DEF ClientState, Placed, Places
    <3>3. client' = [client EXCEPT ![c] = new]
      BY <3>1
    <3> QED BY <3>2, <3>3
  <2>7. CASE ScanCopy(c)
    <3> DEFINE orphaned == current.record.status \in Orphaned /\ current.task \notin old.marked
               new == [old EXCEPT !.task = IF orphaned THEN current.task ELSE "none",
                                  !.at = IF orphaned THEN "check copy" ELSE "scanned"]
    <3>1. new \in ClientState /\ Placed(new)
      BY <2>0 DEF CopyOfATask, ClientState, Placed, Places
    <3> QED BY <2>7, <3>1 DEF ScanCopy
  <2>8. CASE ScanCheck(c)
    <3> DEFINE new == [old EXCEPT
                         !.at = IF Alive(old.task) THEN Then(@)
                                ELSE IF old.at = "check" THEN "mark" ELSE "mark copy",
                         !.task = IF Alive(old.task) THEN "none" ELSE old.task]
    <3>1. new \in ClientState /\ Placed(new)
      BY <2>0, <2>8 DEF ScanCheck, Then, ClientState, Placed, Places
    <3> QED BY <2>8, <3>1 DEF ScanCheck
  <2>9. CASE ScanMark(c)
    <3> DEFINE t == old.task
               new == [old EXCEPT !.read[t] = Written(t, "interrupted"),
                                  !.marked = @ \union {t},
                                  !.at = IF @ = "mark" THEN "row" ELSE "row copy"]
    <3>1. t \in Tasks
      BY <2>0, <2>9 DEF ScanMark, Placed
    <3>2. new \in ClientState /\ Placed(new)
      BY <2>0, <3>1, Records DEF ClientState, Placed, Places, StoresOK
    <3>3. client' = [client EXCEPT ![c] = new]
      BY <2>9, <2>0 DEF ScanMark, ClientsOK, ClientState
    <3> QED BY <3>2, <3>3
  <2>10. CASE ScanRow(c)
    <3> DEFINE new == [old EXCEPT !.at = IF @ = "row" THEN "scan" ELSE "scanned", !.task = "none"]
    <3>1. new \in ClientState /\ Placed(new)
      BY <2>0 DEF ClientState, Placed, Places
    <3> QED BY <2>10, <3>1 DEF ScanRow
  <2>11. CASE ScanEnd(c)
    <3> DEFINE new == IF old.job = "rebuild" THEN [old EXCEPT !.at = "list", !.left = Tasks] ELSE Resting
    <3>1. [old EXCEPT !.at = "list", !.left = Tasks] \in ClientState
      BY <2>0 DEF ClientState, Places
    <3>2. Placed([old EXCEPT !.at = "list", !.left = Tasks])
      BY <2>0 DEF ClientState, Placed
    <3>3. new \in ClientState /\ Placed(new)
      BY <3>1, <3>2, RestingOK
    <3> QED BY <2>11, <3>3 DEF ScanEnd
  <2>12. CASE ListRead(c)
    <3>1. PICK t \in old.left : client' = [client EXCEPT ![c].left = @ \ {t}, ![c].read[t] = file[t]]
      BY <2>12 DEF ListRead
    <3> DEFINE new == [old EXCEPT !.left = @ \ {t}, !.read[t] = file[t]]
    <3>2. new \in ClientState /\ Placed(new)
      BY <2>0 DEF ClientState, Placed, StoresOK
    <3>3. client' = [client EXCEPT ![c] = new]
      BY <3>1, <2>0 DEF ClientsOK
    <3> QED BY <3>2, <3>3
  <2> QED BY <1>2, <2>1, <2>2, <2>3, <2>4, <2>5, <2>6, <2>7, <2>8, <2>9, <2>10, <2>11, <2>12
<1> QED BY <1>1, <1>2 DEF RegNext

LEMMA RegTypes == RegSpec => []RegTypeInv
<1>1. RegTypeInv /\ [RegNext]_regVars => RegTypeInv'
  BY StoresStep, ClientsStep DEF RegTypeInv
<1> QED BY RegTypeInit, <1>1, PTL DEF RegSpec

\* Every variable keeps its type, and only a task's record is checked or written.
THEOREM RegTypeCorrect == RegSpec => []RegTypeOK
<1>1. RegTypeInv => RegTypeOK
  BY DEF RegTypeInv, StoresOK, ClientsOK, RegTypeOK
<1> QED BY <1>1, RegTypes, PTL

----
(***************************************************************************)
(* The copies never run ahead of the file                                  *)
(***************************************************************************)
\* Whatever anybody holds of a record, to write it or not, the file has held.
LeadInv ==
  /\ \A t \in Tasks : row[t].of <= file[t].of /\ runner[t].record.of <= file[t].of
  /\ \A t \in Tasks : current.task = t => current.record.of <= file[t].of
  /\ \A c \in Clients : \A t \in Tasks : client[c].read[t].of <= file[t].of

LEMMA FileGrows ==
  ASSUME StoresOK, NEW u \in Tasks, NEW status, file' = [file EXCEPT ![u] = Written(u, status)]
  PROVE  /\ \A t \in Tasks : file[t].of \in Nat /\ file'[t].of \in Nat /\ file[t].of <= file'[t].of
         /\ file'[u] = Written(u, status)
<1>1. file[u] \in Record
  BY DEF StoresOK
<1>2. file[u].of \in Nat
  BY <1>1 DEF Record
<1>3. file'[u] = Written(u, status) /\ Written(u, status).of = file[u].of + 1
  BY DEF StoresOK, Written
<1>4. \A t \in Tasks : file[t].of \in Nat
  BY DEF StoresOK, Record
<1>5. \A t \in Tasks \ {u} : file'[t] = file[t]
  BY DEF StoresOK
<1> QED BY <1>2, <1>3, <1>4, <1>5

LEMMA Numbers ==
  ASSUME RegTypeInv
  PROVE  /\ \A t \in Tasks : row[t].of \in Nat /\ file[t].of \in Nat /\ runner[t].record.of \in Nat
         /\ current.record.of \in Nat
         /\ \A c \in Clients : \A t \in Tasks : client[c].read[t].of \in Nat
BY DEF RegTypeInv, StoresOK, ClientsOK, ClientState, Record

\* A step that writes the file of task u, and who holds what was written.
LEMMA LeadAfterWrite ==
  ASSUME RegTypeInv, LeadInv, NEW u \in Tasks, NEW status,
         file' = [file EXCEPT ![u] = Written(u, status)],
         UNCHANGED <<current, row>>,
         \A t \in Tasks : runner'[t].record \in {runner[t].record}
                                                  \union (IF t = u THEN {Written(u, status)} ELSE {}),
         \A c \in Clients : \A t \in Tasks :
           client'[c].read[t] \in {client[c].read[t]}
                                    \union (IF t = u THEN {Written(u, status)} ELSE {})
  PROVE  LeadInv'
<1>1. /\ \A t \in Tasks : file[t].of \in Nat /\ file'[t].of \in Nat /\ file[t].of <= file'[t].of
      /\ file'[u] = Written(u, status)
  BY FileGrows DEF RegTypeInv
<1>2. \A t \in Tasks : row'[t].of <= file'[t].of
  BY <1>1, Numbers DEF LeadInv
<1>3. \A t \in Tasks : runner'[t].record.of <= file'[t].of
  <2> TAKE t \in Tasks
  <2>1. CASE runner'[t].record = runner[t].record
    BY <2>1, <1>1, Numbers DEF LeadInv
  <2>2. CASE t = u /\ runner'[t].record = Written(u, status)
    BY <2>2, <1>1
  <2> QED BY <2>1, <2>2
<1>4. \A t \in Tasks : current'.task = t => current'.record.of <= file'[t].of
  BY <1>1, Numbers DEF LeadInv
<1>5. \A c \in Clients : \A t \in Tasks : client'[c].read[t].of <= file'[t].of
  <2> TAKE c \in Clients
  <2> TAKE t \in Tasks
  <2>1. CASE client'[c].read[t] = client[c].read[t]
    BY <2>1, <1>1, Numbers DEF LeadInv
  <2>2. CASE t = u /\ client'[c].read[t] = Written(u, status)
    BY <2>2, <1>1
  <2> QED BY <2>1, <2>2
<1> QED BY <1>2, <1>3, <1>4, <1>5 DEF LeadInv

LEMMA LeadInit == RegInit => LeadInv
<1> SUFFICES ASSUME RegInit PROVE LeadInv
  OBVIOUS
<1>1. /\ \A t \in Tasks : runner[t].record = Absent
      /\ \A c \in Clients : \A t \in Tasks : client[c].read[t] = Absent
  BY DEF RegInit, Resting
<1> QED BY <1>1 DEF RegInit, LeadInv, NoTask, Absent

LEMMA LeadStep == RegTypeInv /\ LeadInv /\ [RegNext]_regVars => LeadInv'
<1> SUFFICES ASSUME RegTypeInv, LeadInv, [RegNext]_regVars PROVE LeadInv'
  OBVIOUS
<1>0. /\ StoresOK /\ ClientsOK
      /\ \A c \in Clients : client[c] \in ClientState /\ Placed(client[c])
  BY DEF RegTypeInv, ClientsOK
<1>a. \A t \in Tasks : Resting.read[t] = Absent /\ 0 <= file[t].of
  BY Numbers DEF Resting
<1>1. CASE UNCHANGED regVars
  BY <1>1 DEF regVars, LeadInv
<1>2. ASSUME NEW t \in Tasks, SaveFile(t) PROVE LeadInv'
  <2>1. PICK status :
          /\ file' = [file EXCEPT ![t] = Written(t, status)]
          /\ runner' = [runner EXCEPT ![t] = [at |-> "copy", record |-> Written(t, status)]]
    BY <1>2, WriteFileIs DEF SaveFile
  <2>2. UNCHANGED <<current, row, client>>
    BY <1>2 DEF SaveFile
  <2>3. \A u \in Tasks : runner'[u].record \in {runner[u].record}
                                         \union (IF u = t THEN {Written(t, status)} ELSE {})
    BY <2>1, <1>0 DEF StoresOK
  <2> QED BY <2>1, <2>2, <2>3, LeadAfterWrite
<1>3. ASSUME NEW t \in Tasks, SaveCopy(t) PROVE LeadInv'
  <2>1. current' = [task |-> t, record |-> runner[t].record] /\ UNCHANGED <<file, row, client>>
    BY <1>3 DEF SaveCopy
  <2>2. \A u \in Tasks : runner'[u].record = runner[u].record
    BY <1>3, <1>0 DEF SaveCopy, StoresOK
  <2> QED BY <2>1, <2>2 DEF LeadInv
<1>4. ASSUME NEW t \in Tasks, SaveRow(t) PROVE LeadInv'
  <2>1. row' = [row EXCEPT ![t] = runner[t].record] /\ UNCHANGED <<file, current, client>>
    BY <1>4 DEF SaveRow
  <2>2. \A u \in Tasks : runner'[u].record = runner[u].record
    BY <1>4, <1>0 DEF SaveRow, StoresOK
  <2>3. \A u \in Tasks : row'[u].of <= file[u].of
    BY <2>1, <1>0 DEF LeadInv, StoresOK
  <2> QED BY <2>1, <2>2, <2>3 DEF LeadInv
<1>5. ASSUME NEW t \in Tasks, Exit(t) PROVE LeadInv'
  <2>1. UNCHANGED <<file, current, row, client>>
    BY <1>5 DEF Exit
  <2>2. \A u \in Tasks : runner'[u].record = runner[u].record
    BY <1>5, <1>0 DEF Exit, StoresOK
  <2> QED BY <2>1, <2>2 DEF LeadInv
<1>6. ASSUME NEW c \in Clients, StopFile(c) \/ ScanMark(c) PROVE LeadInv'
  <2> DEFINE t == client[c].task
  <2>1. t \in Tasks
    BY <1>0, <1>6 DEF StopFile, ScanMark, Placed
  <2>2. PICK status :
          /\ file' = [file EXCEPT ![t] = Written(t, status)]
          /\ \A d \in Clients : \A u \in Tasks :
               client'[d].read[u] \in {client[d].read[u]}
                                         \union (IF u = t THEN {Written(t, status)} ELSE {})
    <3>1. CASE StopFile(c)
      BY <3>1, <1>0, <2>1, WriteFileIs DEF StopFile, ClientsOK, ClientState
    <3>2. CASE ScanMark(c)
      <4>1. file' = [file EXCEPT ![t] = Written(t, "interrupted")]
        BY <3>2, WriteFileIs DEF ScanMark
      <4>2. \A d \in Clients : d # c => client'[d].read = client[d].read
        BY <3>2, <1>0 DEF ScanMark, ClientsOK
      <4>3. client'[c].read = [client[c].read EXCEPT ![t] = Written(t, "interrupted")]
        BY <3>2, <1>0 DEF ScanMark, ClientsOK, ClientState
      <4>4. client[c].read \in [Tasks -> Record]
        BY <1>0 DEF ClientState
      <4> QED BY <4>1, <4>2, <4>3, <4>4, <2>1, ZenonT(30)
    <3> QED BY <1>6, <3>1, <3>2
  <2>3. UNCHANGED <<current, row, runner>>
    BY <1>6 DEF StopFile, ScanMark
  <2> HIDE DEF t
  <2> QED BY <2>1, <2>2, <2>3, LeadAfterWrite
<1>7. ASSUME NEW c \in Clients, StopRow(c) \/ ScanRow(c) PROVE LeadInv'
  <2>1. client[c].task \in Tasks
    BY <1>0, <1>7 DEF StopRow, ScanRow, Placed
  <2>2. /\ row' = [row EXCEPT ![client[c].task] = client[c].read[client[c].task]]
        /\ UNCHANGED <<file, current, runner>>
    BY <1>7 DEF StopRow, ScanRow
  <2>3. \A d \in Clients : client'[d].read = client[d].read
    <3>1. CASE StopRow(c)
      BY <3>1, <1>0 DEF StopRow, ClientsOK, ClientState
    <3>2. CASE ScanRow(c)
      BY <3>2, <1>0 DEF ScanRow, ClientsOK, ClientState
    <3> QED BY <1>7, <3>1, <3>2
  <2>4. \A u \in Tasks : row'[u].of <= file[u].of
    BY <2>1, <2>2, <1>0 DEF LeadInv, StoresOK
  <2> QED BY <2>2, <2>3, <2>4 DEF LeadInv
<1>8. ASSUME NEW c \in Clients, StopCopy(c) \/ ScanEnd(c) PROVE LeadInv'
  <2>1. UNCHANGED <<file, row, runner>>
    BY <1>8 DEF StopCopy, ScanEnd
  <2>2. \A t \in Tasks : current'.task = t => current'.record.of <= file[t].of
    <3>1. CASE StopCopy(c)
      BY <3>1 DEF StopCopy, LeadInv
    <3>2. CASE ScanEnd(c)
      BY <3>2, <1>0 DEF ScanEnd, LeadInv, StoresOK
    <3> QED BY <1>8, <3>1, <3>2
  <2>3. \A d \in Clients : client'[d].read \in {client[d].read, Resting.read}
    <3>1. CASE StopCopy(c)
      BY <3>1, <1>0 DEF StopCopy, ClientsOK
    <3>2. CASE ScanEnd(c) /\ client[c].job = "rebuild"
      BY <3>2, <1>0 DEF ScanEnd, ClientsOK, ClientState
    <3>3. CASE ScanEnd(c) /\ client[c].job # "rebuild"
      BY <3>3, <1>0 DEF ScanEnd, ClientsOK
    <3> QED BY <1>8, <3>1, <3>2, <3>3
  <2>4. \A d \in Clients : \A t \in Tasks : client'[d].read[t].of <= file[t].of
    BY <2>3, <1>a DEF LeadInv, Absent
  <2> QED BY <2>1, <2>2, <2>4 DEF LeadInv
<1>9. ASSUME NEW c \in Clients, ReplaceAll(c) PROVE LeadInv'
  <2>1. row' = client[c].read /\ UNCHANGED <<file, current, runner>>
    BY <1>9 DEF ReplaceAll
  <2>2. \A d \in Clients : client'[d].read \in {client[d].read, Resting.read}
    BY <1>9, <1>0 DEF ReplaceAll, ClientsOK
  <2>3. \A d \in Clients : \A t \in Tasks : client'[d].read[t].of <= file[t].of
    BY <2>2, <1>a DEF LeadInv, Absent
  <2> QED BY <2>1, <2>3 DEF LeadInv
<1>10. ASSUME NEW c \in Clients,
              BeginScan(c) \/ ScanRead(c) \/ ScanCopy(c) \/ ScanCheck(c) \/ ClientDies(c)
                \/ \E t \in Tasks : StopRead(c, t)
       PROVE  LeadInv'
  <2>1. UNCHANGED <<file, current, row, runner>>
    BY <1>10 DEF BeginScan, ScanRead, ScanCopy, ScanCheck, ClientDies, StopRead
  <2>2. \A d \in Clients : client'[d].read \in {client[d].read, Resting.read}
    <3>1. CASE BeginScan(c) \/ ClientDies(c) \/ \E t \in Tasks : StopRead(c, t)
      BY <3>1, <1>0 DEF BeginScan, ClientDies, StopRead, ClientsOK, Resting
    <3>2. CASE ScanRead(c)
      BY <3>2, <1>0 DEF ScanRead, ClientsOK, ClientState
    <3>3. CASE ScanCopy(c)
      BY <3>3, <1>0 DEF ScanCopy, ClientsOK, ClientState
    <3>4. CASE ScanCheck(c)
      BY <3>4, <1>0 DEF ScanCheck, ClientsOK, ClientState
    <3> QED BY <1>10, <3>1, <3>2, <3>3, <3>4
  <2>3. \A d \in Clients : \A t \in Tasks : client'[d].read[t].of <= file[t].of
    BY <2>2, <1>a DEF LeadInv, Absent
  <2> QED BY <2>1, <2>3 DEF LeadInv
<1>11. ASSUME NEW c \in Clients, ListRead(c) PROVE LeadInv'
  <2>1. UNCHANGED <<file, current, row, runner>>
    BY <1>11 DEF ListRead
  <2>2. \A d \in Clients : \A t \in Tasks : client'[d].read[t] \in {client[d].read[t], file[t]}
    BY <1>11, <1>0 DEF ListRead, ClientsOK, ClientState
  <2>3. \A d \in Clients : \A t \in Tasks : client'[d].read[t].of <= file[t].of
    BY <2>2, Numbers DEF LeadInv
  <2> QED BY <2>1, <2>3 DEF LeadInv
<1> QED BY <1>1, <1>2, <1>3, <1>4, <1>5, <1>6, <1>7, <1>8, <1>9, <1>10, <1>11 DEF RegNext

\* Whoever dies or overtakes whom, the copy and the index never hold what the file
\* has not held (save_record, request_cancel, recover_stale_tasks, rebuild_task_index).
THEOREM FileLeads == RegSpec => []FilesLead
<1>1. LeadInv => FilesLead
  BY DEF LeadInv, FilesLead
<1> QED BY <1>1, LeadInit, LeadStep, RegTypes, PTL DEF RegSpec

----
(***************************************************************************)
(* A verdict that was settled stands                                       *)
(***************************************************************************)
\* Who rests has no task in hand; who is about to mark one has seen its process gone.
InHand ==
  \A c \in Clients :
    /\ client[c].at \in {"idle", "away"} => client[c].task = "none" /\ client[c].marked = {}
    /\ client[c].at \in {"mark", "mark copy"} => runner[client[c].task].at = "gone"

\* A process at work knows of the verdict of its own file.
VerdictIsKnown ==
  \A t \in Tasks :
    runner[t].at # "gone" /\ file[t].status \in Verdicts => runner[t].record.status \in Verdicts

\* Nobody holds anything of a settled task that could be written over its verdict.
Settled(t) ==
  /\ file[t].status \in Verdicts
  /\ runner[t].at \in {"idle", "gone"}
  /\ current.task = t => current.record.status \in Verdicts
  /\ \A c \in Clients : client[c].task # t /\ t \notin client[c].marked
SettledInv == InHand /\ VerdictIsKnown /\ \A t \in settled : Settled(t)

LEMMA VerdictsApart == /\ Verdicts \cap Orphaned = {} /\ Verdicts \cap Stoppable = {}
                       /\ "cancelling" \notin Verdicts /\ "none" \notin Verdicts
BY DEF Verdicts, Orphaned, Stoppable

LEMMA AtRest == /\ Resting.at = "idle" /\ Resting.task = "none" /\ Resting.marked = {}
               /\ [Resting EXCEPT !.at = "away"].at = "away"
               /\ [Resting EXCEPT !.at = "away"].task = "none"
               /\ [Resting EXCEPT !.at = "away"].marked = {}
BY DEF Resting

LEMMA SettledInit == RegInit => SettledInv
<1> SUFFICES ASSUME RegInit PROVE SettledInv
  OBVIOUS
<1>1. InHand
  BY AtRest DEF RegInit, InHand
<1>2. VerdictIsKnown
  BY VerdictsApart DEF RegInit, VerdictIsKnown, Absent
<1> QED BY <1>1, <1>2 DEF RegInit, SettledInv

\* The four shapes of a step: a process, a client that writes the file, one that
\* writes a copy or the index, one that only reads.
LEMMA InHandStep == RegTypeInv /\ SettledInv /\ [RegNext]_regVars => InHand'
<1> SUFFICES ASSUME RegTypeInv, SettledInv, [RegNext]_regVars PROVE InHand'
  OBVIOUS
<1>0. /\ StoresOK /\ ClientsOK /\ InHand
      /\ \A c \in Clients : client[c] \in ClientState /\ Placed(client[c])
  BY DEF RegTypeInv, ClientsOK, SettledInv
<1>1. CASE UNCHANGED regVars \/ \E t \in Tasks : SaveFile(t) \/ SaveCopy(t) \/ SaveRow(t) \/ Exit(t)
  <2>1. UNCHANGED client /\ \A t \in Tasks : runner[t].at = "gone" => runner'[t].at = "gone"
    BY <1>1, <1>0 DEF regVars, SaveFile, SaveCopy, SaveRow, Exit, StoresOK
  <2> QED BY <2>1, <1>0 DEF InHand, Placed
<1>2. ASSUME NEW c \in Clients,
             \/ \E t \in Tasks : StopRead(c, t)
             \/ StopFile(c) \/ StopRow(c) \/ StopCopy(c)
             \/ BeginScan(c) \/ ScanRead(c) \/ ScanCopy(c) \/ ScanCheck(c) \/ ScanMark(c)
             \/ ScanRow(c) \/ ScanEnd(c) \/ ListRead(c) \/ ReplaceAll(c) \/ ClientDies(c)
      PROVE  InHand'
  <2>1. UNCHANGED runner /\ \A d \in Clients \ {c} : client'[d] = client[d]
    BY <1>2, <1>0 DEF StopRead, StopFile, StopRow, StopCopy, BeginScan, ScanRead, ScanCopy,
         ScanCheck, ScanMark, ScanRow, ScanEnd, ListRead, ReplaceAll, ClientDies, ClientsOK
  <2> SUFFICES /\ client'[c].at \in {"idle", "away"} => client'[c].task = "none" /\ client'[c].marked = {}
               /\ client'[c].at \in {"mark", "mark copy"} => runner[client'[c].task].at = "gone"
    BY <2>1, <1>0 DEF InHand
  <2>2. CASE StopCopy(c) \/ ReplaceAll(c) \/ ClientDies(c)
    <3>1. client'[c] = Resting
      BY <2>2, <1>0 DEF StopCopy, ReplaceAll, ClientDies, ClientsOK
    <3> QED BY <3>1, AtRest
  <2>3. CASE \/ \E t \in Tasks : StopRead(c, t)
             \/ StopFile(c) \/ StopRow(c) \/ BeginScan(c) \/ ScanRow(c) \/ ListRead(c)
    <3>1. client'[c].at \in {"file", "row", "copy", "scan", "scanned", "list"}
      <4>1. CASE BeginScan(c) \/ \E t \in Tasks : StopRead(c, t)
        <5>1. \A x, y, z, w : /\ [Resting EXCEPT !.job = x, !.at = y, !.task = z].at = y
                              /\ [Resting EXCEPT !.job = x, !.at = y, !.left = w].at = y
          BY DEF Resting
        <5>2. CASE BeginScan(c)
          BY <5>1, <5>2, <1>0 DEF BeginScan, ClientsOK
        <5>3. CASE \E t \in Tasks : StopRead(c, t)
          BY <5>1, <5>3, <1>0 DEF StopRead, ClientsOK
        <5> QED BY <4>1, <5>2, <5>3
      <4>2. CASE StopFile(c)
        BY <4>2, <1>0 DEF StopFile, ClientsOK, ClientState
      <4>3. CASE StopRow(c)
        BY <4>3, <1>0 DEF StopRow, ClientsOK, ClientState
      <4>5. CASE ScanRow(c)
        BY <4>5, <1>0 DEF ScanRow, ClientsOK, ClientState
      <4>4. CASE ListRead(c)
        BY <4>4, <1>0 DEF ListRead, ClientsOK, ClientState
      <4> QED BY <2>3, <4>1, <4>2, <4>3, <4>4, <4>5
    <3> QED BY <3>1
  <2>4. CASE ScanRead(c)
    <3>1. client'[c].at \in {"check", "scan"}
      BY <2>4, <1>0 DEF ScanRead, ClientsOK, ClientState
    <3> QED BY <3>1
  <2>5. CASE ScanCopy(c)
    <3>1. client'[c].at \in {"check copy", "scanned"}
      BY <2>5, <1>0 DEF ScanCopy, ClientsOK, ClientState
    <3> QED BY <3>1
  <2>6. CASE ScanMark(c)
    <3>1. client'[c].at \in {"row", "row copy"}
      BY <2>6, <1>0 DEF ScanMark, ClientsOK, ClientState
    <3> QED BY <3>1
  <2>7. CASE ScanCheck(c) /\ Alive(client[c].task)
    <3>1. client'[c].at \in {"scan", "scanned"}
      BY <2>7, <1>0 DEF ScanCheck, Then, ClientsOK, ClientState
    <3> QED BY <3>1
  <2>8. CASE ScanCheck(c) /\ ~Alive(client[c].task)
    <3>1. client'[c].at \in {"mark", "mark copy"} /\ client'[c].task = client[c].task
      BY <2>8, <1>0 DEF ScanCheck, ClientsOK, ClientState
    <3>2. runner[client[c].task].at = "gone"
      BY <2>8 DEF Alive
    <3> QED BY <3>1, <3>2
  <2>9. CASE ScanEnd(c) /\ client[c].job = "rebuild"
    <3>1. client'[c].at = "list"
      BY <2>9, <1>0 DEF ScanEnd, ClientsOK, ClientState
    <3> QED BY <3>1
  <2>10. CASE ScanEnd(c) /\ client[c].job # "rebuild"
    BY <2>10, <1>0 DEF ScanEnd, ClientsOK, Resting
  <2> QED BY <1>2, <2>2, <2>3, <2>4, <2>5, <2>6, <2>7, <2>8, <2>9, <2>10
<1> QED BY <1>1, <1>2 DEF RegNext

\* Who writes the file: the task's process, a stop, or a client that marks it.
LEMMA FileWriters ==
  ASSUME RegTypeInv, [RegNext]_regVars
  PROVE  \/ UNCHANGED file
         \/ \E t \in Tasks : SaveFile(t)
         \/ \E c \in Clients : client[c].task \in Tasks /\ (StopFile(c) \/ ScanMark(c))
<1>1. \A c \in Clients : Placed(client[c])
  BY DEF RegTypeInv, ClientsOK
<1>2. \A c \in Clients : StopFile(c) \/ ScanMark(c) => client[c].task \in Tasks
  BY <1>1 DEF StopFile, ScanMark, Placed
<1> QED BY <1>2, ZenonT(30) DEF RegNext, regVars, SaveCopy, SaveRow, Exit, StopRead, StopRow, StopCopy, BeginScan,
             ScanRead, ScanCopy, ScanCheck, ScanRow, ScanEnd, ListRead, ReplaceAll, ClientDies

LEMMA VerdictIsKnownStep == RegTypeInv /\ SettledInv /\ [RegNext]_regVars => VerdictIsKnown'
<1> SUFFICES ASSUME RegTypeInv, SettledInv, [RegNext]_regVars PROVE VerdictIsKnown'
  OBVIOUS
<1>0. StoresOK /\ InHand /\ VerdictIsKnown
  BY DEF RegTypeInv, SettledInv
<1>1. ASSUME NEW t \in Tasks, SaveFile(t) PROVE VerdictIsKnown'
  <2>1. PICK status : /\ file' = [file EXCEPT ![t] = Written(t, status)]
                      /\ runner' = [runner EXCEPT ![t] = [at |-> "copy", record |-> Written(t, status)]]
    BY <1>1, WriteFileIs DEF SaveFile
  <2>2. file'[t] = runner'[t].record /\ \A u \in Tasks \ {t} : file'[u] = file[u] /\ runner'[u] = runner[u]
    BY <2>1, <1>0 DEF StoresOK
  <2> QED BY <2>2, <1>0 DEF VerdictIsKnown
<1>2. ASSUME NEW c \in Clients, client[c].task \in Tasks, StopFile(c) PROVE VerdictIsKnown'
  <2>1. file' = [file EXCEPT ![client[c].task] = Written(client[c].task, "cancelling")] /\ UNCHANGED runner
    BY <1>2, WriteFileIs DEF StopFile
  <2>2. file'[client[c].task].status \notin Verdicts
        /\ \A u \in Tasks \ {client[c].task} : file'[u] = file[u]
    BY <2>1, <1>2, <1>0, VerdictsApart DEF StoresOK, Written
  <2> QED BY <2>1, <2>2, <1>0 DEF VerdictIsKnown
<1>3. ASSUME NEW c \in Clients, client[c].task \in Tasks, ScanMark(c) PROVE VerdictIsKnown'
  <2>1. file' = [file EXCEPT ![client[c].task] = Written(client[c].task, "interrupted")] /\ UNCHANGED runner
    BY <1>3, WriteFileIs DEF ScanMark
  <2>2. runner[client[c].task].at = "gone"
    BY <1>3, <1>0 DEF ScanMark, InHand
  <2>3. \A u \in Tasks \ {client[c].task} : file'[u] = file[u]
    BY <2>1, <1>0 DEF StoresOK
  <2> QED BY <2>1, <2>2, <2>3, <1>0 DEF VerdictIsKnown
<1>4. CASE UNCHANGED file /\ ~\E t \in Tasks : SaveFile(t)
  <2>1. \A t \in Tasks : /\ runner'[t].record = runner[t].record
                         /\ runner[t].at = "gone" => runner'[t].at = "gone"
    <3>1. CASE UNCHANGED runner
      BY <3>1
    <3>2. ASSUME NEW u \in Tasks, SaveCopy(u) \/ SaveRow(u) \/ Exit(u)
          PROVE  \A t \in Tasks : /\ runner'[t].record = runner[t].record
                                  /\ runner[t].at = "gone" => runner'[t].at = "gone"
      <4>1. runner[u].at # "gone" /\ \E at : runner' = [runner EXCEPT ![u].at = at]
        BY <3>2 DEF SaveCopy, SaveRow, Exit, AtWork
      <4> QED BY <4>1, <1>0 DEF StoresOK
    <3> QED BY <1>4, <3>1, <3>2, ZenonT(30) DEF RegNext, regVars, StopRead, StopFile, StopRow, StopCopy,
         BeginScan, ScanRead, ScanCopy, ScanCheck, ScanMark, ScanRow, ScanEnd, ListRead, ReplaceAll,
         ClientDies
  <2> QED BY <1>4, <2>1, <1>0 DEF VerdictIsKnown
<1> QED BY <1>1, <1>2, <1>3, <1>4, FileWriters

\* A settled task keeps its file: its process is done, and no client has it in hand.
LEMMA SettledKeepsFile ==
  ASSUME RegTypeInv, SettledInv, [RegNext]_regVars, NEW t \in settled
  PROVE  file'[t] = file[t]
<1>0. /\ t \in Tasks /\ Settled(t) /\ file \in [Tasks -> Record] /\ VerdictIsKnown
  BY DEF RegTypeInv, StoresOK, SettledInv
<1>1. ~SaveFile(t)
  BY <1>0 DEF SaveFile, Settled, VerdictIsKnown
<1>2. ASSUME NEW u \in Tasks, SaveFile(u) PROVE file'[t] = file[t]
  <2>1. u # t /\ \E status : file' = [file EXCEPT ![u] = Written(u, status)]
    BY <1>1, <1>2, WriteFileIs DEF SaveFile
  <2> QED BY <2>1, <1>0
<1>3. ASSUME NEW c \in Clients, StopFile(c) \/ ScanMark(c) PROVE file'[t] = file[t]
  <2>1. client[c].task # t
    BY <1>0 DEF Settled
  <2>2. \E status : file' = [file EXCEPT ![client[c].task] = Written(client[c].task, status)]
    BY <1>3, WriteFileIs DEF StopFile, ScanMark
  <2> QED BY <2>1, <2>2, <1>0
<1> QED BY <1>2, <1>3, FileWriters

\* Nobody takes a settled task in hand: its file and its copy show a verdict.
LEMMA SettledOutOfHand ==
  ASSUME RegTypeInv, SettledInv, [RegNext]_regVars, NEW t \in settled, NEW c \in Clients
  PROVE  client'[c].task # t /\ t \notin client'[c].marked
<1>0. /\ t \in Tasks /\ Settled(t) /\ ClientsOK /\ client[c] \in ClientState
      /\ client[c].task # t /\ t \notin client[c].marked /\ t # "none"
      /\ file[t].status \notin Orphaned /\ file[t].status \notin Stoppable
      /\ current.task = t => current.record.status \notin Orphaned
  BY VerdictsApart, RegistryAssumption
     DEF RegTypeInv, StoresOK, ClientsOK, SettledInv, Settled
<1>1. CASE UNCHANGED client
  BY <1>1, <1>0
<1>2. CASE client'[c] = Resting
  BY <1>2, <1>0 DEF Resting
<1>3. ASSUME NEW d \in Clients \ {c},
             \/ \E u \in Tasks : StopRead(d, u)
             \/ StopFile(d) \/ StopRow(d) \/ StopCopy(d)
             \/ BeginScan(d) \/ ScanRead(d) \/ ScanCopy(d) \/ ScanCheck(d) \/ ScanMark(d)
             \/ ScanRow(d) \/ ScanEnd(d) \/ ListRead(d) \/ ReplaceAll(d) \/ ClientDies(d)
      PROVE  client'[c].task # t /\ t \notin client'[c].marked
  <2>1. client'[c] = client[c]
    BY <1>3, <1>0 DEF StopRead, StopFile, StopRow, StopCopy, BeginScan, ScanRead, ScanCopy,
         ScanCheck, ScanMark, ScanRow, ScanEnd, ListRead, ReplaceAll, ClientDies, ClientsOK
  <2> QED BY <2>1, <1>0
<1>4. ASSUME NEW u \in Tasks, StopRead(c, u) PROVE client'[c].task # t /\ t \notin client'[c].marked
  BY <1>4, <1>0 DEF StopRead, ClientsOK, Resting
<1>5. CASE StopFile(c)
  BY <1>5, <1>0 DEF StopFile, ClientsOK, ClientState
<1>6. CASE StopRow(c)
  BY <1>6, <1>0 DEF StopRow, ClientsOK, ClientState
<1>7. CASE BeginScan(c)
  BY <1>7, <1>0 DEF BeginScan, ClientsOK, Resting
<1>8. CASE ScanRead(c)
  BY <1>8, <1>0 DEF ScanRead, ClientsOK, ClientState
<1>9. CASE ScanCopy(c)
  BY <1>9, <1>0 DEF ScanCopy, ClientsOK, ClientState
<1>10. CASE ScanCheck(c)
  BY <1>10, <1>0 DEF ScanCheck, ClientsOK, ClientState
<1>11. CASE ScanMark(c)
  <2>1. client'[c].task = client[c].task /\ client'[c].marked = client[c].marked \union {client[c].task}
    BY <1>11, <1>0 DEF ScanMark, ClientsOK, ClientState
  <2> QED BY <2>1, <1>0
<1>12. CASE ScanRow(c)
  BY <1>12, <1>0 DEF ScanRow, ClientsOK, ClientState
<1>13. CASE ScanEnd(c) /\ client[c].job = "rebuild"
  BY <1>13, <1>0 DEF ScanEnd, ClientsOK, ClientState
<1>14. CASE ScanEnd(c) /\ client[c].job # "rebuild"
  BY <1>14, <1>2, <1>0 DEF ScanEnd, ClientsOK
<1>15. CASE ListRead(c)
  BY <1>15, <1>0 DEF ListRead, ClientsOK, ClientState
<1>16. CASE StopCopy(c) \/ ReplaceAll(c) \/ ClientDies(c)
  BY <1>16, <1>2, <1>0 DEF StopCopy, ReplaceAll, ClientDies, ClientsOK
<1>17. CASE UNCHANGED regVars \/ \E u \in Tasks : SaveFile(u) \/ SaveCopy(u) \/ SaveRow(u) \/ Exit(u)
  BY <1>17, <1>1 DEF regVars, SaveFile, SaveCopy, SaveRow, Exit
<1> QED BY <1>3, <1>4, <1>5, <1>6, <1>7, <1>8, <1>9, <1>10, <1>11, <1>12, <1>13, <1>14, <1>15, <1>16,
           <1>17 DEF RegNext

\* What a settled task still shows after a step.
LEMMA SettledStays ==
  ASSUME RegTypeInv, SettledInv, [RegNext]_regVars, NEW t \in settled
  PROVE  Settled(t)'
<1>0. /\ t \in Tasks /\ Settled(t) /\ StoresOK /\ ClientsOK /\ VerdictIsKnown
  BY DEF RegTypeInv, StoresOK, SettledInv
<1>1. file'[t] = file[t] /\ \A c \in Clients : client'[c].task # t /\ t \notin client'[c].marked
  BY SettledKeepsFile, SettledOutOfHand
<1>2. ~SaveFile(t) /\ ~SaveCopy(t) /\ ~SaveRow(t)
  BY <1>0 DEF SaveFile, SaveCopy, SaveRow, Settled, VerdictIsKnown
<1>3. runner'[t].at \in {"idle", "gone"}
  <2>1. CASE UNCHANGED runner
    BY <2>1, <1>0 DEF Settled
  <2>2. ASSUME NEW u \in Tasks, SaveFile(u) \/ SaveCopy(u) \/ SaveRow(u) \/ Exit(u)
        PROVE  runner'[t].at \in {"idle", "gone"}
    BY <2>2, <1>0, <1>2 DEF SaveFile, SaveCopy, SaveRow, Exit, StoresOK, Settled
  <2> QED BY <2>1, <2>2, ZenonT(30) DEF RegNext, regVars, StopRead, StopFile, StopRow, StopCopy, BeginScan, ScanRead,
             ScanCopy, ScanCheck, ScanMark, ScanRow, ScanEnd, ListRead, ReplaceAll, ClientDies
<1>4. current'.task = t => current'.record.status \in Verdicts
  <2>1. CASE UNCHANGED current
    BY <2>1, <1>0 DEF Settled
  <2>2. ASSUME NEW u \in Tasks, SaveCopy(u) PROVE current'.task = t => current'.record.status \in Verdicts
    BY <2>2, <1>2 DEF SaveCopy
  <2>3. ASSUME NEW c \in Clients, StopCopy(c) \/ ScanEnd(c)
        PROVE  current'.task = t => current'.record.status \in Verdicts
    <3>1. client[c].task # t /\ t \notin client[c].marked
      BY <1>0 DEF Settled
    <3>2. CASE StopCopy(c)
      BY <3>2, <3>1, <1>0 DEF StopCopy, Settled
    <3>3. CASE ScanEnd(c)
      BY <3>3, <3>1, <1>0 DEF ScanEnd, Settled, StoresOK
    <3> QED BY <2>3, <3>2, <3>3
  <2> QED BY <2>1, <2>2, <2>3, ZenonT(30) DEF RegNext, regVars, SaveFile, SaveRow, Exit, StopRead, StopFile, StopRow,
             BeginScan, ScanRead, ScanCopy, ScanCheck, ScanMark, ScanRow, ListRead, ReplaceAll, ClientDies
<1> QED BY <1>0, <1>1, <1>3, <1>4 DEF Settled

\* A task is settled when its verdict is in every place and no client is at work.
LEMMA NewlySettled ==
  ASSUME RegTypeInv, SettledInv, NEW t \in Tasks, SaveRow(t), t \in settled' \ settled
  PROVE  Settled(t)'
<1>0. /\ StoresOK /\ ClientsOK /\ InHand
  BY DEF RegTypeInv, SettledInv
<1>1. /\ file[t].status \in Verdicts /\ Quiet /\ current = [task |-> t, record |-> file[t]]
      /\ UNCHANGED <<file, current, client>>
      /\ runner' = [runner EXCEPT ![t].at = "idle"]
  BY DEF SaveRow
<1>2. runner'[t].at = "idle"
  BY <1>0, <1>1 DEF StoresOK
<1>3. \A c \in Clients : client[c].task = "none" /\ client[c].marked = {}
  BY <1>0, <1>1 DEF Quiet, InHand
<1> QED BY <1>1, <1>2, <1>3, RegistryAssumption DEF Settled

LEMMA SettledStep == RegTypeInv /\ SettledInv /\ [RegNext]_regVars => SettledInv'
<1> SUFFICES ASSUME RegTypeInv, SettledInv, [RegNext]_regVars PROVE SettledInv'
  OBVIOUS
<1>1. ASSUME NEW t \in settled' PROVE Settled(t)'
  <2>1. CASE t \in settled
    BY <2>1, SettledStays
  <2>2. CASE t \notin settled
    <3>1. t \in Tasks /\ SaveRow(t)
      <4>1. settled' # settled
        BY <2>2
      <4>2. \E u \in Tasks : SaveRow(u) /\ settled' \in {settled, settled \union {u}}
        BY <4>1, ZenonT(30) DEF RegNext, regVars, SaveFile, SaveCopy, SaveRow, Exit, StopRead, StopFile, StopRow,
           StopCopy, BeginScan, ScanRead, ScanCopy, ScanCheck, ScanMark, ScanRow, ScanEnd, ListRead,
           ReplaceAll, ClientDies
      <4> QED BY <4>2, <2>2
    <3> QED BY <3>1, <2>2, NewlySettled
  <2> QED BY <2>1, <2>2
<1> QED BY <1>1, InHandStep, VerdictIsKnownStep DEF SettledInv

\* A verdict that was saved in all three places while no client was at work stands,
\* whatever stops, scans, rebuilds and deaths come later (registry.py).
THEOREM SettledVerdictKept == RegSpec => SettledVerdictStands
<1>1. RegTypeInv /\ SettledInv /\ [RegNext]_regVars
        => [\A t \in settled : file'[t] = file[t]]_regVars
  BY SettledKeepsFile
<1>2. RegSpec => []SettledInv
  BY SettledInit, SettledStep, RegTypes, PTL DEF RegSpec
<1> QED BY <1>1, <1>2, RegTypes, PTL DEF RegSpec, SettledVerdictStands

----
(***************************************************************************)
(* TaskIndex                                                               *)
(***************************************************************************)
LEMMA LeaseTypeInit == LeaseInit => LeaseTypeOK
BY LeaseAssumption DEF LeaseAssumption, LeaseInit, LeaseTypeOK, Free

LEMMA LeaseTypeStep == LeaseTypeOK /\ [LeaseNext]_leaseVars => LeaseTypeOK'
<1> SUFFICES ASSUME LeaseTypeOK, [LeaseNext]_leaseVars PROVE LeaseTypeOK'
  OBVIOUS
<1> USE LeaseAssumption DEF LeaseAssumption, LeaseTypeOK
<1>1. CASE UNCHANGED leaseVars
  BY <1>1 DEF leaseVars
<1>2. CASE Tick
  BY <1>2 DEF Tick
<1>3. CASE Upsert
  BY <1>3 DEF Upsert, LeaseOf, Free
<1>4. ASSUME NEW w \in Workers, Acquire(w) PROVE LeaseTypeOK'
  BY <1>4 DEF Acquire, Tell
<1>5. ASSUME NEW w \in Workers, Renew(w) PROVE LeaseTypeOK'
  BY <1>5 DEF Renew, Tell
<1>6. ASSUME NEW w \in Workers, Release(w) PROVE LeaseTypeOK'
  BY <1>6 DEF Release, Tell, Free
<1> QED BY <1>1, <1>2, <1>3, <1>4, <1>5, <1>6 DEF LeaseNext

\* Every variable keeps its type, and nobody is told of a lease longer than the ttl.
THEOREM LeaseTypeCorrect == LeaseSpec => []LeaseTypeOK
BY LeaseTypeInit, LeaseTypeStep, PTL DEF LeaseSpec

----
\* One holder at a time is inductive: whoever gets the row's lease finds it free,
\* expired or his own, and so nobody else's.
LEMMA OneHolderStep == LeaseTypeOK /\ OneHolder /\ [LeaseNext]_leaseVars => OneHolder'
<1> SUFFICES ASSUME LeaseTypeOK, OneHolder, [LeaseNext]_leaseVars,
                    NEW v \in Workers, Holds(v)'
             PROVE  (lease = [owner |-> v, until |-> told[v]])'
  BY DEF OneHolder
<1> USE LeaseAssumption DEF LeaseAssumption, LeaseTypeOK, Holds
<1>1. Holds(v) => lease.owner = v /\ lease.until = told[v]
  BY DEF OneHolder
<1>2. CASE UNCHANGED leaseVars
  BY <1>2 DEF leaseVars, OneHolder
<1>3. CASE Tick
  BY <1>3 DEF Tick, OneHolder
<1>4. CASE Upsert
  \* Nobody has been told anything in the era that begins.
  BY <1>4 DEF Upsert
<1>5. ASSUME NEW w \in Workers, Acquire(w) PROVE (lease = [owner |-> v, until |-> told[v]])'
  BY <1>1, <1>5 DEF Acquire, Available, Tell, OneHolder
<1>6. ASSUME NEW w \in Workers, Renew(w) PROVE (lease = [owner |-> v, until |-> told[v]])'
  BY <1>1, <1>6 DEF Renew, Tell, OneHolder
<1>7. ASSUME NEW w \in Workers, Release(w) PROVE (lease = [owner |-> v, until |-> told[v]])'
  BY <1>1, <1>7 DEF Release, Tell, OneHolder
<1> QED BY <1>2, <1>3, <1>4, <1>5, <1>6, <1>7 DEF LeaseNext

\* Whatever the order of requests, upserts and ticks, the row names whoever was told
\* that he holds it, and so no two workers hold it (acquire_lease, renew_lease).
THEOREM LeaseHasOneHolder == LeaseSpec => []OneHolder
<1>1. LeaseInit => OneHolder
  BY LeaseAssumption DEF LeaseAssumption, LeaseInit, OneHolder, Holds
<1> QED BY <1>1, OneHolderStep, LeaseTypeCorrect, PTL DEF LeaseSpec

----
(***************************************************************************)
(* SessionLog                                                              *)
(***************************************************************************)
\* Lines as a session that was never damaged holds them: ids rise, up to the last
\* one given, and a parent stands before its children.
Whole(lines, last) ==
  /\ lines \in Seq({lines[i] : i \in DOMAIN lines})
  /\ \A i \in DOMAIN lines : lines[i].id \in 1 .. last
  /\ \A i, j \in DOMAIN lines : i < j => lines[i].id < lines[j].id
  /\ \A i \in DOMAIN lines :
       lines[i].parent = 0 \/ \E j \in 1 .. (i - 1) : lines[j].id = lines[i].parent

----
(***************************************************************************)
(* Lines                                                                   *)
(***************************************************************************)
LEMMA Sequence ==
  ASSUME NEW w, NEW n, Whole(w, n)
  PROVE  Len(w) \in Nat /\ DOMAIN w = 1 .. Len(w)
BY LenProperties DEF Whole

\* A set of numbers up to n that is not empty has a greatest element.
LEMMA Greatest ==
  ASSUME NEW n \in Nat, NEW ids \in SUBSET (0 .. n), ids # {}
  PROVE  \E id \in ids : \A other \in ids : other <= id
<1> DEFINE gaps == {n - id : id \in ids}
<1>1. gaps \subseteq Nat /\ gaps # {}
  OBVIOUS
<1>2. PICK gap \in gaps : \A other \in gaps : ~(<<other, gap>> \in OpToRel(<, Nat))
  BY <1>1, NatLessThanWellFounded, WFMin
<1>3. \A other \in gaps : ~(other < gap)
  BY <1>1, <1>2 DEF OpToRel
<1>4. PICK id \in ids : gap = n - id
  OBVIOUS
<1>5. \A other \in ids : other <= id
  BY <1>3, <1>4
<1> QED BY <1>5

LEMMA NodeIs ==
  ASSUME NEW w, NEW n, Whole(w, n), NEW i \in DOMAIN w
  PROVE  Node(w, w[i].id) = w[i]
<1>1. \A j \in DOMAIN w : w[j].id = w[i].id => j = i
  <2> TAKE j \in DOMAIN w
  <2>1. i \in Nat /\ j \in Nat /\ w[i].id \in Int /\ w[j].id \in Int
    BY Sequence DEF Whole
  <2>2. (i < j => w[i].id < w[j].id) /\ (j < i => w[j].id < w[i].id)
    BY DEF Whole
  <2> QED BY <2>1, <2>2
<1> QED BY <1>1 DEF Node

LEMMA IdsAre ==
  ASSUME NEW w, NEW n \in Nat, Whole(w, n)
  PROVE  /\ Ids(w) = {w[i].id : i \in DOMAIN w} /\ Ids(w) \subseteq 1 .. n
         /\ Roots(w) = {w[i].id : i \in {j \in DOMAIN w : w[j].parent = 0}}
<1>1. Ids(w) = {w[i].id : i \in DOMAIN w} /\ Ids(w) \subseteq 1 .. n
  BY DEF Ids, Whole
<1>2. \A i \in DOMAIN w : Node(w, w[i].id).parent = w[i].parent
  BY NodeIs
<1> QED BY <1>1, <1>2 DEF Roots

\* The oldest of several roots is never taken for the current node.
LEMMA HighestRoot ==
  ASSUME NEW w, NEW n \in Nat, Whole(w, n), Roots(w) # {}
  PROVE  Highest(Roots(w)) \in Roots(w) /\ \A id \in Roots(w) : id <= Highest(Roots(w))
<1>1. Roots(w) \in SUBSET (0 .. n)
  BY IdsAre DEF Roots
<1>2. \E id \in Roots(w) : \A other \in Roots(w) : other <= id
  BY <1>1, Greatest
<1> QED BY <1>2 DEF Highest

\* There is a current node, or none.
LEMMA CurrentIsThere ==
  ASSUME NEW w, NEW n \in Nat, Whole(w, n), NEW h
  PROVE  LoadedHead(w, h) \in Ids(w) \union {0}
<1>1. Roots(w) \subseteq Ids(w)
  BY DEF Roots
<1> QED BY <1>1, HighestRoot DEF LoadedHead

\* The lines that recover_tail keeps of a log, torn or not.
LEMMA ValidIs ==
  ASSUME NEW w, NEW n \in Nat, Whole(w, n)
  PROVE  Valid(w) = w /\ Valid(Append(w, Torn)) = w /\ Append(w, Torn) # w
<1>1. Len(w) \in Nat /\ DOMAIN w = 1 .. Len(w)
  BY Sequence
<1>2. \A i \in DOMAIN w : w[i] # Torn
  BY DEF Whole, Torn
<1>3. Valid(w) = w
  BY <1>2 DEF Valid
<1> DEFINE torn == Append(w, Torn)
           S == {w[i] : i \in DOMAIN w} \union {Torn}
           bad == {i \in DOMAIN torn : torn[i] = Torn}
           last == Len(w) + 1
<1>4. w \in Seq(S)
  BY DEF Whole
<1>5. /\ torn \in Seq(S) /\ Len(torn) = last /\ torn[last] = Torn
      /\ \A i \in 1 .. Len(w) : torn[i] = w[i]
  BY <1>4, AppendProperties
<1>6. DOMAIN torn = 1 .. last
  BY <1>1, <1>5, LenProperties
<1>7. bad = {last}
  BY <1>1, <1>2, <1>5, <1>6
<1>8. (CHOOSE i \in bad : \A j \in bad : i <= j) = last
  BY <1>1, <1>7
<1>9. SubSeq(torn, 1, last - 1) = w
  <2>1. last - 1 = Len(w)
    BY <1>1
  <2> DEFINE cut == SubSeq(torn, 1, Len(w))
  <2>2. /\ cut \in Seq(S) /\ Len(cut) = Len(w) /\ \A i \in 1 .. Len(w) : cut[i] = torn[i]
    BY <1>1, <1>5 DEF S
  <2> HIDE DEF cut, torn, S
  <2>3. \A i \in 1 .. Len(w) : cut[i] = w[i]
    BY <2>2, <1>5
  <2>4. cut = w
    BY <1>4, <2>2, <2>3, SeqEqual
  <2> QED BY <2>1, <2>4 DEF cut
<1>10. Valid(torn) = w
  <2> HIDE DEF torn, last
  <2> QED BY <1>7, <1>8, <1>9 DEF Valid
<1>11. torn # w
  <2>1. last # Len(w)
    <3> HIDE DEF torn, S, bad
    <3>1. \A k \in Nat : k + 1 # k
      OBVIOUS
    <3> QED BY <3>1, <1>1
  <2> HIDE DEF torn, S, last
  <2> QED BY <2>1, <1>5
<1> QED BY <1>3, <1>10, <1>11

\* A line is added below one that is there.
LEMMA WholeAppend ==
  ASSUME NEW w, NEW n \in Nat, Whole(w, n),
         NEW line, line.id = n + 1, line.parent \in Ids(w) \union {0}
  PROVE  /\ Whole(Append(w, line), n + 1)
         /\ TreeOf(Append(w, line)) = TreeOf(w) \union {Pair(line)}
         /\ Pair(line) \notin TreeOf(w)
         /\ Ids(w) \subseteq Ids(Append(w, line)) /\ n + 1 \in Ids(Append(w, line))
         /\ \A h : LoadedHead(Append(w, line), h) \in {LoadedHead(w, h), n + 1}
<1> DEFINE longer == Append(w, line)
           S == {w[i] : i \in DOMAIN w} \union {line}
           last == Len(w) + 1
<1>1. Len(w) \in Nat /\ DOMAIN w = 1 .. Len(w)
  BY Sequence
<1>2. w \in Seq(S)
  BY DEF Whole
<1>3. /\ longer \in Seq(S) /\ Len(longer) = last /\ longer[last] = line
      /\ \A i \in 1 .. Len(w) : longer[i] = w[i]
  BY <1>2, AppendProperties
<1>4. DOMAIN longer = 1 .. last /\ DOMAIN longer = DOMAIN w \union {last} /\ last \notin DOMAIN w
  BY <1>1, <1>3, LenProperties
<1> HIDE DEF longer, last
<1>5. {longer[i] : i \in DOMAIN longer} = S
  <2>1. \A i \in DOMAIN w : longer[i] = w[i]
    BY <1>1, <1>3
  <2>2. \A x \in S : \E i \in DOMAIN longer : x = longer[i]
    BY <2>1, <1>3, <1>4
  <2>3. \A i \in DOMAIN longer : longer[i] \in S
    BY <2>1, <1>3, <1>4
  <2> QED BY <2>2, <2>3
<1>6. Whole(longer, n + 1)
  <2>1. longer \in Seq({longer[i] : i \in DOMAIN longer})
    BY <1>3, <1>5
  <2>2. \A i \in DOMAIN longer : longer[i].id \in 1 .. (n + 1)
    BY <1>1, <1>3, <1>4 DEF Whole
  <2>3. \A i, j \in DOMAIN longer : i < j => longer[i].id < longer[j].id
    <3> SUFFICES ASSUME NEW i \in DOMAIN longer, NEW j \in DOMAIN longer, i < j
                 PROVE  longer[i].id < longer[j].id
      OBVIOUS
    <3>1. i \in DOMAIN w /\ longer[i] = w[i] /\ w[i].id \in 1 .. n
      BY <1>1, <1>3, <1>4 DEF Whole, last
    <3>2. CASE j = last
      BY <3>1, <3>2, <1>3
    <3>3. CASE j \in DOMAIN w
      BY <3>1, <3>3, <1>1, <1>3 DEF Whole
    <3> QED BY <3>2, <3>3, <1>4
  <2>4. \A i \in DOMAIN longer :
          longer[i].parent = 0 \/ \E j \in 1 .. (i - 1) : longer[j].id = longer[i].parent
    <3> TAKE i \in DOMAIN longer
    <3>1. CASE i \in DOMAIN w
      <4>1. w[i].parent = 0 \/ \E j \in 1 .. (i - 1) : w[j].id = w[i].parent
        BY <3>1 DEF Whole
      <4>2. \A j \in 1 .. (i - 1) : longer[j] = w[j]
        BY <3>1, <1>1, <1>3
      <4> QED BY <3>1, <4>1, <4>2, <1>1, <1>3
    <3>2. CASE i = last /\ line.parent # 0
      <4>1. PICK j \in DOMAIN w : w[j].id = line.parent
        BY <3>2, IdsAre
      <4>2. j \in 1 .. (i - 1) /\ longer[j].id = longer[i].parent
        BY <3>2, <4>1, <1>1, <1>3 DEF last
      <4> QED BY <4>2
    <3>3. CASE i = last /\ line.parent = 0
      BY <3>3, <1>3
    <3> QED BY <3>1, <3>2, <3>3, <1>4
  <2> QED BY <2>1, <2>2, <2>3, <2>4 DEF Whole
<1>7. TreeOf(longer) = TreeOf(w) \union {Pair(line)}
  BY <1>1, <1>3, <1>4 DEF TreeOf
<1>8. Pair(line) \notin TreeOf(w)
  <2>1. \A i \in DOMAIN w : w[i].id # line.id
    BY DEF Whole
  <2> QED BY <2>1 DEF TreeOf, Pair
<1>a. \A i \in DOMAIN w : longer[i] = w[i]
  BY <1>1, <1>3
<1>b. n + 1 \in Nat
  OBVIOUS
<1>c. /\ Ids(longer) = {longer[i].id : i \in DOMAIN longer}
      /\ Roots(longer) = {longer[i].id : i \in {j \in DOMAIN longer : longer[j].parent = 0}}
  BY <1>6, <1>b, IdsAre
<1>d. /\ Ids(w) = {w[i].id : i \in DOMAIN w}
      /\ Roots(w) = {w[i].id : i \in {j \in DOMAIN w : w[j].parent = 0}}
  BY IdsAre
<1>9. Ids(longer) = Ids(w) \union {n + 1}
  BY <1>3, <1>4, <1>a, <1>c, <1>d
<1>10. ASSUME NEW h PROVE LoadedHead(longer, h) \in {LoadedHead(w, h), n + 1}
  <2>0. n + 1 \in Nat /\ n + 1 \notin Ids(w)
    BY IdsAre
  <2>1. CASE h # NoHead
    BY <2>0, <2>1, <1>9 DEF LoadedHead
  <2>2. CASE h = NoHead /\ line.parent = 0
    <3>1. Roots(longer) = Roots(w) \union {n + 1}
      BY <2>2, <1>3, <1>4, <1>a, <1>c, <1>d
    <3>2. \A id \in Roots(w) : id \in 1 .. n
      BY IdsAre DEF Roots
    <3>3. Highest(Roots(longer)) = n + 1
      <4>1. Highest(Roots(longer)) \in Roots(longer) /\ n + 1 <= Highest(Roots(longer))
        BY <2>0, <3>1, <1>6, HighestRoot
      <4> QED BY <4>1, <3>1, <3>2
    <3> QED BY <2>2, <3>1, <3>3 DEF LoadedHead
  <2>3. CASE h = NoHead /\ line.parent # 0
    <3>1. Roots(longer) = Roots(w)
      BY <2>3, <1>3, <1>4, <1>a, <1>c, <1>d
    <3> QED BY <2>3, <3>1 DEF LoadedHead
  <2> QED BY <2>1, <2>2, <2>3
<1> QED BY <1>6, <1>7, <1>8, <1>9, <1>10 DEF longer

\* What is left of lines cut short.
LEMMA WholePrefix ==
  ASSUME NEW w, NEW n \in Nat, Whole(w, n), NEW cut \in PrefixesOf(w)
  PROVE  /\ Whole(cut, n)
         /\ TreeOf(cut) \subseteq TreeOf(w)
         /\ \A stays \in TreeOf(cut), goes \in TreeOf(w) \ TreeOf(cut) : stays.id < goes.id
<1> DEFINE S == {w[i] : i \in DOMAIN w}
<1>1. Len(w) \in Nat /\ DOMAIN w = 1 .. Len(w) /\ w \in Seq(S)
  BY Sequence DEF Whole
<1>2. PICK m \in 0 .. Len(w) : cut = SubSeq(w, 1, m)
  BY DEF PrefixesOf
<1>3. Len(cut) = m /\ DOMAIN cut = 1 .. m /\ \A i \in 1 .. m : cut[i] = w[i]
  BY <1>1, <1>2
<1>4. cut \in Seq({cut[i] : i \in DOMAIN cut})
  <2> DEFINE T == {cut[i] : i \in DOMAIN cut}
  <2>1. cut = [i \in 1 .. m |-> cut[i]]
    BY <1>1, <1>2, <1>3
  <2>2. \A i \in 1 .. m : cut[i] \in T
    BY <1>3
  <2> HIDE DEF T
  <2>3. cut \in [1 .. m -> T]
    BY <2>1, <2>2
  <2>4. m \in Nat
    BY <1>1
  <2>5. cut \in Seq(T)
    BY <2>3, <2>4, SeqDef
  <2> QED BY <2>5 DEF T
<1>5. Whole(cut, n)
  <2>1. \A i \in 1 .. m : i \in DOMAIN w /\ cut[i] = w[i] /\ \A j \in 1 .. (i - 1) : cut[j] = w[j]
    BY <1>1, <1>3
  <2> QED BY <1>3, <1>4, <2>1 DEF Whole
<1>6. TreeOf(cut) \subseteq TreeOf(w)
  BY <1>1, <1>3 DEF TreeOf, Pair
<1>7. ASSUME NEW stays \in TreeOf(cut), NEW goes \in TreeOf(w) \ TreeOf(cut)
      PROVE  stays.id < goes.id
  <2>1. PICK i \in 1 .. m : stays = Pair(w[i])
    BY <1>3 DEF TreeOf, Pair
  <2>2. PICK j \in DOMAIN w : goes = Pair(w[j])
    BY DEF TreeOf, Pair
  <2>3. j \notin 1 .. m
    BY <2>2, <1>3, <1>7 DEF TreeOf, Pair
  <2>5. i \in DOMAIN w /\ i < j
    BY <2>2, <2>3, <1>1
  <2>4. w[i].id < w[j].id
    BY <2>2, <2>5 DEF Whole
  <2> QED BY <2>1, <2>2, <2>4 DEF Pair
<1> QED BY <1>5, <1>6, <1>7

----
(***************************************************************************)
(* The invariant                                                           *)
(***************************************************************************)
LogPlaces == {"idle", "append", "head", "move", "rewrite"}

\* A saver with a node in hand has it from the log, unless its lines got lost there.
SaverOK(p) ==
  /\ pc[p] # "idle" => p \in active
  /\ pc[p] \in {"append", "head", "move"} /\ Valid(log) = log => mine[p] \in Ids(log) \union {0}
  /\ pc[p] = "head" => ended
  /\ pc[p] = "rewrite" => Whole(kept[p], born) /\ log = <<>>

\* Only a saver that is alone dies, so only he finds, spoils and mends such a log.
Damaged == Valid(log) # log \/ ~ended \/ \E p \in Savers : pc[p] = "rewrite"

LogTypes ==
  /\ born \in Nat /\ ended \in BOOLEAN /\ active \in SUBSET Savers
  /\ pc \in [Savers -> LogPlaces] /\ mine \in [Savers -> Nat] /\ DOMAIN kept = Savers

LogInv ==
  /\ LogTypes
  /\ Whole(Valid(log), born) /\ log \in {Valid(log), Append(Valid(log), Torn)}
  /\ ended \/ log # <<>>
  /\ \A p \in Savers : SaverOK(p)
  /\ Damaged => \E p \in Savers : active = {p}

LEMMA WholeEmpty == \A n : Whole(<<>>, n)
BY DEF Whole

LEMMA WholeRoot ==
  ASSUME NEW line, line.id = 1, line.parent = 0
  PROVE  Whole(<<line>>, 1)
<1>1. <<line>> \in Seq({line}) /\ DOMAIN <<line>> = {1} /\ <<line>>[1] = line
  OBVIOUS
<1>2. {<<line>>[i] : i \in DOMAIN <<line>>} = {line}
  BY <1>1
<1> DEFINE w == <<line>>
<1> HIDE DEF w
<1> QED BY <1>1, <1>2 DEF Whole, w

LEMMA LogInitially == LogInit => LogInv
<1> SUFFICES ASSUME LogInit PROVE LogInv
  OBVIOUS
<1>1. LogTypes
  BY DEF LogInit, LogTypes, LogPlaces
<1>2. Whole(log, born)
  <2>1. CASE log = <<>>
    BY <2>1, WholeEmpty
  <2>2. CASE log # <<>>
    <3> DEFINE line == [id |-> 1, parent |-> 0, kind |-> "root", text |-> <<>>]
    <3>1. log = <<line>> /\ born = 1
      BY <2>2 DEF LogInit
    <3>2. line.id = 1 /\ line.parent = 0
      OBVIOUS
    <3> HIDE DEF line
    <3> QED BY <3>1, <3>2, WholeRoot
  <2> QED BY <2>1, <2>2
<1>3. Valid(log) = log
  BY <1>1, <1>2, ValidIs DEF LogTypes
<1>4. ended /\ \A p \in Savers : pc[p] = "idle"
  BY DEF LogInit
<1> QED BY <1>1, <1>2, <1>3, <1>4 DEF LogInv, SaverOK, Damaged

\* Who opens the session reads a whole log, and nobody is mending it.
LEMMA OpensWhole ==
  ASSUME LogInv, NEW p \in active, Readable(log)
  PROVE  Valid(log) = log /\ Whole(log, born)
<1>1. CASE log = Append(Valid(log), Torn)
  <2> DEFINE w == Valid(log)
             S == {w[i] : i \in DOMAIN w} \union {Torn}
  <2>1. w \in Seq(S)
    BY DEF LogInv, Whole
  <2>2. Len(w) + 1 \in DOMAIN log /\ log[Len(w) + 1] = Torn
    <3>1. Len(w) \in Nat
      BY Sequence DEF LogInv
    <3>2. /\ Append(w, Torn) \in Seq(S) /\ Len(Append(w, Torn)) = Len(w) + 1
          /\ Append(w, Torn)[Len(w) + 1] = Torn
      BY <2>1, AppendProperties
    <3>3. DOMAIN Append(w, Torn) = 1 .. (Len(w) + 1)
      BY <3>2, LenProperties
    <3> HIDE DEF w
    <3> QED BY <1>1, <3>1, <3>2, <3>3 DEF w
  <2> QED BY <2>2 DEF Readable
<1>2. CASE log = Valid(log)
  BY <1>2 DEF LogInv
<1> QED BY <1>1, <1>2 DEF LogInv

\* While somebody at work is not mending the log, nobody is.
LEMMA NobodyMends ==
  ASSUME LogInv, NEW p \in active, pc[p] # "rewrite"
  PROVE  \A q \in Savers : pc[q] # "rewrite"
BY DEF LogInv, SaverOK, LogTypes, Damaged

LEMMA TruncateStep ==
  ASSUME LogInv, NEW p \in active, Truncate(p)
  PROVE  LogInv'
<1>1. active = {p} /\ p \in Savers
  BY DEF LogInv, Truncate, Damaged, LogTypes
<1>2. /\ log' = <<>> /\ ended' = TRUE /\ born' = born /\ active' = active /\ mine' = mine
      /\ kept' = [kept EXCEPT ![p] = Valid(log)] /\ pc' = [pc EXCEPT ![p] = "rewrite"]
  BY DEF Truncate
<1>3. LogTypes'
  BY <1>2 DEF LogInv, LogTypes, LogPlaces
<1>4. Whole(log', born') /\ Valid(log') = log'
  BY <1>2, WholeEmpty, ValidIs DEF LogInv, LogTypes
<1>5. \A q \in Savers : q # p => pc'[q] = "idle"
  BY <1>1, <1>2 DEF LogInv, SaverOK, LogTypes
<1>6. pc'[p] = "rewrite" /\ Whole(kept'[p], born')
  BY <1>1, <1>2 DEF LogInv, LogTypes
<1>7. \A q \in Savers : SaverOK(q)'
  BY <1>1, <1>2, <1>5, <1>6 DEF SaverOK
<1> QED BY <1>1, <1>2, <1>3, <1>4, <1>7 DEF LogInv

LEMMA RewriteStep ==
  ASSUME LogInv, NEW p \in active, Rewrite(p)
  PROVE  LogInv'
<1>1. active = {p} /\ p \in Savers /\ Whole(kept[p], born)
  BY DEF LogInv, Rewrite, Damaged, LogTypes, SaverOK
<1>2. /\ log' = kept[p] /\ ended' = TRUE /\ born' = born /\ active' = active /\ mine' = mine
      /\ kept' = [kept EXCEPT ![p] = <<>>] /\ pc' = [pc EXCEPT ![p] = "idle"]
  BY DEF Rewrite
<1>3. LogTypes'
  BY <1>2 DEF LogInv, LogTypes, LogPlaces
<1>4. Whole(log', born') /\ Valid(log') = log'
  BY <1>1, <1>2, ValidIs DEF LogInv, LogTypes
<1>5. \A q \in Savers : pc'[q] = "idle"
  BY <1>1, <1>2 DEF LogInv, SaverOK, LogTypes
<1>6. \A q \in Savers : SaverOK(q)'
  BY <1>5 DEF SaverOK
<1> QED BY <1>1, <1>2, <1>3, <1>4, <1>6 DEF LogInv

\* A step of one saver that leaves the log alone, and nobody mends it.
LEMMA StillStep ==
  ASSUME LogInv, NEW p \in active, pc[p] # "rewrite",
         LogTypes', UNCHANGED <<log, ended, born, active, kept>>,
         \A q \in Savers \ {p} : pc'[q] = pc[q] /\ mine'[q] = mine[q],
         pc'[p] \in {"idle", "append", "move"},
         Valid(log) = log => mine'[p] \in Ids(log) \union {0}
  PROVE  LogInv'
<1>1. \A q \in Savers : pc[q] # "rewrite" /\ pc'[q] # "rewrite"
  BY NobodyMends
<1>2. \A q \in Savers : SaverOK(q)'
  BY <1>1 DEF LogInv, SaverOK
<1> QED BY <1>1, <1>2 DEF LogInv, Damaged

\* A saver that is alone, and writes the log or dies.
LEMMA AloneStep ==
  ASSUME LogInv, NEW p \in active, active = {p}, active' = active, LogTypes',
         NEW w, Whole(w, born'), log' \in {w, Append(w, Torn)}, ended' \/ log' # <<>>,
         \A q \in Savers \ {p} : pc'[q] = pc[q],
         pc'[p] = "idle" \/ (pc'[p] = "head" /\ log' = Append(w, Torn) /\ ended')
  PROVE  LogInv'
<1>1. p \in Savers /\ born' \in Nat
  BY DEF LogInv, LogTypes
<1>2. Valid(log') = w /\ (log' = Append(w, Torn) => log' # w)
  BY <1>1, ValidIs
<1>3. \A q \in Savers : q # p => pc'[q] = "idle"
  BY DEF LogInv, SaverOK
<1>4. \A q \in Savers : SaverOK(q)'
  BY <1>2, <1>3 DEF SaverOK
<1> QED BY <1>1, <1>2, <1>4 DEF LogInv

LEMMA SaveStep ==
  ASSUME LogInv, NEW p \in active, Save(p) \/ Branch(p)
  PROVE  LogInv'
<1>1. p \in Savers /\ pc[p] = "idle" /\ Valid(log) = log /\ Whole(log, born)
  BY OpensWhole DEF Save, Branch, Opens, LogInv, LogTypes
<1>2. PICK at \in Ids(log) \union {0}, place \in {"append", "move"} :
        mine' = [mine EXCEPT ![p] = at] /\ pc' = [pc EXCEPT ![p] = place]
  BY <1>1, CurrentIsThere DEF Save, Branch, LogInv, LogTypes
<1>3. UNCHANGED <<diskVars, active, kept>>
  BY DEF Save, Branch
<1>4. Ids(log) \subseteq Nat
  BY <1>1, IdsAre DEF LogInv, LogTypes
<1>5. LogTypes'
  BY <1>2, <1>3, <1>4 DEF LogInv, LogTypes, diskVars, LogPlaces
<1>6. /\ \A q \in Savers \ {p} : pc'[q] = pc[q] /\ mine'[q] = mine[q]
      /\ pc'[p] \in {"idle", "append", "move"} /\ mine'[p] = at
  BY <1>1, <1>2 DEF LogInv, LogTypes
<1> QED BY <1>1, <1>3, <1>5, <1>6, StillStep DEF diskVars

\* A log without its last line.
Front(w) == SubSeq(w, 1, Len(w) - 1)

LEMMA FrontIs ==
  ASSUME NEW w, NEW n \in Nat, Whole(w, n), w # <<>>
  PROVE  /\ Front(w) \in PrefixesOf(w)
         /\ Ids(w) = Ids(Front(w)) \union {w[Len(w)].id}
<1>1. w \in Seq({w[i] : i \in DOMAIN w}) /\ Len(w) \in Nat /\ DOMAIN w = 1 .. Len(w)
  BY Sequence DEF Whole
<1>2. Len(w) # 0
  BY <1>1, EmptySeq
<1>3. Len(w) - 1 \in 0 .. Len(w)
  BY <1>1, <1>2
<1>4. Front(w) \in PrefixesOf(w)
  BY <1>3 DEF Front, PrefixesOf
<1>5. DOMAIN Front(w) = 1 .. (Len(w) - 1) /\ \A i \in 1 .. (Len(w) - 1) : Front(w)[i] = w[i]
  BY <1>1, <1>3 DEF Front
<1>6. Whole(Front(w), n)
  BY <1>4, WholePrefix
<1>7. Ids(w) = {w[i].id : i \in DOMAIN w} /\ Ids(Front(w)) = {Front(w)[i].id : i \in DOMAIN Front(w)}
  BY <1>6, IdsAre
<1>8. DOMAIN w = DOMAIN Front(w) \union {Len(w)}
  BY <1>1, <1>2, <1>5
<1> QED BY <1>4, <1>5, <1>7, <1>8

LEMMA WholeMore ==
  ASSUME NEW w, NEW n \in Nat, Whole(w, n)
  PROVE  Whole(w, n + 1)
<1>1. \A i \in DOMAIN w : w[i].id \in 1 .. (n + 1)
  BY DEF Whole
<1> QED BY <1>1 DEF Whole

\* The log with a line at its end, torn or not.
LEMMA WithIs ==
  ASSUME LogInv, NEW line
  PROVE  \/ Valid(log) # log /\ With(line) = Append(Valid(log), Torn)
         \/ Valid(log) = log /\ ended /\ With(line) = Append(log, line)
         \/ /\ Valid(log) = log /\ ~ended /\ log # <<>>
            /\ With(line) = Append(Front(log), Torn) /\ Front(log) \in PrefixesOf(log)
<1>1. CASE Valid(log) # log
  BY <1>1 DEF With, LogInv
<1>2. CASE Valid(log) = log /\ ended
  BY <1>2 DEF With
<1>3. CASE Valid(log) = log /\ ~ended
  <2>1. Whole(log, born) /\ born \in Nat /\ log # <<>>
    BY <1>3 DEF LogInv, LogTypes
  <2> QED BY <1>3, <2>1, FrontIs DEF With, Front
<1> QED BY <1>1, <1>2, <1>3

LEMMA AppendIs ==
  ASSUME LogInv, NEW p \in active, pc[p] = "append"
  PROVE  /\ p \in Savers /\ Whole(Valid(log), born) /\ born \in Nat
         /\ NewLine(p).id = born + 1
         /\ Valid(log) = log => NewLine(p).parent \in Ids(log) \union {0}
BY DEF NewLine, ParentOf, LogInv, LogTypes, SaverOK

LEMMA AppendStep ==
  ASSUME LogInv, NEW p \in active, AppendLine(p)
  PROVE  LogInv'
<1>1. /\ p \in Savers /\ pc[p] = "append" /\ Whole(Valid(log), born) /\ born \in Nat
      /\ NewLine(p).id = born + 1
      /\ Valid(log) = log => NewLine(p).parent \in Ids(log) \union {0}
  BY AppendIs DEF AppendLine
<1>2. /\ log' = With(NewLine(p)) /\ ended' = TRUE /\ born' = born + 1
      /\ mine' = [mine EXCEPT ![p] = born + 1] /\ pc' = [pc EXCEPT ![p] = "head"]
      /\ UNCHANGED <<active, kept>>
  BY DEF AppendLine
<1>3. LogTypes'
  BY <1>1, <1>2 DEF LogInv, LogTypes, LogPlaces
<1>4. /\ \A q \in Savers \ {p} : pc'[q] = pc[q] /\ mine'[q] = mine[q]
      /\ pc'[p] = "head" /\ mine'[p] = born + 1
  BY <1>1, <1>2 DEF LogInv, LogTypes
<1>5. CASE Valid(log) # log \/ ~ended
  <2>1. active = {p}
    BY <1>5 DEF LogInv, Damaged
  <2>2. PICK w : Whole(w, born) /\ log' = Append(w, Torn)
    BY <1>1, <1>2, <1>5, WithIs, WholePrefix
  <2>3. Whole(w, born')
    BY <1>1, <1>2, <2>2, WholeMore
  <2> QED BY <1>2, <1>3, <1>4, <2>1, <2>2, <2>3, AloneStep
<1>6. CASE Valid(log) = log /\ ended
  <2>1. log' = Append(log, NewLine(p))
    BY <1>2, <1>6, WithIs
  <2>2. Whole(log', born') /\ Ids(log) \subseteq Ids(log') /\ born + 1 \in Ids(log')
    BY <1>1, <1>2, <1>6, <2>1, WholeAppend
  <2>3. \A q \in Savers : pc[q] # "rewrite" /\ pc'[q] # "rewrite"
    BY <1>1, <1>4, NobodyMends
  <2>4. Valid(log') = log'
    BY <1>3, <2>2, ValidIs DEF LogTypes
  <2>5. ASSUME NEW q \in Savers PROVE SaverOK(q)'
    <3>1. CASE q = p
      BY <1>2, <1>4, <2>2, <3>1 DEF SaverOK
    <3>2. CASE q # p
      BY <1>2, <1>4, <1>6, <2>2, <2>3, <3>2 DEF LogInv, SaverOK
    <3> QED BY <3>1, <3>2
  <2> QED BY <1>2, <1>3, <2>2, <2>3, <2>4, <2>5 DEF LogInv, Damaged
<1> QED BY <1>5, <1>6

LEMMA HeadStep ==
  ASSUME LogInv, NEW p \in active, SaveHead(p) \/ MoveHead(p)
  PROVE  LogInv'
<1>1. p \in Savers /\ pc[p] # "rewrite" /\ (Valid(log) = log => mine[p] \in Ids(log) \union {0})
  BY DEF SaveHead, MoveHead, LogInv, LogTypes, SaverOK
<1>2. PICK at \in {0, mine[p]}, place \in {"idle", "append"} :
        mine' = [mine EXCEPT ![p] = at] /\ pc' = [pc EXCEPT ![p] = place]
  BY DEF SaveHead, MoveHead, WriteHead
<1>3. UNCHANGED <<log, ended, born, active, kept>>
  BY DEF SaveHead, MoveHead, WriteHead
<1>4. LogTypes'
  BY <1>1, <1>2, <1>3 DEF LogInv, LogTypes, LogPlaces
<1>5. /\ \A q \in Savers \ {p} : pc'[q] = pc[q] /\ mine'[q] = mine[q]
      /\ pc'[p] \in {"idle", "append", "move"} /\ mine'[p] = at
  BY <1>1, <1>2 DEF LogInv, LogTypes
<1> QED BY <1>1, <1>2, <1>3, <1>4, <1>5, StillStep

LEMMA DieStep ==
  ASSUME LogInv, NEW p \in active, Die(p)
  PROVE  LogInv'
<1>1. active = {p} /\ p \in Savers /\ active' = active /\ pc' = [pc EXCEPT ![p] = "idle"]
      /\ mine' = [mine EXCEPT ![p] = 0] /\ kept' = [kept EXCEPT ![p] = <<>>] /\ pc[p] # "idle"
  BY DEF Die, LogInv, LogTypes
<1>2. pc'[p] = "idle" /\ \A q \in Savers \ {p} : pc'[q] = pc[q]
  BY <1>1 DEF LogInv, LogTypes
<1>3. /\ \E w : Whole(w, born') /\ log' \in {w, Append(w, Torn)}
      /\ ended' \in BOOLEAN /\ born' \in Nat /\ (ended' \/ log' # <<>>)
  <2>1. CASE UNCHANGED <<log, ended, born>>
    BY <2>1 DEF LogInv, LogTypes
  <2>2. CASE pc[p] = "append" /\ log' = With(Torn) /\ ended' = TRUE /\ born' = born
    <3>1. Whole(Valid(log), born) /\ born \in Nat
      BY DEF LogInv, LogTypes
    <3> QED BY <2>2, <3>1, WithIs, WholePrefix
  <2>3. CASE /\ pc[p] = "append" /\ Valid(log) = log
             /\ log' = Append(log, NewLine(p)) /\ ended' = FALSE /\ born' = born + 1
    <3>1. /\ Whole(log, born) /\ born \in Nat
          /\ NewLine(p).id = born + 1 /\ NewLine(p).parent \in Ids(log) \union {0}
      BY <2>3, AppendIs
    <3>2. Whole(log', born') /\ born + 1 \in Ids(log')
      BY <2>3, <3>1, WholeAppend
    <3>3. log' # <<>>
      BY <3>2 DEF Ids
    <3>4. born' \in Nat
      BY <2>3, <3>1
    <3>5. log' \in {log', Append(log', Torn)}
      OBVIOUS
    <3>6. \E w : Whole(w, born') /\ log' \in {w, Append(w, Torn)}
      BY <3>2, <3>5
    <3>7. ended' \in BOOLEAN
      BY <2>3
    <3> QED BY <3>3, <3>4, <3>6, <3>7
  <2>4. CASE pc[p] = "rewrite" /\ CutRewrite(p)
    <3>1. Whole(kept[p], born) /\ born \in Nat /\ born' = born
      BY <1>1, <2>4 DEF CutRewrite, LogInv, LogTypes, SaverOK
    <3>2. CASE log' \in PrefixesOf(kept[p]) /\ ended' \in {TRUE, log' = <<>>}
      BY <3>1, <3>2, WholePrefix
    <3>3. CASE \E n \in 0 .. Len(kept[p]) - 1 :
                 log' = Append(SubSeq(kept[p], 1, n), Torn) /\ ended' = TRUE
      <4>1. PICK n \in 0 .. Len(kept[p]) - 1 : log' = Append(SubSeq(kept[p], 1, n), Torn) /\ ended' = TRUE
        BY <3>3
      <4>2. n \in 0 .. Len(kept[p])
        BY <3>1, Sequence
      <4>3. SubSeq(kept[p], 1, n) \in PrefixesOf(kept[p])
        BY <4>2 DEF PrefixesOf
      <4> QED BY <3>1, <4>1, <4>3, WholePrefix
    <3> QED BY <2>4, <3>2, <3>3 DEF CutRewrite
  <2> QED BY <2>1, <2>2, <2>3, <2>4 DEF Die, CutAppend
<1>4. LogTypes'
  BY <1>1, <1>3 DEF LogInv, LogTypes, LogPlaces
<1> QED BY <1>1, <1>2, <1>3, <1>4, AloneStep

LEMMA LogStep == LogInv /\ [LogNext]_logVars => LogInv'
<1> SUFFICES ASSUME LogInv, [LogNext]_logVars PROVE LogInv'
  OBVIOUS
<1>1. CASE UNCHANGED <<diskVars, active, pc, mine, kept>>
  BY <1>1 DEF diskVars, LogInv, LogTypes, SaverOK, Damaged
<1>2. ASSUME NEW p \in active, Resume(p) \/ Retry(p) PROVE LogInv'
  BY <1>1, <1>2 DEF Resume, Retry, Load
<1>3. ASSUME NEW p \in active,
             \/ Truncate(p) \/ Rewrite(p) \/ Save(p) \/ Branch(p)
             \/ AppendLine(p) \/ SaveHead(p) \/ MoveHead(p) \/ Die(p)
      PROVE  LogInv'
  BY <1>3, TruncateStep, RewriteStep, SaveStep, AppendStep, HeadStep, DieStep
<1> QED BY <1>1, <1>2, <1>3 DEF LogNext, logVars, repoVars

LEMMA LogIsWhole == LogSpec => []LogInv
BY LogInitially, LogStep, PTL DEF LogSpec

\* walk_to never meets a missing node: whatever savers do at once and wherever one
\* dies, the parent of a node that can be read stands before it in the log.
THEOREM ChainsStayWhole == LogSpec => []ChainsAreWhole
<1>1. LogInv => ChainsAreWhole
  <2> SUFFICES ASSUME LogInv PROVE ChainsAreWhole
    OBVIOUS
  <2> DEFINE w == Valid(log)
  <2>1. Whole(w, born) /\ born \in Nat
    BY DEF LogInv, LogTypes
  <2>2. \A i \in DOMAIN w : log[i] = w[i]
    <3>1. CASE log = w
      BY <3>1
    <3>2. CASE log = Append(w, Torn)
      <4>1. w \in Seq({w[i] : i \in DOMAIN w} \union {Torn}) /\ DOMAIN w = 1 .. Len(w)
        BY <2>1, Sequence DEF Whole
      <4> HIDE DEF w
      <4> QED BY <3>2, <4>1, AppendProperties
    <3> QED BY <3>1, <3>2 DEF LogInv
  <2>3. \A i \in DOMAIN w : \A j \in 1 .. (i - 1) : j \in DOMAIN w
    BY <2>1, Sequence
  <2> HIDE DEF w
  <2> QED BY <2>1, <2>2, <2>3 DEF Whole, ChainsAreWhole, w
<1> QED BY <1>1, LogIsWhole, PTL

----
(***************************************************************************)
(* The refinement                                                          *)
(***************************************************************************)
\* What the log stands for: what is being written back, or else its valid part.
StandsForIt ==
  /\ (\A p \in Savers : pc[p] # "rewrite") => RewrittenLog = Valid(log)
  /\ \A p \in Savers : pc[p] = "rewrite" => RewrittenLog = kept[p]
  /\ Whole(RewrittenLog, born) /\ born \in Nat

LEMMA Standing == LogInv => StandsForIt
<1> SUFFICES ASSUME LogInv PROVE StandsForIt
  OBVIOUS
<1>1. (\A p \in Savers : pc[p] # "rewrite") => RewrittenLog = Valid(log)
  BY DEF RewrittenLog
<1>2. ASSUME NEW p \in Savers, pc[p] = "rewrite" PROVE RewrittenLog = kept[p] /\ Whole(kept[p], born)
  <2>1. \A q \in Savers : pc[q] = "rewrite" => q = p
    BY <1>2 DEF LogInv, SaverOK, Damaged
  <2>2. (CHOOSE q \in Savers : pc[q] = "rewrite") = p
    BY <1>2, <2>1
  <2> QED BY <1>2, <2>2 DEF RewrittenLog, LogInv, SaverOK
<1>3. Whole(RewrittenLog, born) /\ born \in Nat
  BY <1>1, <1>2 DEF LogInv, LogTypes
<1> QED BY <1>1, <1>2, <1>3 DEF StandsForIt

LEMMA StandsFor ==
  ASSUME LogInv
  PROVE  /\ (\A p \in Savers : pc[p] # "rewrite") => RewrittenLog = Valid(log)
         /\ \A p \in Savers : pc[p] = "rewrite" => RewrittenLog = kept[p]
         /\ Whole(RewrittenLog, born) /\ born \in Nat
BY Standing DEF StandsForIt

LEMMA StandsForNext ==
  LogInv' => /\ (\A p \in Savers : pc'[p] # "rewrite") => RewrittenLog' = Valid(log')
             /\ \A p \in Savers : pc'[p] = "rewrite" => RewrittenLog' = kept'[p]
             /\ Whole(RewrittenLog', born') /\ born' \in Nat
<1>1. LogInv' => StandsForIt'
  BY Standing, PTL
<1> QED BY <1>1 DEF StandsForIt

LEMMA NamesAre ==
  ASSUME NEW w, NEW n \in Nat, Whole(w, n)
  PROVE  /\ Promised!NamesOf(TreeOf(w)) = Ids(w)
         /\ Promised!Rooted(TreeOf(w))
<1>1. Ids(w) = {w[i].id : i \in DOMAIN w}
  BY IdsAre
<1>2. Promised!NamesOf(TreeOf(w)) = Ids(w)
  <2>1. \A i \in DOMAIN w : Pair(w[i]).id = w[i].id
    BY DEF Pair
  <2> QED BY <1>1, <2>1 DEF Promised!NamesOf, TreeOf
<1>3. \A i \in DOMAIN w : w[i].parent \in Ids(w) \union {0}
  <2> TAKE i \in DOMAIN w
  <2>1. w[i].parent = 0 \/ \E j \in 1 .. (i - 1) : w[j].id = w[i].parent
    BY DEF Whole
  <2>2. \A j \in 1 .. (i - 1) : j \in DOMAIN w
    BY Sequence
  <2> QED BY <1>1, <2>1, <2>2
<1>4. \A node \in TreeOf(w) : node.parent \in Ids(w) \union {0}
  BY <1>3 DEF TreeOf, Pair
<1> QED BY <1>2, <1>4 DEF Promised!Rooted

\* How the log, as it is written back or is, changes.
Stays == /\ RewrittenLog' = RewrittenLog /\ born' \in {born, born + 1}
         /\ ended' \/ UNCHANGED <<log, ended>>
Gains(p) == /\ pc[p] = "append" /\ Valid(log) = log /\ RewrittenLog = log
            /\ RewrittenLog' = Append(log, NewLine(p)) /\ log' = Append(log, NewLine(p))
            /\ born' = born + 1 /\ head' = head
Spoils == /\ Valid(log) = log /\ ~ended /\ log # <<>> /\ RewrittenLog = log
          /\ RewrittenLog' = Front(log) /\ ended' /\ born' \in {born, born + 1} /\ head' = head
Drops == /\ RewrittenLog' \in PrefixesOf(RewrittenLog) /\ born' = born
         /\ promise' = NoPromise \/ (RewrittenLog' = RewrittenLog /\ ended')

\* A line that is written, whole or not.
LEMMA WritingMoves ==
  ASSUME LogInv, LogInv', NEW p \in active, p \in Savers, pc[p] = "append",
         NEW line, log' = With(line), ended' = TRUE, head' = head,
         (line = Torn /\ born' = born) \/ (line = NewLine(p) /\ born' = born + 1),
         \A q \in Savers : pc'[q] # "rewrite"
  PROVE  Stays \/ Gains(p) \/ Spoils
<1>1. /\ Whole(Valid(log), born) /\ born \in Nat /\ born' \in {born, born + 1}
      /\ NewLine(p).id = born + 1
      /\ Valid(log) = log => NewLine(p).parent \in Ids(log) \union {0}
  BY AppendIs
<1>2. RewrittenLog = Valid(log) /\ RewrittenLog' = Valid(log')
  BY NobodyMends, StandsFor, StandsForNext
<1>3. CASE Valid(log) # log /\ With(line) = Append(Valid(log), Torn)
  <2>1. Valid(log') = Valid(log)
    BY <1>1, <1>3, ValidIs
  <2> QED BY <1>1, <1>2, <2>1 DEF Stays
<1>4. CASE Valid(log) = log /\ ended /\ With(line) = Append(log, line)
  <2>1. CASE line = Torn
    <3>1. Valid(log') = log
      BY <1>1, <1>4, <2>1, ValidIs
    <3> QED BY <1>1, <1>2, <1>4, <3>1 DEF Stays
  <2>2. CASE line = NewLine(p) /\ born' = born + 1
    <3>1. Whole(log', born + 1) /\ born + 1 \in Nat
      BY <1>1, <1>4, <2>2, WholeAppend
    <3>2. Valid(log') = log'
      BY <3>1, ValidIs
    <3> QED BY <1>2, <1>4, <2>2, <3>2 DEF Gains
  <2> QED BY <2>1, <2>2
<1>5. CASE /\ Valid(log) = log /\ ~ended /\ log # <<>>
           /\ With(line) = Append(Front(log), Torn) /\ Front(log) \in PrefixesOf(log)
  <2>1. Whole(Front(log), born)
    BY <1>1, <1>5, WholePrefix
  <2>2. Valid(log') = Front(log)
    BY <1>1, <1>5, <2>1, ValidIs
  <2> QED BY <1>1, <1>2, <1>5, <2>2 DEF Spoils
<1> QED BY <1>3, <1>4, <1>5, WithIs

LEMMA Moves ==
  ASSUME LogInv, LogInv', NEW p \in active, p \in Savers,
         \/ Truncate(p) \/ Rewrite(p) \/ Save(p) \/ Resume(p) \/ Retry(p) \/ Branch(p)
         \/ AppendLine(p) \/ SaveHead(p) \/ MoveHead(p) \/ Die(p)
  PROVE  Stays \/ Gains(p) \/ Spoils \/ Drops
<1>1. CASE Truncate(p)
  <2>1. pc[p] = "idle" /\ pc' = [pc EXCEPT ![p] = "rewrite"] /\ kept' = [kept EXCEPT ![p] = Valid(log)]
        /\ born' = born /\ ended' = TRUE
    BY <1>1 DEF Truncate
  <2>2. RewrittenLog = Valid(log)
    BY <2>1, NobodyMends, StandsFor
  <2>3. pc'[p] = "rewrite" /\ kept'[p] = Valid(log)
    BY <2>1 DEF LogInv, LogTypes
  <2>4. RewrittenLog' = Valid(log)
    BY <2>3, StandsForNext
  <2> QED BY <2>1, <2>2, <2>4 DEF Stays
<1>2. CASE Rewrite(p)
  <2>1. RewrittenLog = kept[p] /\ Whole(kept[p], born) /\ born \in Nat /\ born' = born
    BY <1>2, StandsFor DEF Rewrite
  <2>2. /\ active = {p} /\ log' = kept[p] /\ ended' = TRUE
        /\ pc' = [pc EXCEPT ![p] = "idle"] /\ UNCHANGED active
    BY <1>2 DEF Rewrite, LogInv, Damaged
  <2>3. \A q \in Savers : pc'[q] # "rewrite"
    BY <2>2 DEF LogInv, LogTypes, SaverOK
  <2>4. RewrittenLog' = kept[p]
    BY <2>1, <2>2, <2>3, StandsForNext, ValidIs
  <2> QED BY <2>1, <2>2, <2>4 DEF Stays
<1>3. CASE Save(p) \/ Resume(p) \/ Retry(p) \/ Branch(p) \/ SaveHead(p) \/ MoveHead(p)
  <2>1. pc[p] # "rewrite" /\ UNCHANGED <<log, ended, born>>
    BY <1>3 DEF Save, Resume, Retry, Load, Branch, SaveHead, MoveHead, WriteHead, Opens, diskVars
  <2>2. \E place \in {"idle", "append", "move"} : pc' = [pc EXCEPT ![p] = place] \/ UNCHANGED pc
    BY <1>3 DEF Save, Resume, Retry, Load, Branch, SaveHead, MoveHead, WriteHead
  <2>3. \A q \in Savers : pc[q] # "rewrite" /\ pc'[q] # "rewrite"
    BY <2>1, <2>2, NobodyMends DEF LogInv, LogTypes
  <2>4. RewrittenLog' = RewrittenLog
    BY <2>1, <2>3, StandsFor, StandsForNext
  <2> QED BY <2>1, <2>4 DEF Stays
<1>4. CASE AppendLine(p)
  <2>1. /\ pc[p] = "append" /\ pc' = [pc EXCEPT ![p] = "head"] /\ head' = head
        /\ log' = With(NewLine(p)) /\ ended' = TRUE /\ born' = born + 1
    BY <1>4 DEF AppendLine
  <2>2. \A q \in Savers : pc'[q] # "rewrite"
    BY <2>1, NobodyMends DEF LogInv, LogTypes
  <2> QED BY <2>1, <2>2, WritingMoves
<1>5. CASE Die(p) /\ pc[p] = "rewrite"
  <2>1. RewrittenLog = kept[p] /\ Whole(kept[p], born) /\ born \in Nat
    BY <1>5, StandsFor
  <2>2. active = {p} /\ CutRewrite(p) /\ pc' = [pc EXCEPT ![p] = "idle"] /\ UNCHANGED active
    BY <1>5 DEF Die
  <2>3. promise' = NoPromise \/ (log' = kept[p] /\ ended')
    BY <1>5 DEF Die
  <2>4. born' = born
    BY <2>2 DEF CutRewrite
  <2>5. \A q \in Savers : pc'[q] # "rewrite"
    BY <2>2 DEF LogInv, LogTypes, SaverOK
  <2>6. RewrittenLog' = Valid(log')
    BY <2>5, StandsForNext
  <2>7. CASE log' \in PrefixesOf(kept[p])
    <3>1. Valid(log') = log'
      BY <2>1, <2>7, WholePrefix, ValidIs
    <3> QED BY <2>1, <2>3, <2>4, <2>6, <2>7, <3>1 DEF Drops
  <2>8. CASE \E n \in 0 .. Len(kept[p]) - 1 : log' = Append(SubSeq(kept[p], 1, n), Torn)
    <3>1. PICK n \in 0 .. Len(kept[p]) - 1 : log' = Append(SubSeq(kept[p], 1, n), Torn)
      BY <2>8
    <3>2. n \in 0 .. Len(kept[p])
      BY <2>1, Sequence
    <3>3. SubSeq(kept[p], 1, n) \in PrefixesOf(kept[p])
      BY <3>2 DEF PrefixesOf
    <3>4. Valid(log') = SubSeq(kept[p], 1, n)
      BY <2>1, <3>1, <3>3, WholePrefix, ValidIs
    <3>5. log' # kept[p]
      <4>1. Valid(kept[p]) = kept[p] /\ Append(SubSeq(kept[p], 1, n), Torn) # SubSeq(kept[p], 1, n)
        BY <2>1, <3>3, WholePrefix, ValidIs
      <4> QED BY <3>1, <3>4, <4>1
    <3> QED BY <2>1, <2>3, <2>4, <2>6, <3>3, <3>4, <3>5 DEF Drops
  <2> QED BY <2>2, <2>7, <2>8 DEF CutRewrite
<1>6. CASE Die(p) /\ pc[p] # "rewrite"
  <2>1. active = {p} /\ pc' = [pc EXCEPT ![p] = "idle"] /\ UNCHANGED active
    BY <1>6 DEF Die
  <2>2. \A q \in Savers : pc[q] # "rewrite" /\ pc'[q] # "rewrite"
    BY <1>6, <2>1, NobodyMends DEF LogInv, LogTypes
  <2>3. RewrittenLog = Valid(log) /\ RewrittenLog' = Valid(log')
    BY <2>2, StandsFor, StandsForNext
  <2>4. CASE UNCHANGED <<log, ended, born>>
    BY <2>3, <2>4 DEF Stays
  <2>5. CASE pc[p] = "append" /\ log' = With(Torn) /\ ended' = TRUE /\ born' = born
    <3>1. head' = head
      BY <1>6, <2>5 DEF Die
    <3>2. PICK line : line = Torn
      OBVIOUS
    <3>3. log' = With(line) /\ ((line = Torn /\ born' = born) \/ (line = NewLine(p) /\ born' = born + 1))
      <4>1. log' = With(line)
        BY <2>5, <3>2
      <4> QED BY <2>5, <3>2, <4>1
    <3> QED BY <2>2, <2>5, <3>1, <3>3, WritingMoves
  <2>6. CASE /\ pc[p] = "append" /\ Valid(log) = log
             /\ log' = Append(log, NewLine(p)) /\ ended' = FALSE /\ born' = born + 1
    <3>1. head' = head
      BY <1>6, <2>6 DEF Die
    <3>2. /\ Whole(log, born) /\ born \in Nat
          /\ NewLine(p).id = born + 1 /\ NewLine(p).parent \in Ids(log) \union {0}
      BY <2>6, AppendIs
    <3>3. Whole(log', born + 1) /\ born + 1 \in Nat
      BY <2>6, <3>2, WholeAppend
    <3>4. Valid(log') = log'
      BY <3>3, ValidIs
    <3> QED BY <2>3, <2>6, <3>1, <3>4 DEF Gains
  <2>7. UNCHANGED <<log, ended, born>> \/ (pc[p] = "append" /\ CutAppend(p))
    BY <1>6 DEF Die
  <2> QED BY <2>4, <2>5, <2>6, <2>7 DEF CutAppend
<1> QED BY <1>1, <1>2, <1>3, <1>4, <1>5, <1>6

\* The tree and its current node, as the log and the head file stand for them.
Tree == TreeOf(RewrittenLog)
Current == LoadedHead(RewrittenLog, head)

LEMMA TreeInitially == LogInit => Promised!TreeInit
<1> SUFFICES ASSUME LogInit PROVE Promised!TreeInit
  OBVIOUS
<1>1. LogInv
  BY LogInitially
<1>2. \A p \in Savers : pc[p] = "idle"
  BY DEF LogInit
<1>3. RewrittenLog = Valid(log)
  BY <1>1, <1>2, StandsFor
<1>4. CASE log = <<>> /\ head = NoHead
  <2>1. Valid(log) = <<>> /\ DOMAIN <<>> = {}
    BY <1>4, WholeEmpty, ValidIs
  <2>2. Ids(<<>>) = {} /\ Roots(<<>>) = {}
    BY DEF Ids, Roots
  <2>3. Tree = {} /\ Current = 0
    BY <1>3, <1>4, <2>1, <2>2 DEF Tree, Current, TreeOf, LoadedHead
  <2> QED BY <2>3 DEF Tree, Current, Promised!TreeInit
<1>5. CASE ~(log = <<>> /\ head = NoHead)
  <2> DEFINE line == [id |-> 1, parent |-> 0, kind |-> "root", text |-> <<>>]
  <2>1. log = <<line>> /\ head = 1 /\ line.id = 1 /\ line.parent = 0
    BY <1>5 DEF LogInit
  <2> HIDE DEF line
  <2>2. DOMAIN <<line>> = {1} /\ <<line>>[1] = line
    OBVIOUS
  <2>3. Whole(<<line>>, 1) /\ Valid(<<line>>) = <<line>>
    BY <2>1, WholeRoot, ValidIs
  <2>4. TreeOf(<<line>>) = {Pair(line)} /\ Ids(<<line>>) = {1}
    BY <2>1, <2>2 DEF TreeOf, Ids
  <2>5. Tree = {Pair(line)} /\ Current = 1 /\ Pair(line).id = 1 /\ Pair(line).parent = 0
    BY <1>3, <2>1, <2>3, <2>4 DEF Tree, Current, LoadedHead, NoHead, Pair
  <2> QED BY <2>5 DEF Tree, Current, Promised!TreeInit
<1> QED BY <1>4, <1>5

\* The four ways in which the tree and its current node change.
LEMMA Steps ==
  ASSUME LogInv, LogInv', NEW p \in active, p \in Savers,
         \/ Truncate(p) \/ Rewrite(p) \/ Save(p) \/ Resume(p) \/ Retry(p) \/ Branch(p)
         \/ AppendLine(p) \/ SaveHead(p) \/ MoveHead(p) \/ Die(p)
  PROVE  \/ Tree' = Tree /\ Current' \in {Current} \union Ids(RewrittenLog') \union {0}
         \/ /\ Current' \in {Current, born + 1}
            /\ Tree' = Tree \union {Pair(NewLine(p))} /\ Pair(NewLine(p)) \notin Tree
         \/ /\ Current' \in Ids(RewrittenLog') \union {0}
            /\ Tree' \subseteq Tree
            /\ \A stays \in Tree', goes \in Tree \ Tree' : stays.id < goes.id
<1>0. Current' \in Ids(RewrittenLog') \union {0}
  BY StandsForNext, CurrentIsThere DEF Current
<1>1. CASE RewrittenLog' = RewrittenLog
  BY <1>0, <1>1 DEF Tree
<1>2. CASE Gains(p)
  <2>1. /\ Whole(log, born) /\ born \in Nat /\ head' = head
        /\ RewrittenLog = log /\ RewrittenLog' = Append(log, NewLine(p))
        /\ NewLine(p).id = born + 1 /\ NewLine(p).parent \in Ids(log) \union {0}
    BY <1>2, AppendIs DEF Gains
  <2>2. /\ TreeOf(Append(log, NewLine(p))) = TreeOf(log) \union {Pair(NewLine(p))}
        /\ Pair(NewLine(p)) \notin TreeOf(log)
        /\ LoadedHead(Append(log, NewLine(p)), head) \in {LoadedHead(log, head), born + 1}
    BY <2>1, WholeAppend
  <2> QED BY <2>1, <2>2 DEF Tree, Current
<1>3. CASE RewrittenLog' \in PrefixesOf(RewrittenLog)
  <2>1. Whole(RewrittenLog, born) /\ born \in Nat
    BY StandsFor
  <2> QED BY <1>0, <1>3, <2>1, WholePrefix DEF Tree
<1>4. CASE Spoils
  <2>1. Whole(RewrittenLog, born) /\ born \in Nat
    BY StandsFor
  <2> QED BY <1>3, <1>4, <2>1, FrontIs DEF Spoils
<1> QED BY <1>1, <1>2, <1>3, <1>4, Moves DEF Stays, Drops

LEMMA TreeStep ==
  LogInv /\ LogInv' /\ [LogNext]_logVars
    => [Promised!Grow \/ Promised!Move \/ Promised!Lose]_(Promised!treeVars)
<1> SUFFICES ASSUME LogInv, LogInv', [LogNext]_logVars
             PROVE  \/ Promised!Grow \/ Promised!Move \/ Promised!Lose
                    \/ Tree' = Tree /\ Current' = Current
  BY DEF Tree, Current, Promised!treeVars
<1>0. /\ Promised!NamesOf(Tree) = Ids(RewrittenLog) /\ Promised!Rooted(Tree)
      /\ Promised!NamesOf(Tree') = Ids(RewrittenLog') /\ Promised!Rooted(Tree')
  BY StandsFor, StandsForNext, NamesAre DEF Tree
<1>1. CASE UNCHANGED logVars
  <2>1. RewrittenLog' = RewrittenLog /\ head' = head
    BY <1>1 DEF logVars, diskVars, repoVars, RewrittenLog
  <2> QED BY <2>1 DEF Tree, Current
<1>2. ASSUME NEW p \in active,
             \/ Truncate(p) \/ Rewrite(p) \/ Save(p) \/ Resume(p) \/ Retry(p) \/ Branch(p)
             \/ AppendLine(p) \/ SaveHead(p) \/ MoveHead(p) \/ Die(p)
      PROVE  \/ Promised!Grow \/ Promised!Move \/ Promised!Lose
             \/ Tree' = Tree /\ Current' = Current
  <2>1. p \in Savers
    BY DEF LogInv, LogTypes
  <2>2. CASE Tree' = Tree /\ Current' \in {Current} \union Ids(RewrittenLog') \union {0}
    <3>1. Ids(RewrittenLog') = Ids(RewrittenLog)
      BY <1>0, <2>2
    <3> QED BY <1>0, <2>2, <3>1 DEF Tree, Current, Promised!Move
  <2>3. CASE /\ Current' \in {Current, born + 1}
             /\ Tree' = Tree \union {Pair(NewLine(p))} /\ Pair(NewLine(p)) \notin Tree
    <3> DEFINE n == Pair(NewLine(p))
    <3>1. n.id = born + 1 /\ n.id \notin Promised!NamesOf(Tree)
      <4>1. n.id = born + 1
        BY DEF Pair, NewLine
      <4>2. Ids(RewrittenLog) \subseteq 1 .. born /\ born \in Nat
        BY StandsFor, IdsAre
      <4> QED BY <4>1, <4>2, <1>0
    <3>2. n \in Tree' \ Tree
      BY <2>3
    <3> HIDE DEF n
    <3> QED BY <1>0, <2>3, <3>1, <3>2 DEF Tree, Current, n, Promised!Grow
  <2>4. CASE /\ Current' \in Ids(RewrittenLog') \union {0}
             /\ Tree' \subseteq Tree
             /\ \A stays \in Tree', goes \in Tree \ Tree' : stays.id < goes.id
    BY <1>0, <2>4 DEF Tree, Current, Promised!Lose
  <2> QED BY <1>2, <2>1, <2>2, <2>3, <2>4, Steps
<1> QED BY <1>1, <1>2 DEF LogNext

\* The log and the head file implement the tree of a session: nodes are only added,
\* below nodes that are there, and a death may cost the newest (session/repo.py).
THEOREM LogImplementsTree == LogSpec => ImplementsTree
BY LogIsWhole, TreeInitially, TreeStep, PTL DEF LogSpec, ImplementsTree, Promised!TreeSpec

----
(***************************************************************************)
(* Conversations                                                           *)
(***************************************************************************)
\* What a node adds to the conversation before it.
Effect(node, before) ==
  CASE node.kind = "message"     -> before \o node.text
    [] node.kind = "compression" -> node.text
    [] OTHER                     -> before

\* Spoken, with the number of nodes made explicit.
Walk(lines, b) ==
  CHOOSE upTo : upTo =
    [n \in 0 .. b |->
       IF n \notin Ids(lines) THEN <<>>
       ELSE LET node == Node(lines, n)
            IN  CASE node.kind = "message"     -> upTo[node.parent] \o node.text
                  [] node.kind = "compression" -> node.text
                  [] OTHER                     -> upTo[node.parent]]
Said(lines, b, id) == Walk(lines, b)[id]

LEMMA SpokenIsSaid == \A lines, id : Spoken(lines, id) = Said(lines, born, id)
BY DEF Spoken, Said, Walk

\* One step of the walk, given what it found before.
Found(w, f, n) ==
  IF n \notin Ids(w) THEN <<>> ELSE Effect(Node(w, n), f[Node(w, n).parent])

LEMMA ParentsBefore ==
  ASSUME NEW w, NEW b \in Nat, Whole(w, b), NEW n \in Ids(w)
  PROVE  /\ Node(w, n).parent \in (Ids(w) \union {0}) \intersect (0 .. (n - 1))
         /\ n \in 1 .. b /\ \E i \in DOMAIN w : w[i].id = n /\ Node(w, n) = w[i]
<1>1. PICK i \in DOMAIN w : w[i].id = n /\ n \in 1 .. b
  BY IdsAre
<1>2. Node(w, n) = w[i]
  BY <1>1, NodeIs
<1>3. w[i].parent = 0 \/ \E j \in 1 .. (i - 1) : w[j].id = w[i].parent
  BY DEF Whole
<1>4. DOMAIN w = 1 .. Len(w) /\ Len(w) \in Nat
  BY Sequence
<1>5. ASSUME NEW j \in 1 .. (i - 1) PROVE w[j].id \in Ids(w) /\ w[j].id \in 0 .. (n - 1)
  <2>1. j \in DOMAIN w /\ j < i
    BY <1>4
  <2>2. w[j].id < n /\ w[j].id \in 1 .. b
    BY <1>1, <2>1 DEF Whole
  <2> QED BY <1>1, <2>1, <2>2, IdsAre
<1> QED BY <1>1, <1>2, <1>3, <1>5

\* The walk exists: a parent comes before its children.
LEMMA WalkIs ==
  ASSUME NEW w, NEW b \in Nat, Whole(w, b)
  PROVE  Walk(w, b) = [n \in 0 .. b |-> Found(w, Walk(w, b), n)]
<1> DEFINE Upto(k, f) == f = [n \in 0 .. k |-> Found(w, f, n)]
           stuck == {k \in 0 .. b : ~ \E f : Upto(k, f)}
<1>1. stuck = {}
  <2> SUFFICES ASSUME stuck # {} PROVE FALSE
    OBVIOUS
  <2>0. stuck \subseteq Nat
    OBVIOUS
  <2>1. PICK k \in stuck : \A other \in stuck : ~(<<other, k>> \in OpToRel(<, Nat))
    <3> HIDE DEF stuck
    <3> QED BY <2>0, NatLessThanWellFounded, WFMin
  <2>2. \A other \in stuck : ~(other < k)
    <3> HIDE DEF stuck
    <3> QED BY <2>0, <2>1 DEF OpToRel
  <2>3. k \in 0 .. b /\ ~ \E f : Upto(k, f)
    OBVIOUS
  <2>4. CASE k = 0
    <3> DEFINE f == [n \in 0 .. 0 |-> <<>>]
    <3>1. 0 \notin Ids(w)
      BY DEF Ids
    <3>2. \A n \in 0 .. 0 : Found(w, f, n) = <<>>
      BY <3>1 DEF Found
    <3>3. Upto(0, f)
      BY <3>2
    <3> QED BY <2>3, <2>4, <3>3
  <2>5. CASE k # 0
    <3>1. k - 1 \in 0 .. b /\ k - 1 < k
      BY <2>5
    <3>2. k - 1 \notin stuck
      BY <3>1, <2>2
    <3>3. PICK f : Upto(k - 1, f)
      BY <3>1, <3>2
    <3> DEFINE g == [n \in 0 .. k |-> IF n = k THEN Found(w, f, n) ELSE f[n]]
    <3>4. \A n \in 0 .. (k - 1) : g[n] = f[n] /\ n # k /\ n \in 0 .. k
      OBVIOUS
    <3>5. ASSUME NEW n \in 0 .. k PROVE Found(w, g, n) = Found(w, f, n)
      <4>1. CASE n \notin Ids(w)
        BY <4>1 DEF Found
      <4>2. CASE n \in Ids(w)
        <5>1. Node(w, n).parent \in 0 .. (n - 1)
          BY <4>2, ParentsBefore
        <5>2. Node(w, n).parent \in 0 .. (k - 1)
          BY <5>1
        <5>3. g[Node(w, n).parent] = f[Node(w, n).parent]
          BY <3>4, <5>2
        <5> HIDE DEF g
        <5> QED BY <5>3 DEF Found
      <4> QED BY <4>1, <4>2
    <3>6. \A n \in 0 .. k : g[n] = Found(w, g, n)
      <4> TAKE n \in 0 .. k
      <4>1. CASE n = k
        BY <3>5, <4>1
      <4>2. CASE n # k
        <5>1. n \in 0 .. (k - 1)
          BY <4>2
        <5>2. f[n] = Found(w, f, n)
          BY <3>3, <5>1
        <5> QED BY <3>4, <3>5, <5>1, <5>2
      <4> QED BY <4>1, <4>2
    <3>7. g = [n \in 0 .. k |-> g[n]]
      OBVIOUS
    <3> HIDE DEF g
    <3>8. Upto(k, g)
      BY <3>6, <3>7
    <3> QED BY <2>3, <3>8
  <2> QED BY <2>4, <2>5
<1>2. b \in 0 .. b
  OBVIOUS
<1>3. PICK f : Upto(b, f)
  BY <1>1, <1>2
<1>4. Walk(w, b) = CHOOSE upTo : upTo = [n \in 0 .. b |-> Found(w, upTo, n)]
  BY DEF Walk, Found, Effect
<1> QED BY <1>3, <1>4

LEMMA SaidIs ==
  ASSUME NEW w, NEW b \in Nat, Whole(w, b)
  PROVE  /\ \A n \in Ids(w) : Said(w, b, n) = Effect(Node(w, n), Said(w, b, Node(w, n).parent))
         /\ Said(w, b, 0) = <<>>
<1> DEFINE f == Walk(w, b)
<1>1. f = [n \in 0 .. b |-> Found(w, f, n)]
  BY WalkIs
<1> HIDE DEF f
<1>2. \A n \in 0 .. b : f[n] = Found(w, f, n)
  BY <1>1
<1>3. Ids(w) \subseteq 0 .. b /\ 0 \notin Ids(w) /\ 0 \in 0 .. b
  BY IdsAre
<1> QED BY <1>2, <1>3 DEF Said, Found, f

\* The lines carry conversations.
Telling(w) == \A i \in DOMAIN w : w[i].text \in Seq(Messages)

LEMMA EffectType ==
  ASSUME NEW node, node.text \in Seq(Messages), NEW before \in Seq(Messages)
  PROVE  Effect(node, before) \in Seq(Messages)
<1>1. before \o node.text \in Seq(Messages)
  BY ConcatProperties
<1> QED BY <1>1 DEF Effect

\* What is said at a node depends on the nodes before it only.
LEMMA SaidByItsLines ==
  ASSUME NEW w, NEW b \in Nat, Whole(w, b), NEW v, NEW c \in Nat, Whole(v, c),
         \A i \in DOMAIN w : i \in DOMAIN v /\ v[i] = w[i]
  PROVE  /\ Ids(w) \subseteq Ids(v) /\ \A n \in Ids(w) : Node(v, n) = Node(w, n)
         /\ \A n \in Ids(w) \union {0} : Said(w, b, n) = Said(v, c, n)
<1>1. \A n \in Ids(w) : n \in Ids(v) /\ Node(v, n) = Node(w, n)
  <2> TAKE n \in Ids(w)
  <2>1. PICK i \in DOMAIN w : w[i].id = n /\ Node(w, n) = w[i]
    BY ParentsBefore
  <2>2. i \in DOMAIN v /\ v[i].id = n /\ Node(v, v[i].id) = v[i] /\ v[i] = w[i]
    BY <2>1, NodeIs
  <2>3. n \in Ids(v)
    BY <2>2, IdsAre
  <2> QED BY <2>1, <2>2, <2>3
<1> DEFINE apart == {n \in Ids(w) : Said(w, b, n) # Said(v, c, n)}
<1>2. apart = {}
  <2> SUFFICES ASSUME apart # {} PROVE FALSE
    OBVIOUS
  <2>0. apart \subseteq Nat
    BY IdsAre
  <2>1. PICK n \in apart : \A other \in apart : ~(<<other, n>> \in OpToRel(<, Nat))
    <3> HIDE DEF apart
    <3> QED BY <2>0, NatLessThanWellFounded, WFMin
  <2>2. \A other \in apart : ~(other < n)
    <3> HIDE DEF apart
    <3> QED BY <2>0, <2>1 DEF OpToRel
  <2>3. PICK up : up = Node(w, n).parent /\ up \in (Ids(w) \union {0}) \intersect (0 .. (n - 1))
    BY ParentsBefore
  <2>4. Said(w, b, up) = Said(v, c, up)
    <3>1. CASE up = 0
      BY <3>1, SaidIs
    <3>2. CASE up # 0
      <4>1. up \in Ids(w) /\ up < n
        BY <2>0, <2>3, <3>2
      <4> QED BY <4>1, <2>2
    <3> QED BY <3>1, <3>2
  <2>5. Said(w, b, n) = Effect(Node(w, n), Said(w, b, up)) /\ Said(v, c, n) = Effect(Node(w, n), Said(v, c, up))
    BY <1>1, <2>3, SaidIs
  <2> QED BY <2>4, <2>5
<1> QED BY <1>1, <1>2, SaidIs

LEMMA SaidType ==
  ASSUME NEW w, NEW b \in Nat, Whole(w, b), Telling(w)
  PROVE  \A n \in Ids(w) \union {0} : Said(w, b, n) \in Seq(Messages)
<1> DEFINE odd == {n \in Ids(w) : Said(w, b, n) \notin Seq(Messages)}
<1>1. odd = {}
  <2> SUFFICES ASSUME odd # {} PROVE FALSE
    OBVIOUS
  <2>0. odd \subseteq Nat
    BY IdsAre
  <2>1. PICK n \in odd : \A other \in odd : ~(<<other, n>> \in OpToRel(<, Nat))
    <3> HIDE DEF odd
    <3> QED BY <2>0, NatLessThanWellFounded, WFMin
  <2>2. \A other \in odd : ~(other < n)
    <3> HIDE DEF odd
    <3> QED BY <2>0, <2>1 DEF OpToRel
  <2>3. PICK up : up = Node(w, n).parent /\ up \in (Ids(w) \union {0}) \intersect (0 .. (n - 1))
    BY ParentsBefore
  <2>4. Said(w, b, up) \in Seq(Messages)
    <3>1. CASE up = 0
      BY <3>1, SaidIs, EmptySeq
    <3>2. CASE up # 0
      <4>1. up \in Ids(w) /\ up < n
        BY <2>0, <2>3, <3>2
      <4> QED BY <4>1, <2>2
    <3> QED BY <3>1, <3>2
  <2>5. Node(w, n).text \in Seq(Messages)
    BY ParentsBefore DEF Telling
  <2>6. Said(w, b, n) = Effect(Node(w, n), Said(w, b, up))
    BY <2>3, SaidIs
  <2>7. Said(w, b, n) \in Seq(Messages)
    BY <2>4, <2>5, <2>6, EffectType
  <2> QED BY <2>7
<1>2. <<>> \in Seq(Messages)
  OBVIOUS
<1> QED BY <1>1, <1>2, SaidIs

\* A line that is added stands for what its text makes of what its parent stands for,
\* and changes nothing for those before it.
LEMMA SaidNew ==
  ASSUME NEW w, NEW b \in Nat, Whole(w, b),
         NEW line, line.id = b + 1, line.parent \in Ids(w) \union {0}
  PROVE  LET longer == Append(w, line) IN
         /\ Whole(longer, b + 1) /\ DOMAIN longer = DOMAIN w \union {Len(w) + 1}
         /\ longer[Len(w) + 1] = line /\ \A i \in DOMAIN w : i \in DOMAIN longer /\ longer[i] = w[i]
         /\ Ids(w) \subseteq Ids(longer) /\ b + 1 \in Ids(longer)
         /\ \A n \in Ids(w) \union {0} : Said(longer, b + 1, n) = Said(w, b, n)
         /\ Said(longer, b + 1, b + 1) = Effect(line, Said(w, b, line.parent))
<1> DEFINE longer == Append(w, line)
           S == {w[i] : i \in DOMAIN w} \union {line}
<1>1. w \in Seq(S) /\ DOMAIN w = 1 .. Len(w) /\ Len(w) \in Nat
  BY Sequence DEF Whole
<1>2. /\ longer \in Seq(S) /\ Len(longer) = Len(w) + 1 /\ longer[Len(w) + 1] = line
      /\ \A i \in 1 .. Len(w) : longer[i] = w[i]
  BY <1>1, AppendProperties
<1>3. DOMAIN longer = 1 .. Len(w) + 1
  BY <1>2, LenProperties
<1> HIDE DEF S
<1>4. Whole(longer, b + 1) /\ b + 1 \in Ids(longer)
  BY WholeAppend
<1> HIDE DEF longer
<1>5. \A i \in DOMAIN w : i \in DOMAIN longer /\ longer[i] = w[i]
  BY <1>1, <1>2, <1>3
<1>6. DOMAIN longer = DOMAIN w \union {Len(w) + 1} /\ Len(w) + 1 \in DOMAIN longer
  BY <1>1, <1>3
<1>7. b + 1 \in Nat
  OBVIOUS
<1>8. /\ Ids(w) \subseteq Ids(longer)
      /\ \A n \in Ids(w) \union {0} : Said(longer, b + 1, n) = Said(w, b, n)
  BY <1>4, <1>5, <1>7, SaidByItsLines
<1>9. Node(longer, b + 1) = line
  BY <1>2, <1>4, <1>6, <1>7, NodeIs
<1>10. Said(longer, b + 1, b + 1) = Effect(line, Said(w, b, line.parent))
  BY <1>4, <1>7, <1>8, <1>9, SaidIs
<1> QED BY <1>2, <1>4, <1>5, <1>6, <1>8, <1>10 DEF longer

----
(***************************************************************************)
(* What a saver has still to append                                        *)
(***************************************************************************)
Drafts == [kind : {"root", "message", "compression", "run"}, text : Seq(Messages)]

\* The drafts lead from one conversation to another, and a run's carries what was said
\* when it comes.
Leads(from, drafts, to) ==
  \E s \in [Nat \ {0} -> Seq(Messages)] :
    /\ s[1] = from /\ s[Len(drafts) + 1] = to
    /\ \A i \in DOMAIN drafts :
         /\ s[i + 1] = Effect(drafts[i], s[i])
         /\ drafts[i].kind = "run" => drafts[i].text = s[i]

LEMMA DraftIs ==
  ASSUME NEW kind \in {"root", "message", "compression", "run"}, NEW text \in Seq(Messages)
  PROVE  Draft(kind, text) \in Drafts /\ Draft(kind, text).kind = kind /\ Draft(kind, text).text = text
BY DEF Draft, Drafts

LEMMA LeadsNowhere ==
  ASSUME NEW from \in Seq(Messages)
  PROVE  Leads(from, <<>>, from) /\ \A to : Leads(from, <<>>, to) => to = from
<1> DEFINE s == [i \in Nat \ {0} |-> from]
<1>1. s \in [Nat \ {0} -> Seq(Messages)] /\ s[1] = from /\ s[0 + 1] = from
  OBVIOUS
<1>2. Len(<<>>) = 0 /\ DOMAIN <<>> = {} /\ 0 + 1 = 1
  OBVIOUS
<1> HIDE DEF s
<1> QED BY <1>1, <1>2 DEF Leads

LEMMA LeadsOn ==
  ASSUME NEW a \in Seq(Drafts), NEW b \in Seq(Drafts), NEW from, NEW over, NEW to,
         Leads(from, a, over), Leads(over, b, to)
  PROVE  Leads(from, a \o b, to)
<1>1. /\ a \o b \in Seq(Drafts) /\ Len(a \o b) = Len(a) + Len(b) /\ Len(a) \in Nat /\ Len(b) \in Nat
      /\ \A i \in 1 .. Len(a) + Len(b) : (a \o b)[i] = IF i <= Len(a) THEN a[i] ELSE b[i - Len(a)]
      /\ DOMAIN a = 1 .. Len(a) /\ DOMAIN b = 1 .. Len(b) /\ DOMAIN (a \o b) = 1 .. Len(a) + Len(b)
  BY ConcatProperties
<1>2. PICK s \in [Nat \ {0} -> Seq(Messages)] :
        /\ s[1] = from /\ s[Len(a) + 1] = over
        /\ \A i \in DOMAIN a : s[i + 1] = Effect(a[i], s[i]) /\ (a[i].kind = "run" => a[i].text = s[i])
  BY DEF Leads
<1>3. PICK t \in [Nat \ {0} -> Seq(Messages)] :
        /\ t[1] = over /\ t[Len(b) + 1] = to
        /\ \A i \in DOMAIN b : t[i + 1] = Effect(b[i], t[i]) /\ (b[i].kind = "run" => b[i].text = t[i])
  BY DEF Leads
<1>4. PICK m \in Nat : m = Len(a)
  BY <1>1
<1>5. PICK n \in Nat : n = Len(b)
  BY <1>1
<1> DEFINE u == [i \in Nat \ {0} |-> IF i <= m THEN s[i] ELSE t[i - m]]
<1>6. u \in [Nat \ {0} -> Seq(Messages)]
  OBVIOUS
<1>7. \A i \in 1 .. m : u[i] = s[i]
  OBVIOUS
<1>8. \A i \in Nat \ {0} : u[m + i] = t[i]
  OBVIOUS
<1> HIDE DEF u
<1>9. u[m + 1] = over
  <2>1. 1 \in Nat \ {0}
    OBVIOUS
  <2>2. u[m + 1] = t[1]
    BY <1>8, <2>1
  <2> QED BY <1>3, <2>2
<1>10. u[1] = from
  <2>1. CASE m = 0
    BY <1>2, <1>4, <1>9, <2>1
  <2>2. CASE m # 0
    BY <1>2, <1>7, <2>2
  <2> QED BY <2>1, <2>2
<1>11. u[m + n + 1] = to
  <2>1. n + 1 \in Nat \ {0} /\ m + (n + 1) = m + n + 1
    OBVIOUS
  <2>2. u[m + (n + 1)] = t[n + 1]
    BY <1>8, <2>1
  <2> QED BY <1>3, <1>5, <2>1, <2>2
<1>12. ASSUME NEW i \in 1 .. m + n
       PROVE  /\ u[i + 1] = Effect((a \o b)[i], u[i])
              /\ (a \o b)[i].kind = "run" => (a \o b)[i].text = u[i]
  <2>1. CASE i <= m
    <3>1. (a \o b)[i] = a[i] /\ i \in DOMAIN a /\ u[i] = s[i]
      BY <1>1, <1>4, <1>5, <1>7, <2>1
    <3>2. u[i + 1] = s[i + 1]
      <4>1. CASE i = m
        BY <1>2, <1>4, <1>9, <4>1
      <4>2. CASE i # m
        <5>1. i + 1 \in 1 .. m
          BY <2>1, <4>2
        <5> QED BY <1>7, <5>1
      <4> QED BY <4>1, <4>2
    <3> QED BY <1>2, <3>1, <3>2
  <2>2. CASE ~(i <= m)
    <3>1. PICK k \in 1 .. n : k = i - m
      BY <2>2
    <3>2. i = m + k /\ i + 1 = m + (k + 1) /\ k \in Nat \ {0} /\ k + 1 \in Nat \ {0}
      BY <3>1
    <3>3. u[i] = t[k] /\ u[i + 1] = t[k + 1]
      BY <1>8, <3>2
    <3>4. (a \o b)[i] = b[k] /\ k \in DOMAIN b
      BY <1>1, <1>4, <1>5, <2>2, <3>1
    <3> QED BY <1>3, <3>3, <3>4
  <2> QED BY <2>1, <2>2
<1>13. Len(a \o b) + 1 = m + n + 1 /\ DOMAIN (a \o b) = 1 .. m + n
  BY <1>1, <1>4, <1>5
<1> QED BY <1>6, <1>10, <1>11, <1>12, <1>13, ZenonT(30) DEF Leads

LEMMA LeadsByOne ==
  ASSUME NEW d \in Drafts, NEW from \in Seq(Messages), d.kind = "run" => d.text = from
  PROVE  <<d>> \in Seq(Drafts) /\ Leads(from, <<d>>, Effect(d, from))
<1> DEFINE to == Effect(d, from)
           s == [i \in Nat \ {0} |-> IF i = 1 THEN from ELSE to]
<1>1. to \in Seq(Messages)
  BY EffectType DEF Drafts
<1> HIDE DEF to
<1>2. s \in [Nat \ {0} -> Seq(Messages)] /\ s[1] = from /\ s[2] = to
  BY <1>1
<1>3. <<d>> \in Seq(Drafts) /\ Len(<<d>>) = 1 /\ DOMAIN <<d>> = {1} /\ <<d>>[1] = d
  OBVIOUS
<1> HIDE DEF s
<1>4. 1 + 1 = 2
  OBVIOUS
<1> QED BY <1>2, <1>3, <1>4 DEF Leads, to

\* The first of them appended, the others lead on from what it leads to.
LEMMA LeadsRest ==
  ASSUME NEW drafts \in Seq(Drafts), drafts # <<>>, NEW from, NEW to, Leads(from, drafts, to)
  PROVE  /\ Head(drafts) \in Drafts /\ Tail(drafts) \in Seq(Drafts)
         /\ Head(drafts).kind = "run" => Head(drafts).text = from
         /\ Leads(Effect(Head(drafts), from), Tail(drafts), to)
<1>1. /\ Len(drafts) \in Nat \ {0} /\ Head(drafts) = drafts[1] /\ DOMAIN drafts = 1 .. Len(drafts)
      /\ Tail(drafts) \in Seq(Drafts) /\ Len(Tail(drafts)) = Len(drafts) - 1
      /\ \A i \in 1 .. Len(drafts) - 1 : Tail(drafts)[i] = drafts[i + 1]
  BY HeadTailProperties
<1>2. PICK s \in [Nat \ {0} -> Seq(Messages)] :
        /\ s[1] = from /\ s[Len(drafts) + 1] = to
        /\ \A i \in DOMAIN drafts : s[i + 1] = Effect(drafts[i], s[i]) /\ (drafts[i].kind = "run" => drafts[i].text = s[i])
  BY DEF Leads
<1>3. PICK n \in Nat : n = Len(drafts) - 1
  <2>1. Len(drafts) \in Nat \ {0}
    BY <1>1
  <2>2. Len(drafts) - 1 \in Nat
    BY <2>1
  <2> QED BY <2>2
<1>4. 1 \in DOMAIN drafts /\ drafts[1] \in Drafts
  BY <1>1
<1> DEFINE t == [i \in Nat \ {0} |-> s[i + 1]]
<1>5. t \in [Nat \ {0} -> Seq(Messages)] /\ \A i \in Nat \ {0} : t[i] = s[i + 1]
  OBVIOUS
<1> HIDE DEF t
<1>6. t[1] = Effect(drafts[1], from)
  <2>1. t[1] = s[1 + 1]
    BY <1>5
  <2> QED BY <1>2, <1>4, <2>1
<1>7. t[n + 1] = to
  <2>0. n + 1 \in Nat \ {0} /\ n + 1 = Len(drafts)
    BY <1>1, <1>3
  <2>1. t[n + 1] = s[(n + 1) + 1] /\ (n + 1) + 1 = Len(drafts) + 1
    BY <1>5, <2>0
  <2> QED BY <1>2, <2>1
<1>8. ASSUME NEW i \in 1 .. n
      PROVE  /\ t[i + 1] = Effect(Tail(drafts)[i], t[i])
             /\ Tail(drafts)[i].kind = "run" => Tail(drafts)[i].text = t[i]
  <2>0. i \in Nat \ {0} /\ i + 1 \in Nat \ {0} /\ i \in 1 .. Len(drafts) - 1
    BY <1>3
  <2>1. i + 1 \in DOMAIN drafts /\ Tail(drafts)[i] = drafts[i + 1]
    <3>1. i + 1 \in 1 .. Len(drafts)
      <4>1. Len(drafts) \in Nat
        BY <1>1
      <4> QED BY <2>0, <4>1
    <3> QED BY <1>1, <2>0, <3>1
  <2>2. t[i] = s[i + 1] /\ t[i + 1] = s[(i + 1) + 1]
    BY <1>5, <2>0
  <2> QED BY <1>2, <2>1, <2>2
<1>9. Len(Tail(drafts)) + 1 = n + 1 /\ DOMAIN Tail(drafts) = 1 .. n
  BY <1>1, <1>3
<1>10. Leads(Effect(drafts[1], from), Tail(drafts), to)
  BY <1>5, <1>6, <1>7, <1>8, <1>9 DEF Leads
<1> QED BY <1>1, <1>2, <1>4, <1>10

\* What save_session appends leads from the stored conversation to the new one.
LEMMA DeltaLeads ==
  ASSUME NEW new \in Seq(Messages), NEW stored \in Seq(Messages)
  PROVE  Delta(new, stored) \in Seq(Drafts) /\ Leads(stored, Delta(new, stored), new)
<1>1. CASE ~Extends(new, stored)
  <2>1. Delta(new, stored) = <<Draft("compression", new)>>
    BY <1>1 DEF Delta
  <2>2. PICK d \in Drafts : d = Draft("compression", new) /\ d.kind = "compression" /\ d.text = new
    BY DraftIs
  <2>3. Effect(d, stored) = new
    BY <2>2 DEF Effect
  <2> QED BY <2>1, <2>2, <2>3, LeadsByOne
<1>2. CASE Extends(new, stored)
  <2>1. PICK m \in 0 .. Len(new) : stored = SubSeq(new, 1, m)
    BY <1>2 DEF Extends, PrefixesOf
  <2>2. Len(new) \in Nat /\ m \in Nat /\ \A i \in 1 .. Len(new) : new[i] \in Messages
    OBVIOUS
  <2>3. Len(stored) = m
    BY <2>1, <2>2, SubSeqProperties
  <2>4. PICK n \in Nat : n = Len(new) - m
    BY <2>2
  <2> DEFINE d == [i \in 1 .. n |-> Draft("message", <<new[m + i]>>)]
             s == [i \in Nat \ {0} |-> IF i <= n + 1 THEN SubSeq(new, 1, m + i - 1) ELSE <<>>]
  <2>5. Delta(new, stored) = d
    BY <1>2, <2>3, <2>4 DEF Delta
  <2>6. \A i \in 1 .. n : new[m + i] \in Messages /\ <<new[m + i]>> \in Seq(Messages)
    <3>1. \A i \in 1 .. n : m + i \in 1 .. Len(new)
      BY <2>2, <2>4
    <3>2. \A i \in 1 .. n : new[m + i] \in Messages
      BY <2>2, <3>1
    <3>3. \A x \in Messages : <<x>> \in Seq(Messages)
      OBVIOUS
    <3> QED BY <3>2, <3>3
  <2>7. \A i \in 1 .. n : d[i] \in Drafts /\ d[i].kind = "message" /\ d[i].text = <<new[m + i]>>
    BY <2>6, DraftIs
  <2>8. d \in Seq(Drafts) /\ Len(d) = n /\ DOMAIN d = 1 .. n
    <3>1. d \in [1 .. n -> Drafts]
      BY <2>7
    <3> HIDE DEF d
    <3> QED BY <3>1, SeqDef
  <2> HIDE DEF d
  <2>9. ASSUME NEW i \in 1 .. n + 1
        PROVE  /\ SubSeq(new, 1, m + i - 1) \in Seq(Messages)
               /\ i <= n => SubSeq(new, 1, m + i) = SubSeq(new, 1, m + i - 1) \o <<new[m + i]>>
    <3>1. m + i - 1 \in 0 .. Len(new) /\ m + i - 1 \in Nat
      BY <2>2, <2>4
    <3>2. /\ SubSeq(new, 1, m + i - 1) \in Seq(Messages) /\ Len(SubSeq(new, 1, m + i - 1)) = m + i - 1
          /\ \A k \in 1 .. m + i - 1 : SubSeq(new, 1, m + i - 1)[k] = new[k]
      <4>1. PICK k \in 0 .. Len(new) : k = m + i - 1
        BY <3>1
      <4>2. SubSeq(new, 1, k) \in Seq(Messages) /\ Len(SubSeq(new, 1, k)) = k
            /\ \A j \in 1 .. k : SubSeq(new, 1, k)[j] = new[j]
        BY <2>2
      <4> QED BY <4>1, <4>2
    <3>3. ASSUME i <= n PROVE SubSeq(new, 1, m + i) = SubSeq(new, 1, m + i - 1) \o <<new[m + i]>>
      <4>1. PICK k \in Nat : k = m + i - 1 /\ k + 1 = m + i /\ k + 1 \in 1 .. Len(new)
        BY <2>2, <2>4, <3>1, <3>3
      <4>2. k + 1 \in 1 .. Len(new) /\ 1 \in 1 .. Len(new) /\ (k + 1) - 1 = k
        BY <2>2, <4>1
      <4>3. SubSeq(new, 1, k + 1) = SubSeq(new, 1, (k + 1) - 1) \o <<new[k + 1]>>
        BY <4>2, SubSeqRecursiveSecond
      <4> QED BY <4>1, <4>2, <4>3
    <3> QED BY <3>2, <3>3
  <2>10. s \in [Nat \ {0} -> Seq(Messages)]
    <3>1. \A i \in Nat \ {0} : s[i] \in Seq(Messages)
      <4> TAKE i \in Nat \ {0}
      <4>1. CASE i <= n + 1
        <5>1. i \in 1 .. n + 1
          BY <4>1
        <5> QED BY <2>9, <4>1, <5>1
      <4>2. CASE ~(i <= n + 1)
        BY <4>2
      <4> QED BY <4>1, <4>2
    <3> QED BY <3>1
  <2>11. \A i \in 1 .. n + 1 : s[i] = SubSeq(new, 1, m + i - 1)
    OBVIOUS
  <2> HIDE DEF s
  <2>12. s[1] = stored
    BY <2>1, <2>11
  <2>13. s[n + 1] = new
    <3>1. s[n + 1] = SubSeq(new, 1, m + (n + 1) - 1) /\ m + (n + 1) - 1 = Len(new)
      BY <2>2, <2>4, <2>11
    <3>2. SubSeq(new, 1, Len(new)) = new
      BY SubSeqFull
    <3> QED BY <3>1, <3>2
  <2>14. ASSUME NEW i \in 1 .. n
         PROVE  s[i + 1] = Effect(d[i], s[i]) /\ d[i].kind # "run"
    <3>1. s[i + 1] = SubSeq(new, 1, m + i)
      <4>1. i + 1 \in 1 .. n + 1 /\ m + (i + 1) - 1 = m + i
        BY <2>2
      <4> QED BY <2>11, <4>1
    <3>2. s[i] = SubSeq(new, 1, m + i - 1)
      BY <2>11
    <3>3. s[i + 1] = s[i] \o <<new[m + i]>>
      BY <2>9, <3>1, <3>2
    <3> QED BY <2>7, <3>3 DEF Effect
  <2>15. Leads(stored, d, new)
    BY <2>8, <2>10, <2>12, <2>13, <2>14 DEF Leads
  <2> QED BY <2>5, <2>8, <2>15
<1> QED BY <1>1, <1>2

----
(***************************************************************************)
(* What is said                                                            *)
(***************************************************************************)
\* A run's line stands for what it carries.
Exact(w, b) == \A i \in DOMAIN w : w[i].kind = "run" => Said(w, b, w[i].id) = w[i].text

StoredOK == Telling(RewrittenLog) /\ Exact(RewrittenLog, born)

\* What a saver has still to append leads from where it is to the conversation it saves,
\* unless its lines got lost.
PlanOK(p) ==
  /\ pc[p] \in {"append", "head"} /\ Valid(log) = log => Leads(Said(log, born, mine[p]), todo[p], talk[p])
  /\ pc[p] = "append" => todo[p] # <<>>
  /\ pc[p] \notin {"append", "head"} => todo[p] = <<>>

\* What is promised is said at the head, which is not a line that can still be spoilt.
PromiseOK ==
  promise # NoPromise =>
    /\ head \in Ids(RewrittenLog) \union {0}
    /\ Said(RewrittenLog, born, head) = promise
    /\ ended \/ head # log[Len(log)].id

TalkTypes == talk \in [Savers -> Seq(Messages)] /\ todo \in [Savers -> Seq(Drafts)]

TalkInv == TalkTypes /\ StoredOK /\ (\A p \in Savers : PlanOK(p)) /\ PromiseOK

LEMMA TalkInitially == LogInit => TalkInv
<1> SUFFICES ASSUME LogInit PROVE TalkInv
  OBVIOUS
<1>1. LogInv /\ \A p \in Savers : pc[p] = "idle"
  BY LogInitially DEF LogInit
<1>2. Valid(log) = log /\ Telling(log) /\ \A i \in DOMAIN log : log[i].kind # "run"
  <2>1. CASE log = <<>>
    <3>1. DOMAIN <<>> = {} /\ Valid(<<>>) = <<>>
      BY <2>1, WholeEmpty, ValidIs
    <3> QED BY <2>1, <3>1 DEF Telling
  <2>2. CASE log # <<>>
    <3> DEFINE line == [id |-> 1, parent |-> 0, kind |-> "root", text |-> <<>>]
    <3>1. log = <<line>> /\ born = 1
      BY <2>2 DEF LogInit
    <3>2. line.id = 1 /\ line.parent = 0 /\ line.kind = "root" /\ line.text \in Seq(Messages)
      OBVIOUS
    <3> HIDE DEF line
    <3>3. Whole(<<line>>, 1) /\ DOMAIN <<line>> = {1} /\ <<line>>[1] = line /\ 1 \in Nat
      BY <3>2, WholeRoot
    <3>4. Valid(<<line>>) = <<line>>
      BY <3>3, ValidIs
    <3> QED BY <3>1, <3>2, <3>3, <3>4 DEF Telling
  <2> QED BY <2>1, <2>2
<1>3. promise = NoPromise /\ \A p \in Savers : todo[p] = <<>>
  BY DEF LogInit
<1>4. TalkTypes
  BY DEF LogInit, TalkTypes
<1>5. RewrittenLog = log
  BY <1>1, <1>2, StandsFor
<1> QED BY <1>1, <1>2, <1>3, <1>4, <1>5 DEF TalkInv, StoredOK, Exact, PlanOK, PromiseOK

\* What is cut short is as exact as before, and says the same.
LEMMA CutIsExact ==
  ASSUME NEW w, NEW b \in Nat, Whole(w, b), Telling(w), Exact(w, b), NEW cut \in PrefixesOf(w),
         NEW c \in {b, b + 1}
  PROVE  /\ Telling(cut) /\ Exact(cut, c)
         /\ \A n \in Ids(cut) \union {0} : Said(cut, c, n) = Said(w, b, n)
<1>1. Whole(cut, c) /\ c \in Nat
  BY WholePrefix, WholeMore
<1>2. \A i \in DOMAIN cut : i \in DOMAIN w /\ w[i] = cut[i]
  <2>1. PICK m \in 0 .. Len(w) : cut = SubSeq(w, 1, m)
    BY DEF PrefixesOf
  <2>2. w \in Seq({w[i] : i \in DOMAIN w}) /\ Len(w) \in Nat /\ DOMAIN w = 1 .. Len(w)
    BY Sequence DEF Whole
  <2>3. DOMAIN cut = 1 .. m /\ \A i \in 1 .. m : cut[i] = w[i]
    BY <2>1, <2>2
  <2> QED BY <2>2, <2>3
<1>3. \A n \in Ids(cut) \union {0} : Said(cut, c, n) = Said(w, b, n)
  BY <1>1, <1>2, SaidByItsLines
<1>4. \A i \in DOMAIN cut : cut[i].id \in Ids(cut)
  BY <1>1, IdsAre
<1> QED BY <1>2, <1>3, <1>4 DEF Telling, Exact

LEMMA AllIsPrefix ==
  ASSUME NEW w, NEW n, Whole(w, n)
  PROVE  w \in PrefixesOf(w)
<1>1. w \in Seq({w[i] : i \in DOMAIN w}) /\ Len(w) \in Nat
  BY Sequence DEF Whole
<1>2. SubSeq(w, 1, Len(w)) = w
  BY <1>1
<1>3. Len(w) \in 0 .. Len(w)
  BY <1>1
<1> QED BY <1>2, <1>3 DEF PrefixesOf

\* The line that a saver appends to a whole log is what it carries, and leads on.
LEMMA LineSaid ==
  ASSUME LogInv, TalkInv, NEW p \in active, pc[p] = "append", Valid(log) = log, RewrittenLog = log,
         NEW longer, longer = Append(log, NewLine(p))
  PROVE  /\ Telling(longer) /\ Exact(longer, born + 1) /\ Ids(log) \subseteq Ids(longer)
         /\ \A n \in Ids(log) \union {0} : Said(longer, born + 1, n) = Said(log, born, n)
         /\ Leads(Said(longer, born + 1, born + 1), Tail(todo[p]), talk[p])
         /\ longer[Len(longer)].id = born + 1
<1>1. /\ p \in Savers /\ Whole(log, born) /\ born \in Nat
      /\ NewLine(p).id = born + 1 /\ NewLine(p).parent \in Ids(log) \union {0}
  BY AppendIs
<1>2. PICK line : line = NewLine(p)
  OBVIOUS
<1>3. line.parent = mine[p] /\ line.kind = Head(todo[p]).kind /\ line.text = Head(todo[p]).text /\ line.id = born + 1
  BY <1>2 DEF NewLine, ParentOf
<1>4. PICK drafts \in Seq(Drafts) : drafts = todo[p] /\ drafts # <<>> /\ Leads(Said(log, born, mine[p]), drafts, talk[p])
  BY <1>1 DEF TalkInv, TalkTypes, PlanOK
<1>5. PICK before : before = Said(log, born, mine[p])
  OBVIOUS
<1>6. /\ Head(drafts) \in Drafts /\ Tail(drafts) \in Seq(Drafts)
      /\ Head(drafts).kind = "run" => Head(drafts).text = before
      /\ Leads(Effect(Head(drafts), before), Tail(drafts), talk[p])
  BY <1>4, <1>5, LeadsRest
<1>7. Effect(Head(drafts), before) = Effect(line, before)
  BY <1>3, <1>4 DEF Effect
<1>8. /\ Whole(longer, born + 1) /\ Ids(log) \subseteq Ids(longer)
      /\ DOMAIN longer = DOMAIN log \union {Len(log) + 1} /\ longer[Len(log) + 1] = line
      /\ \A i \in DOMAIN log : longer[i] = log[i]
      /\ \A n \in Ids(log) \union {0} : Said(longer, born + 1, n) = Said(log, born, n)
      /\ Said(longer, born + 1, born + 1) = Effect(line, before)
  BY <1>1, <1>2, <1>3, <1>5, SaidNew
<1>9. longer[Len(longer)].id = born + 1
  <2>1. Len(log) \in Nat /\ DOMAIN log = 1 .. Len(log) /\ log \in Seq({log[i] : i \in DOMAIN log} \union {line})
    BY <1>1, Sequence DEF Whole
  <2>2. Len(longer) = Len(log) + 1
    BY <1>2, <2>1, AppendProperties
  <2> QED BY <1>3, <1>8, <2>2
<1>10. Telling(log) /\ Exact(log, born)
  BY DEF TalkInv, StoredOK
<1>11. Telling(longer)
  BY <1>3, <1>4, <1>6, <1>8, <1>10 DEF Telling, Drafts
<1>12. Exact(longer, born + 1)
  <2> SUFFICES ASSUME NEW i \in DOMAIN longer, longer[i].kind = "run"
               PROVE  Said(longer, born + 1, longer[i].id) = longer[i].text
    BY DEF Exact
  <2>1. CASE i \in DOMAIN log
    <3>1. log[i].id \in Ids(log) /\ longer[i] = log[i]
      BY <1>1, <1>8, <2>1, IdsAre
    <3> QED BY <1>8, <1>10, <2>1, <3>1 DEF Exact
  <2>2. CASE i = Len(log) + 1
    <3>1. longer[i] = line /\ line.kind = "run" /\ line.text = before
      BY <1>3, <1>4, <1>6, <1>8, <2>2
    <3>2. Effect(line, before) = before
      BY <3>1 DEF Effect
    <3> QED BY <1>3, <1>8, <3>1, <3>2
  <2> QED BY <1>8, <2>1, <2>2
<1>13. Leads(Said(longer, born + 1, born + 1), Tail(todo[p]), talk[p])
  BY <1>4, <1>6, <1>7, <1>8
<1> QED BY <1>8, <1>9, <1>11, <1>12, <1>13

\* However the log changes, what can be read of it stays exact, and what is promised
\* is still said.
LEMMA StoredStays ==
  ASSUME LogInv, LogInv', TalkInv, NEW p \in active, p \in Savers,
         Stays \/ Gains(p) \/ Spoils \/ Drops,
         promise' = NoPromise \/ (promise' = promise /\ head' = head)
  PROVE  StoredOK' /\ PromiseOK'
<1>1. Whole(RewrittenLog, born) /\ born \in Nat /\ Telling(RewrittenLog) /\ Exact(RewrittenLog, born)
  BY StandsFor DEF TalkInv, StoredOK
<1>2. born' \in {born, born + 1}
  BY DEF Stays, Gains, Spoils, Drops
<1>3. ASSUME RewrittenLog' \in PrefixesOf(RewrittenLog) PROVE StoredOK'
  <2>1. PICK cut \in PrefixesOf(RewrittenLog) : cut = RewrittenLog'
    BY <1>3
  <2>2. PICK c \in {born, born + 1} : c = born'
    BY <1>2
  <2>3. Telling(cut) /\ Exact(cut, c)
    BY <1>1, CutIsExact
  <2> QED BY <2>1, <2>2, <2>3 DEF StoredOK
<1>4. CASE Stays
  <2>1. RewrittenLog' \in PrefixesOf(RewrittenLog)
    BY <1>1, <1>4, AllIsPrefix DEF Stays
  <2>2. \A n \in Ids(RewrittenLog) \union {0} : Said(RewrittenLog', born', n) = Said(RewrittenLog, born, n)
    BY <1>1, <1>2, <1>4, <2>1, CutIsExact DEF Stays
  <2>3. PromiseOK'
    BY <1>4, <2>2 DEF Stays, TalkInv, PromiseOK
  <2> QED BY <1>3, <2>1, <2>3
<1>5. CASE Gains(p)
  <2>1. PICK longer : longer = Append(log, NewLine(p))
    OBVIOUS
  <2>2. /\ RewrittenLog' = longer /\ log' = longer /\ born' = born + 1 /\ head' = head
        /\ RewrittenLog = log /\ Valid(log) = log /\ pc[p] = "append"
    BY <1>5, <2>1 DEF Gains
  <2>3. /\ Telling(longer) /\ Exact(longer, born + 1) /\ Ids(log) \subseteq Ids(longer)
        /\ \A n \in Ids(log) \union {0} : Said(longer, born + 1, n) = Said(log, born, n)
        /\ longer[Len(longer)].id = born + 1
    BY <2>1, <2>2, LineSaid
  <2>4. \A n \in Ids(log) \union {0} : n # born + 1
    BY <1>1, <2>2, IdsAre
  <2>5. PromiseOK'
    BY <2>2, <2>3, <2>4 DEF TalkInv, PromiseOK
  <2> QED BY <2>2, <2>3, <2>5 DEF StoredOK
<1>6. CASE Spoils
  <2>1. /\ RewrittenLog' = Front(log) /\ RewrittenLog = log /\ ended' /\ ~ended /\ head' = head
    BY <1>6 DEF Spoils
  <2>2. Front(log) \in PrefixesOf(log) /\ Ids(log) = Ids(Front(log)) \union {log[Len(log)].id}
    BY <1>1, <1>6, FrontIs DEF Spoils
  <2>3. \A n \in Ids(Front(log)) \union {0} : Said(Front(log), born', n) = Said(log, born, n)
    BY <1>1, <1>2, <2>1, <2>2, CutIsExact
  <2>4. PromiseOK'
    BY <2>1, <2>2, <2>3 DEF TalkInv, PromiseOK
  <2> QED BY <1>3, <2>1, <2>2, <2>4
<1>7. CASE Drops
  <2>1. CASE promise' = NoPromise
    BY <1>3, <1>7, <2>1 DEF Drops, PromiseOK
  <2>2. CASE RewrittenLog' = RewrittenLog /\ ended' /\ born' = born
    BY <1>4, <2>2 DEF Stays
  <2> QED BY <1>7, <2>1, <2>2 DEF Drops
<1> QED BY <1>4, <1>5, <1>6, <1>7

\* What a saver appends is what it carries, and disturbs no one.
LEMMA AppendSaid ==
  ASSUME LogInv, LogInv', TalkInv, NEW p \in active, AppendLine(p)
  PROVE  TalkInv'
<1>1. /\ p \in Savers /\ pc[p] = "append" /\ head' = head /\ promise' = promise
      /\ mine' = [mine EXCEPT ![p] = born + 1] /\ pc' = [pc EXCEPT ![p] = "head"]
      /\ todo' = [todo EXCEPT ![p] = Tail(@)] /\ talk' = talk /\ born' = born + 1
      /\ log' = With(NewLine(p))
  BY DEF AppendLine, LogInv, LogTypes
<1>2. StoredOK' /\ PromiseOK'
  BY <1>1, Moves, StoredStays
<1>3. todo[p] \in Seq(Drafts) /\ todo[p] # <<>>
  BY <1>1 DEF TalkInv, TalkTypes, PlanOK
<1>4. Tail(todo[p]) \in Seq(Drafts)
  BY <1>3, HeadTailProperties
<1>5. TalkTypes'
  BY <1>1, <1>4 DEF TalkInv, TalkTypes
<1>6. /\ mine'[p] = born + 1 /\ pc'[p] = "head" /\ todo'[p] = Tail(todo[p]) /\ talk'[p] = talk[p]
      /\ \A q \in Savers \ {p} :
           mine'[q] = mine[q] /\ pc'[q] = pc[q] /\ todo'[q] = todo[q] /\ talk'[q] = talk[q]
  BY <1>1 DEF LogInv, LogTypes, TalkInv, TalkTypes
<1>7. CASE Valid(log) = log /\ ended
  <2>1. PICK longer : longer = Append(log, NewLine(p))
    OBVIOUS
  <2>2. log' = longer
    BY <1>1, <1>7, <2>1, WithIs
  <2>3. RewrittenLog = log
    BY <1>1, <1>7, NobodyMends, StandsFor
  <2>4. /\ \A n \in Ids(log) \union {0} : Said(longer, born + 1, n) = Said(log, born, n)
        /\ Leads(Said(longer, born + 1, born + 1), Tail(todo[p]), talk[p])
    BY <1>1, <1>7, <2>1, <2>3, LineSaid
  <2>5. PlanOK(p)'
    BY <1>1, <1>6, <2>2, <2>4 DEF PlanOK
  <2>6. ASSUME NEW q \in Savers \ {p} PROVE PlanOK(q)'
    <3>1. pc[q] \in {"append", "head"} => mine[q] \in Ids(log) \union {0}
      BY <1>7 DEF LogInv, SaverOK
    <3>2. pc[q] \in {"append", "head"} => Said(log', born', mine[q]) = Said(log, born, mine[q])
      BY <1>1, <2>2, <2>4, <3>1
    <3> QED BY <1>6, <1>7, <3>2 DEF PlanOK, TalkInv
  <2> QED BY <1>2, <1>5, <2>5, <2>6 DEF TalkInv
<1>8. CASE Valid(log) # log \/ ~ended
  <2>1. active = {p}
    BY <1>8 DEF LogInv, Damaged
  <2>2. Valid(log') # log'
    <3>1. PICK w : Whole(w, born) /\ log' = Append(w, Torn)
      <4>1. Whole(Valid(log), born) /\ born \in Nat
        BY DEF LogInv, LogTypes
      <4> QED BY <1>1, <1>8, <4>1, WithIs, WholePrefix
    <3> QED BY <3>1, ValidIs DEF LogInv, LogTypes
  <2>3. PlanOK(p)'
    BY <1>6, <2>2 DEF PlanOK
  <2>4. ASSUME NEW q \in Savers \ {p} PROVE PlanOK(q)'
    <3>1. pc[q] = "idle"
      BY <2>1 DEF LogInv, SaverOK
    <3> QED BY <1>6, <3>1 DEF PlanOK, TalkInv
  <2> QED BY <1>2, <1>5, <2>3, <2>4 DEF TalkInv
<1> QED BY <1>7, <1>8

\* A torn line hides none of those before it.
LEMMA TornHides ==
  ASSUME NEW w, NEW b \in Nat, Whole(w, b), NEW lines \in {w, Append(w, Torn)}, NEW id \in Ids(w)
  PROVE  Node(lines, id) = Node(w, id)
<1>1. CASE lines = w
  BY <1>1
<1>2. CASE lines = Append(w, Torn)
  <2>1. PICK i \in DOMAIN w : w[i].id = id /\ Node(w, id) = w[i] /\ \A j \in DOMAIN w : w[j].id = id => w[j] = w[i]
    BY IdsAre, NodeIs
  <2>2. DOMAIN w = 1 .. Len(w) /\ Len(w) \in Nat /\ w \in Seq({w[j] : j \in DOMAIN w} \union {Torn})
    BY Sequence DEF Whole
  <2>3. /\ DOMAIN lines = DOMAIN w \union {Len(w) + 1} /\ lines[Len(w) + 1] = Torn
        /\ \A j \in DOMAIN w : lines[j] = w[j]
    BY <1>2, <2>2, AppendProperties
  <2>4. id # 0 /\ Torn.id = 0
    BY DEF Ids, Torn
  <2>5. \A j \in DOMAIN lines : lines[j].id = id => lines[j] = w[i]
    BY <2>1, <2>3, <2>4
  <2> QED BY <2>1, <2>3, <2>5 DEF Node
<1> QED BY <1>1, <1>2

\* A saver that is alone when it mends the log, or dies, breaks no promise.
LEMMA AloneSaid ==
  ASSUME LogInv, LogInv', TalkInv, NEW p \in active, Truncate(p) \/ Rewrite(p) \/ Die(p)
  PROVE  TalkInv'
<1>1. active = {p} /\ p \in Savers
  BY DEF Truncate, Rewrite, Die, LogInv, LogTypes, Damaged
<1>2. /\ \E place \in {"idle", "rewrite"} : pc' = [pc EXCEPT ![p] = place]
      /\ (talk' = talk \/ talk' = [talk EXCEPT ![p] = <<>>])
      /\ (todo' = todo \/ todo' = [todo EXCEPT ![p] = <<>>])
  BY DEF Truncate, Rewrite, Die
<1>3. \A q \in Savers : pc'[q] \in {"idle", "rewrite"}
  BY <1>1, <1>2 DEF LogInv, LogTypes, SaverOK
<1>4. ASSUME NEW q \in Savers PROVE PlanOK(q)'
  <2>1. todo'[q] = <<>>
    <3>1. CASE q # p
      BY <1>1, <1>2, <3>1 DEF TalkInv, TalkTypes, PlanOK, LogInv, SaverOK
    <3>2. CASE q = p /\ Die(p)
      BY <3>2 DEF Die, TalkInv, TalkTypes
    <3>3. CASE q = p /\ (Truncate(p) \/ Rewrite(p))
      BY <3>3 DEF Truncate, Rewrite, TalkInv, PlanOK
    <3> QED BY <3>1, <3>2, <3>3
  <2> QED BY <1>3, <2>1 DEF PlanOK
<1>5. promise' = NoPromise \/ (promise' = promise /\ head' = head)
  BY DEF Truncate, Rewrite, Die
<1>6. TalkTypes'
  <2>1. <<>> \in Seq(Messages) /\ <<>> \in Seq(Drafts)
    OBVIOUS
  <2> QED BY <1>1, <1>2, <2>1 DEF TalkInv, TalkTypes
<1>7. StoredOK' /\ PromiseOK'
  BY <1>1, <1>5, Moves, StoredStays
<1> QED BY <1>4, <1>6, <1>7 DEF TalkInv

\* A saver at work on a log that it leaves alone.
LEMMA OtherwiseSaid ==
  ASSUME LogInv, LogInv', TalkInv, NEW p \in active, p \in Savers,
         Save(p) \/ Resume(p) \/ Retry(p) \/ Branch(p) \/ SaveHead(p) \/ MoveHead(p),
         TalkTypes', PlanOK(p)', PromiseOK' \/ (promise' = promise /\ head' = head), pc'[p] # "rewrite",
         \A q \in Savers \ {p} : pc'[q] = pc[q] /\ mine'[q] = mine[q] /\ todo'[q] = todo[q] /\ talk'[q] = talk[q]
  PROVE  TalkInv'
<1>1. log' = log /\ born' = born
  BY DEF Save, Resume, Retry, Load, Branch, SaveHead, MoveHead, WriteHead, diskVars
<1>2. RewrittenLog' = RewrittenLog
  <2>1. pc[p] # "rewrite"
    BY DEF Save, Resume, Retry, Load, Branch, SaveHead, MoveHead, Opens
  <2>2. \A q \in Savers : pc[q] # "rewrite" /\ pc'[q] # "rewrite"
    BY <2>1, NobodyMends
  <2> QED BY <1>1, <2>2, StandsFor, StandsForNext
<1>3. \A q \in Savers : PlanOK(q)'
  BY <1>1 DEF PlanOK, TalkInv
<1>4. PromiseOK'
  <2>1. ended' = ended
    BY DEF Save, Resume, Retry, Load, Branch, SaveHead, MoveHead, WriteHead, diskVars
  <2>2. CASE promise' = promise /\ head' = head
    BY <1>1, <1>2, <2>1, <2>2 DEF TalkInv, PromiseOK
  <2> QED BY <2>2
<1> QED BY <1>1, <1>2, <1>3, <1>4 DEF TalkInv, StoredOK

\* On a whole log that nobody mends, what is said at a node is a conversation.
LEMMA SaidThere ==
  ASSUME LogInv, TalkInv, NEW p \in active, pc[p] # "rewrite", Valid(log) = log
  PROVE  /\ Whole(log, born) /\ born \in Nat /\ Telling(log) /\ Exact(log, born)
         /\ \A n \in Ids(log) \union {0} : Said(log, born, n) \in Seq(Messages)
         /\ LoadedHead(log, head) \in Ids(log) \union {0}
<1>1. RewrittenLog = log
  BY NobodyMends, StandsFor
<1>2. Whole(log, born) /\ born \in Nat /\ Telling(log) /\ Exact(log, born)
  BY <1>1, StandsFor DEF TalkInv, StoredOK
<1> QED BY <1>2, SaidType, CurrentIsThere

LEMMA SaveSaid ==
  ASSUME LogInv, LogInv', TalkInv, NEW p \in active, Save(p)
  PROVE  TalkInv'
<1>1. p \in Savers /\ pc[p] = "idle" /\ Valid(log) = log
  BY OpensWhole DEF Save, Opens, LogInv, LogTypes
<1>2. PICK at : at = LoadedHead(log, head)
  OBVIOUS
<1>3. /\ Whole(log, born) /\ born \in Nat /\ at \in Ids(log) \union {0}
      /\ Said(log, born, at) \in Seq(Messages)
  BY <1>1, <1>2, SaidThere
<1>4. PICK stored \in Seq(Messages) : stored = Said(log, born, at) /\ stored = Spoken(log, at)
  BY <1>3, SpokenIsSaid
<1>5. PICK c \in Continued(talk[p]) :
        /\ talk' = [talk EXCEPT ![p] = c] /\ mine' = [mine EXCEPT ![p] = at]
        /\ todo' = [todo EXCEPT ![p] = Root(log) \o Delta(c, stored) \o <<Draft("run", c)>>]
  BY <1>2, <1>4 DEF Save
<1>6. c \in Seq(Messages)
  BY SeqDef DEF Continued
<1>7. Root(log) \in Seq(Drafts) /\ Leads(stored, Root(log), stored)
  <2>1. CASE Ids(log) = {}
    <3>1. PICK d \in Drafts : d = Draft("root", <<>>) /\ d.kind = "root"
      <4>1. <<>> \in Seq(Messages)
        OBVIOUS
      <4>2. PICK nothing \in Seq(Messages) : nothing = <<>>
        BY <4>1
      <4>3. Draft("root", nothing) \in Drafts /\ Draft("root", nothing).kind = "root"
        BY DraftIs
      <4> QED BY <4>2, <4>3
    <3>2. Root(log) = <<d>> /\ Effect(d, stored) = stored
      BY <2>1, <3>1 DEF Root, Effect
    <3> QED BY <3>1, <3>2, LeadsByOne
  <2>2. CASE Ids(log) # {}
    <3>1. Root(log) = <<>> /\ <<>> \in Seq(Drafts)
      BY <2>2 DEF Root
    <3> QED BY <3>1, LeadsNowhere
  <2> QED BY <2>1, <2>2
<1>8. Delta(c, stored) \in Seq(Drafts) /\ Leads(stored, Delta(c, stored), c)
  BY <1>6, DeltaLeads
<1>9. PICK run \in Seq(Drafts) : run = <<Draft("run", c)>> /\ Leads(c, run, c)
  <2>1. PICK d \in Drafts : d = Draft("run", c) /\ d.kind = "run" /\ d.text = c
    BY <1>6, DraftIs
  <2>2. Effect(d, c) = c
    BY <2>1 DEF Effect
  <2> QED BY <1>6, <2>1, <2>2, LeadsByOne
<1>10. PICK delta \in Seq(Drafts) : delta = Delta(c, stored)
  BY <1>8
<1>11. PICK first \in Seq(Drafts) : first = Root(log) \o delta /\ Leads(stored, first, c)
  <2>1. Root(log) \o delta \in Seq(Drafts)
    BY <1>7, ConcatProperties
  <2> QED BY <1>7, <1>8, <1>10, <2>1, LeadsOn
<1>12. PICK ahead \in Seq(Drafts) : ahead = first \o run /\ Leads(stored, ahead, c) /\ ahead # <<>>
  <2>1. first \o run \in Seq(Drafts) /\ Len(first \o run) = Len(first) + Len(run) /\ Len(first) \in Nat
    BY ConcatProperties
  <2>2. Len(run) = 1 /\ Len(<<>>) = 0
    BY <1>9
  <2>3. first \o run # <<>>
    BY <2>1, <2>2
  <2> QED BY <1>9, <1>11, <2>1, <2>3, LeadsOn
<1>13. todo' = [todo EXCEPT ![p] = ahead]
  BY <1>5, <1>9, <1>10, <1>11, <1>12
<1>14. pc' = [pc EXCEPT ![p] = "append"] /\ log' = log /\ head' = head /\ born' = born /\ promise' = promise
  BY DEF Save, diskVars
<1>15. TalkTypes'
  BY <1>1, <1>5, <1>6, <1>13 DEF TalkInv, TalkTypes
<1>16. mine'[p] = at /\ todo'[p] = ahead /\ talk'[p] = c /\ pc'[p] = "append"
  BY <1>1, <1>5, <1>13, <1>14 DEF TalkInv, TalkTypes, LogInv, LogTypes
<1>17. PlanOK(p)'
  BY <1>4, <1>12, <1>14, <1>16 DEF PlanOK
<1>18. \A q \in Savers \ {p} : pc'[q] = pc[q] /\ mine'[q] = mine[q] /\ todo'[q] = todo[q] /\ talk'[q] = talk[q]
  BY <1>1, <1>5, <1>13, <1>14 DEF TalkInv, TalkTypes, LogInv, LogTypes
<1> QED BY <1>1, <1>14, <1>15, <1>16, <1>17, <1>18, OtherwiseSaid

LEMMA LoadSaid ==
  ASSUME LogInv, LogInv', TalkInv, NEW p \in active, Resume(p) \/ Retry(p)
  PROVE  TalkInv'
<1>1. p \in Savers /\ pc[p] = "idle" /\ Valid(log) = log
  BY OpensWhole DEF Resume, Retry, Load, Opens, LogInv, LogTypes
<1>2. PICK node \in Ids(log) \union {0} : Load(p, node)
  BY <1>1, SaidThere DEF Resume, Retry, RunNodes
<1>3. Said(log, born, node) \in Seq(Messages)
  BY <1>1, SaidThere
<1>4. /\ talk' = [talk EXCEPT ![p] = Said(log, born, node)]
      /\ UNCHANGED <<diskVars, pc, mine, todo, promise>>
  BY <1>2, SpokenIsSaid DEF Load
<1>5. TalkTypes'
  BY <1>1, <1>3, <1>4 DEF TalkInv, TalkTypes
<1>6. pc'[p] = "idle" /\ PlanOK(p)'
  BY <1>1, <1>4 DEF PlanOK, TalkInv
<1>7. \A q \in Savers \ {p} : pc'[q] = pc[q] /\ mine'[q] = mine[q] /\ todo'[q] = todo[q] /\ talk'[q] = talk[q]
  BY <1>1, <1>4 DEF TalkInv, TalkTypes
<1> QED BY <1>1, <1>4, <1>5, <1>6, <1>7, OtherwiseSaid DEF diskVars

LEMMA BranchSaid ==
  ASSUME LogInv, LogInv', TalkInv, NEW p \in active, Branch(p)
  PROVE  TalkInv'
<1>1. p \in Savers /\ pc[p] = "idle"
  BY DEF Branch, Opens, LogInv, LogTypes
<1>2. PICK node \in Ids(log) : mine' = [mine EXCEPT ![p] = node]
  BY DEF Branch
<1>3. pc' = [pc EXCEPT ![p] = "move"] /\ UNCHANGED <<diskVars, talk, todo, promise>>
  BY DEF Branch
<1>4. TalkTypes'
  BY <1>3 DEF TalkInv, TalkTypes
<1>5. pc'[p] = "move" /\ PlanOK(p)'
  BY <1>1, <1>3 DEF PlanOK, TalkInv, LogInv, LogTypes
<1>6. \A q \in Savers \ {p} : pc'[q] = pc[q] /\ mine'[q] = mine[q] /\ todo'[q] = todo[q] /\ talk'[q] = talk[q]
  BY <1>1, <1>2, <1>3 DEF LogInv, LogTypes
<1> QED BY <1>1, <1>3, <1>4, <1>5, <1>6, OtherwiseSaid DEF diskVars

\* The last head file of a save makes it the conversation that is loaded next.
LEMMA HeadSaid ==
  ASSUME LogInv, LogInv', TalkInv, NEW p \in active, SaveHead(p) \/ MoveHead(p)
  PROVE  TalkInv'
<1>1. /\ p \in Savers /\ pc[p] \in {"head", "move"}
      /\ Valid(log) = log => mine[p] \in Ids(log) \union {0}
  BY DEF SaveHead, MoveHead, LogInv, LogTypes, SaverOK
<1>2. /\ log' = log /\ ended' = ended /\ born' = born /\ talk' = talk /\ todo' = todo /\ head' = mine[p]
      /\ pc' = [pc EXCEPT ![p] = IF todo[p] = <<>> THEN "idle" ELSE "append"]
      /\ mine' = [mine EXCEPT ![p] = IF todo[p] = <<>> THEN 0 ELSE mine[p]]
  BY DEF SaveHead, MoveHead, WriteHead
<1>3. TalkTypes'
  BY <1>2 DEF TalkInv, TalkTypes
<1>4. \A q \in Savers \ {p} : pc'[q] = pc[q] /\ mine'[q] = mine[q] /\ todo'[q] = todo[q] /\ talk'[q] = talk[q]
  BY <1>1, <1>2 DEF LogInv, LogTypes
<1>5. pc'[p] = IF todo[p] = <<>> THEN "idle" ELSE "append"
  BY <1>1, <1>2 DEF LogInv, LogTypes
<1>7. PlanOK(p)'
  <2>1. CASE todo[p] = <<>>
    BY <1>2, <1>5, <2>1 DEF PlanOK
  <2>2. CASE todo[p] # <<>>
    <3>1. mine'[p] = mine[p]
      BY <1>1, <1>2, <2>2 DEF LogInv, LogTypes
    <3> QED BY <1>1, <1>2, <2>2, <3>1 DEF PlanOK, TalkInv
  <2> QED BY <2>1, <2>2
<1>8. PromiseOK'
  <2> SUFFICES ASSUME promise' # NoPromise PROVE PromiseOK'
    BY DEF PromiseOK
  <2>1. pc[p] = "head" /\ todo[p] = <<>> /\ promise' = talk[p] /\ Valid(log) = log
    BY DEF SaveHead, MoveHead
  <2>2. PICK here \in Seq(Messages) : here = Said(log, born, mine[p])
    BY <1>1, <2>1, SaidThere
  <2>3. Leads(here, <<>>, talk[p])
    BY <1>1, <2>1, <2>2 DEF TalkInv, PlanOK
  <2>4. here = talk[p]
    BY <2>3, LeadsNowhere
  <2>5. \A q \in Savers : pc[q] # "rewrite" /\ pc'[q] # "rewrite"
    BY <1>1, <1>4, <1>5, NobodyMends
  <2>6. RewrittenLog' = log
    BY <1>2, <2>1, <2>5, StandsForNext
  <2>7. ended
    BY <1>1, <2>1 DEF LogInv, SaverOK
  <2> QED BY <1>1, <1>2, <2>1, <2>2, <2>4, <2>6, <2>7 DEF PromiseOK
<1> QED BY <1>1, <1>3, <1>4, <1>5, <1>7, <1>8, OtherwiseSaid

LEMMA TalkStep == LogInv /\ LogInv' /\ TalkInv /\ [LogNext]_logVars => TalkInv'
<1> SUFFICES ASSUME LogInv, LogInv', TalkInv, [LogNext]_logVars PROVE TalkInv'
  OBVIOUS
<1>1. CASE UNCHANGED logVars
  BY <1>1 DEF logVars, diskVars, repoVars, TalkInv, TalkTypes, StoredOK, PlanOK, PromiseOK, RewrittenLog
<1>2. ASSUME NEW p \in active,
             \/ Truncate(p) \/ Rewrite(p) \/ Save(p) \/ Resume(p) \/ Retry(p) \/ Branch(p)
             \/ AppendLine(p) \/ SaveHead(p) \/ MoveHead(p) \/ Die(p)
      PROVE  TalkInv'
  BY <1>2, AloneSaid, SaveSaid, LoadSaid, BranchSaid, AppendSaid, HeadSaid
<1> QED BY <1>1, <1>2 DEF LogNext

LEMMA TalkIsKept == LogSpec => []TalkInv
BY LogIsWhole, TalkInitially, TalkStep, PTL DEF LogSpec

\* load_session_run: however savers interleave, branch or die, the node of a run
\* stands for exactly the conversation that was saved with it, never for a mixture.
THEOREM RunsStayExact == LogSpec => []RunsAreExact
<1>1. LogInv /\ TalkInv => RunsAreExact
  <2> SUFFICES ASSUME LogInv, TalkInv, NEW id \in RunNodes
               PROVE  Spoken(Valid(log), id) = Node(log, id).text
    BY DEF RunsAreExact
  <2> DEFINE w == Valid(log)
  <2>1. Whole(w, born) /\ born \in Nat /\ id \in Ids(w) /\ Node(log, id).kind = "run"
    BY DEF RunNodes, LogInv, LogTypes
  <2>2. Node(log, id) = Node(w, id)
    BY <2>1, TornHides DEF LogInv
  <2>3. \A p \in Savers : pc[p] # "rewrite"
    <3> SUFFICES ASSUME NEW p \in Savers, pc[p] = "rewrite" PROVE FALSE
      OBVIOUS
    <3>1. log = <<>> /\ DOMAIN <<>> = {} /\ Whole(<<>>, born)
      BY WholeEmpty DEF LogInv, SaverOK
    <3>2. w = <<>>
      BY <2>1, <3>1, ValidIs
    <3>3. Ids(<<>>) = {}
      BY DEF Ids
    <3> QED BY <2>1, <3>2, <3>3
  <2>4. Exact(w, born)
    BY <2>3, StandsFor DEF TalkInv, StoredOK
  <2>5. PICK i \in DOMAIN w : w[i].id = id /\ Node(w, id) = w[i]
    BY <2>1, ParentsBefore
  <2>6. Said(w, born, id) = w[i].text
    BY <2>1, <2>2, <2>4, <2>5 DEF Exact
  <2> QED BY <2>2, <2>5, <2>6, SpokenIsSaid
<1> QED BY <1>1, LogIsWhole, TalkIsKept, PTL

\* A completed save is what the next load returns, whatever is loaded and whoever
\* dies, up to the next writing of the head file: lines appended behind it, torn or
\* glued to one another, and a log being recovered do not touch it (session/repo.py).
THEOREM SavedStaysKept == LogSpec => []SavedIsKept
<1>1. LogInv /\ TalkInv => SavedIsKept
  <2> SUFFICES ASSUME LogInv, TalkInv, promise # NoPromise
               PROVE  Spoken(RewrittenLog, LoadedHead(RewrittenLog, head)) = promise
    BY DEF SavedIsKept
  <2>1. head \in Ids(RewrittenLog) \union {0} /\ Said(RewrittenLog, born, head) = promise
    BY DEF TalkInv, PromiseOK
  <2>2. Ids(RewrittenLog) \subseteq Nat
    BY StandsFor, IdsAre
  <2>3. LoadedHead(RewrittenLog, head) = head
    BY <2>1, <2>2 DEF LoadedHead, NoHead
  <2> QED BY <2>1, <2>3, SpokenIsSaid
<1> QED BY <1>1, LogIsWhole, TalkIsKept, PTL
====
