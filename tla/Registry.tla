---- MODULE Registry ----
(***************************************************************************)
(* The records of the tasks of a workspace (registry.py): each task's own  *)
(* file, the copy current_task.json of the record saved last, and the      *)
(* SQLite index derived from them.  The process of a task saves its        *)
(* record; other processes (codeking stop, status, tasks, the API) cancel  *)
(* it, mark it when its process is gone, and rebuild the index.            *)
(*                                                                         *)
(* A step is one access to the disk, or one look at the process table.     *)
(* Nothing locks the files; each write replaces a file as a whole.         *)
(*                                                                         *)
(* Abstracted: of a record only the status, and the write it is of; a      *)
(* running task stands also for one that waits for an approval, a          *)
(* succeeded one for one that failed; the cancel file is in TaskRun.       *)
(***************************************************************************)
EXTENDS Naturals, FiniteSets, Functions

CONSTANTS
  Tasks,      \* each runs in a process of its own
  Clients,    \* the other processes
  MaxWrites,  \* bound of the model: writes of records
  MaxActors   \* bound of the model: processes and clients of one behaviour

ASSUME RegistryAssumption ==
  MaxWrites \in Nat /\ MaxActors \in Nat /\ "none" \notin Tasks

VARIABLES
  file,       \* per task: .coderking/tasks/<task>.json
  current,    \* current_task.json: the task and its record
  row,        \* per task: the row of the index
  runner,     \* per task: its process, what it saves and where it stands
  client,     \* per client: its job, where it stands and what it has read
  settled     \* history: tasks whose verdict was saved while no client was at work

regVars == <<file, current, row, runner, client, settled>>

----
Verdicts == {"succeeded", "interrupted"}
Active == {"pending", "running", "cancelling"}
OrphanedOrDecided == Active \union Verdicts           \* mutant: any status will do
Orphaned == {"running", "cancelling"}
Stoppable == {"pending", "running"}

\* A record as somebody holds it: its status, and which write of the file it is of.
Absent == [status |-> "none", of |-> 0]
Record == [status : Verdicts \union Active \union {"none"}, of : Nat]
NoTask == [task |-> "none", record |-> Absent]

Resting == [job |-> "none", at |-> "idle", left |-> {}, marked |-> {},
            read |-> [t \in Tasks |-> Absent], task |-> "none"]

RegInit ==
  /\ file = [t \in Tasks |-> Absent]
  /\ current = NoTask
  /\ row = [t \in Tasks |-> Absent]
  /\ runner \in [Tasks -> [at : {"idle", "gone"}, record : {Absent}]]
  /\ client \in [Clients -> {Resting, [Resting EXCEPT !.at = "away"]}]
  /\ Cardinality({t \in Tasks : runner[t].at = "idle"})
     + Cardinality({c \in Clients : client[c].at = "idle"}) <= MaxActors
  /\ settled = {}

\* The task's file is written with a status; whoever wrote it holds the record.
Written(t, status) == [status |-> status, of |-> file[t].of + 1]
WriteFileUnnoticed(t, status) ==                      \* mutant: a failure passes unnoticed
  /\ FoldFunction(LAMBDA held, sum : held.of + sum, 0, file) < MaxWrites
  /\ file' \in {file, [file EXCEPT ![t] = Written(t, status)]}
WriteFile(t, status) ==
  /\ FoldFunction(LAMBDA held, sum : held.of + sum, 0, file) < MaxWrites
  /\ file' = [file EXCEPT ![t] = Written(t, status)]

----
(***************************************************************************)
(* The task's process: save_record                                         *)
(***************************************************************************)
AtWork(t) == runner[t].at \in {"idle", "copy", "index"}
Quiet == \A c \in Clients : client[c].at \in {"idle", "away"}

\* Only a task without a verdict is saved again.
SaveFile(t) ==
  /\ runner[t].at = "idle" /\ runner[t].record.status \notin Verdicts
  /\ \E status \in Active \union Verdicts :
       /\ WriteFile(t, status)
       /\ runner' = [runner EXCEPT ![t] = [at |-> "copy", record |-> Written(t, status)]]
  /\ UNCHANGED <<current, row, client, settled>>

SaveCopy(t) ==
  /\ runner[t].at = "copy"
  /\ current' = [task |-> t, record |-> runner[t].record]
  /\ runner' = [runner EXCEPT ![t].at = "index"]
  /\ UNCHANGED <<file, row, client, settled>>

\* From here on a verdict has been saved in every place.
SaveRow(t) ==
  /\ runner[t].at = "index"
  /\ row' = [row EXCEPT ![t] = runner[t].record]
  /\ runner' = [runner EXCEPT ![t].at = "idle"]
  /\ settled' = IF file[t].status \in Verdicts /\ Quiet /\ current = [task |-> t, record |-> file[t]]
                THEN settled \union {t} ELSE settled
  /\ UNCHANGED <<file, current, client>>

\* The process ends, by itself or not, and maybe in the middle of a save.
Exit(t) ==
  /\ AtWork(t)
  /\ runner' = [runner EXCEPT ![t].at = "gone"]
  /\ UNCHANGED <<file, current, row, client, settled>>

----
(***************************************************************************)
(* codeking stop: request_cancel                                           *)
(***************************************************************************)
StopRead(c, t) ==
  /\ client[c].at = "idle"
  /\ file[t].status \in Stoppable
  /\ client' = [client EXCEPT ![c] =
       [Resting EXCEPT !.job = "stop", !.at = "file", !.task = t]]
  /\ UNCHANGED <<file, current, row, runner, settled>>

StopFile(c) ==
  /\ client[c].job = "stop" /\ client[c].at = "file"
  /\ LET t == client[c].task
     IN  /\ WriteFile(t, "cancelling")
         /\ client' = [client EXCEPT ![c].at = "row", ![c].read[t] = Written(t, "cancelling")]
  /\ UNCHANGED <<current, row, runner, settled>>

StopRow(c) ==
  /\ client[c].job = "stop" /\ client[c].at = "row"
  /\ row' = [row EXCEPT ![client[c].task] = client[c].read[client[c].task]]
  /\ client' = [client EXCEPT ![c].at = "copy"]
  /\ UNCHANGED <<file, current, runner, settled>>

\* The copy is looked at and then written.
StopCopy(c) ==
  /\ client[c].job = "stop" /\ client[c].at = "copy"
  /\ LET t == client[c].task
     IN  current' = IF current.task = t THEN [task |-> t, record |-> client[c].read[t]] ELSE current
  /\ client' = [client EXCEPT ![c] = Resting]
  /\ UNCHANGED <<file, row, runner, settled>>

----
(***************************************************************************)
(* recover_stale_tasks, which every other command runs first               *)
(***************************************************************************)
Alive(t) == runner[t].at # "gone"

\* codeking status, tasks, checkpoint ... ("scan"), or a rebuild of the index.
BeginScan(c) ==
  /\ client[c].at = "idle"
  /\ \E job \in {"scan", "rebuild"} :
       client' = [client EXCEPT ![c] =
         [Resting EXCEPT !.job = job, !.at = "scan", !.left = {t \in Tasks : file[t] # Absent}]]
  /\ UNCHANGED <<file, current, row, runner, settled>>

\* A file is read; unless its status is one of a task at work, it is passed over.
ScanRead(c) ==
  /\ client[c].at = "scan"
  /\ \E t \in client[c].left :
       LET orphaned == file[t].status \in Orphaned
       IN  client' = [client EXCEPT
             ![c].left = @ \ {t},
             ![c].task = IF orphaned THEN t ELSE "none",
             ![c].at = IF orphaned THEN "check" ELSE "scan"]
  /\ UNCHANGED <<file, current, row, runner, settled>>

\* After the tasks' files the copy, unless its task has been marked already.
ScanCopy(c) ==
  /\ client[c].at = "scan" /\ client[c].left = {}
  /\ LET orphaned == current.record.status \in Orphaned /\ current.task \notin client[c].marked
     IN  client' = [client EXCEPT
           ![c].task = IF orphaned THEN current.task ELSE "none",
           ![c].at = IF orphaned THEN "check copy" ELSE "scanned"]
  /\ UNCHANGED <<file, current, row, runner, settled>>

Then(at) == IF at = "check copy" THEN "scanned" ELSE "scan"
ScanCheck(c) ==
  /\ client[c].at \in {"check", "check copy"}
  /\ LET task == client[c].task
         next == IF client[c].at = "check" THEN "mark" ELSE "mark copy"
     IN  client' = [client EXCEPT
           ![c].at = IF Alive(task) THEN Then(@) ELSE next,
           ![c].task = IF Alive(task) THEN "none" ELSE task]
  /\ UNCHANGED <<file, current, row, runner, settled>>

\* The record read before is written back as interrupted, and its row.
ScanMark(c) ==
  /\ client[c].at \in {"mark", "mark copy"}
  /\ LET t == client[c].task
     IN  /\ WriteFile(t, "interrupted")
         /\ client' = [client EXCEPT
              ![c].read[t] = Written(t, "interrupted"),
              ![c].marked = @ \union {t},
              ![c].at = IF @ = "mark" THEN "row" ELSE "row copy"]
  /\ UNCHANGED <<current, row, runner, settled>>

ScanRow(c) ==
  /\ client[c].job # "stop" /\ client[c].at \in {"row", "row copy"}
  /\ row' = [row EXCEPT ![client[c].task] = client[c].read[client[c].task]]
  /\ client' = [client EXCEPT ![c].at = IF @ = "row" THEN "scan" ELSE "scanned", ![c].task = "none"]
  /\ UNCHANGED <<file, current, runner, settled>>

\* At last the copy is replaced, if it is of a task that was marked.
ScanEnd(c) ==
  /\ client[c].at = "scanned"
  /\ current' = IF current.task \in client[c].marked
                THEN [current EXCEPT !.record = client[c].read[current.task]] ELSE current
  /\ client' = [client EXCEPT ![c] =
       IF @.job = "rebuild" THEN [@ EXCEPT !.at = "list", !.left = Tasks] ELSE Resting]
  /\ UNCHANGED <<file, row, runner, settled>>

----
(***************************************************************************)
(* rebuild_task_index                                                      *)
(***************************************************************************)
ListRead(c) ==
  /\ client[c].at = "list"
  /\ \E t \in client[c].left :
       client' = [client EXCEPT ![c].left = @ \ {t}, ![c].read[t] = file[t]]
  /\ UNCHANGED <<file, current, row, runner, settled>>

\* replace_all, in one transaction
ReplaceAll(c) ==
  /\ client[c].at = "list" /\ client[c].left = {}
  /\ row' = client[c].read
  /\ client' = [client EXCEPT ![c] = Resting]
  /\ UNCHANGED <<file, current, runner, settled>>

\* A client that is interrupted leaves its work half done.
ClientDies(c) ==
  /\ client[c].at \notin {"idle", "away"}
  /\ client' = [client EXCEPT ![c] = Resting]
  /\ UNCHANGED <<file, current, row, runner, settled>>

RegNext ==
  \/ \E t \in Tasks : SaveFile(t) \/ SaveCopy(t) \/ SaveRow(t) \/ Exit(t)
  \/ \E c \in Clients :
       \/ \E t \in Tasks : StopRead(c, t)
       \/ StopFile(c) \/ StopRow(c) \/ StopCopy(c)
       \/ BeginScan(c) \/ ScanRead(c) \/ ScanCopy(c) \/ ScanCheck(c) \/ ScanMark(c)
       \/ ScanRow(c) \/ ScanEnd(c) \/ ListRead(c) \/ ReplaceAll(c) \/ ClientDies(c)

RegSpec == RegInit /\ [][RegNext]_regVars

----
(***************************************************************************)
(* Properties                                                              *)
(***************************************************************************)
Places == {"idle", "away", "file", "row", "copy", "scan", "check", "check copy", "mark", "mark copy",
           "row copy", "scanned", "list"}

ClientState ==
  [job : {"none", "stop", "scan", "rebuild"}, at : Places, left : SUBSET Tasks,
   marked : SUBSET Tasks, read : [Tasks -> Record], task : Tasks \union {"none"}]

\* Only a task's record is checked or written.
Placed(held) ==
  held.at \notin {"idle", "away", "scan", "scanned", "list"} => held.task \in Tasks

\* Every variable has its type.
RegTypeOK ==
  /\ file \in [Tasks -> Record] /\ row \in [Tasks -> Record]
  /\ current \in [task : Tasks \union {"none"}, record : Record]
  /\ runner \in [Tasks -> [at : {"idle", "copy", "index", "gone"}, record : Record]]
  /\ client \in [Clients -> ClientState] /\ \A c \in Clients : Placed(client[c])
  /\ settled \in SUBSET Tasks

\* README.md:151: the JSON files are the source of truth.  Whoever dies or
\* overtakes whom, the copy and the index never hold what the file has not held.
FilesLead ==
  \A t \in Tasks :
    /\ row[t].of <= file[t].of
    /\ current.task = t => current.record.of <= file[t].of

\* A verdict that was saved in all three places while no client was at work stands,
\* whatever stops, scans, rebuilds and deaths come later.
SettledVerdictStands ==
  [][\A t \in settled : file'[t] = file[t]]_regVars
====
