---- MODULE Checkpoints ----
(***************************************************************************)
(* The file checkpoints of one task: CheckpointStore (checkpoints.py), the *)
(* wrapper that puts a checkpoint around every mutating tool call          *)
(* (atomic_l1.py), and the operations a client has once the task is over:  *)
(* rollback of one checkpoint, rollback of the task, accept                *)
(* (controller.py, diffing.py).                                            *)
(*                                                                         *)
(* The tool calls run in the agent loop, the clients in threads of the API *)
(* server or in processes of their own; nothing locks the store.  What one *)
(* of them does between two accesses to the disk is one step.              *)
(*                                                                         *)
(* Abstracted: a file's bytes are one value, and equal values have equal   *)
(* hashes; file modes; time stamps are numbers.                            *)
(***************************************************************************)
EXTENDS Naturals

CONSTANTS
  Files,      \* the paths tools may write to
  Contents,   \* what a file may contain
  Absent,     \* no file at this path
  Unrecorded, \* the after of a checkpoint that was not completed
  Large,      \* contents over the limit of a workspace snapshot
  Oversize,   \* contents over the limit of a checkpoint
  Calls,      \* the mutating tool calls of the task
  Clients,    \* requests that may be served at the same time
  Modes       \* the values of tool_execution that are explored

ASSUME StoreAssumption ==
  /\ Files # {} /\ Oversize \subseteq Large /\ Large \subseteq Contents
  /\ Absent \notin Contents /\ Unrecorded \notin Contents /\ Absent # Unrecorded
  /\ Modes \subseteq {"sequential", "parallel"}

VARIABLES
  mode,        \* AgentLoopConfig.tool_execution
  base,        \* the workspace when the task began (state.snapshot)
  file,        \* the workspace
  cp,          \* the checkpoint files, by tool call
  clock,       \* the created_at of the latest checkpoint
  stage,       \* where each tool call stands
  seen,        \* the after that complete() captured and has not saved yet
  active,      \* the task is pending, running, waiting or cancelling
  client,      \* what each request is doing
  tampered,    \* history: files written by anyone but the tools
  overwritten, \* history: calls whose file was changed again by someone else
  disordered   \* history: files whose checkpoints did not change status in order

callVars == <<clock, stage, seen, active>>
history == <<tampered, overwritten, disordered>>
vars == <<mode, base, file, cp, callVars, client, history>>

----
State == Contents \cup {Absent}                  \* of one file
Recoverable(v) == v \notin Oversize              \* _capture(...)["recoverable"]

NoCheckpoint(c) ==
  [call |-> c, status |-> "none", path |-> CHOOSE f \in Files : TRUE,
   created |-> 0, before |-> Absent, after |-> Unrecorded]

\* CheckpointStore.list: the checkpoints with such a status, as they are now.
Listed(statuses) == {p \in {cp[c] : c \in Calls} : p.status \in statuses}

\* The list is sorted by created_at.
Oldest(p, ps) == p \in ps /\ \A q \in ps : p.created <= q.created

Rest == [stage |-> "idle", todo |-> {}, as |-> "none", left |-> {}]

\* Other calls that wrote to f before.
Writers(f, c) == {d \in Calls \ {c} : cp[d].path = f /\ stage[d] \in {"executed", "saving", "over"}}

\* A call that is under way.
InHand(c) == stage[c] \in {"ready", "executed", "saving"}

Init ==
  /\ mode \in Modes
  /\ base \in [Files -> State] /\ file = base
  /\ cp = [c \in Calls |-> NoCheckpoint(c)] /\ clock = 0
  /\ stage = [c \in Calls |-> "idle"] /\ seen = [c \in Calls |-> Unrecorded]
  /\ active = TRUE
  /\ client = [k \in Clients |-> Rest]
  /\ tampered = {} /\ overwritten = {} /\ disordered = {}

----
(***************************************************************************)
(* A mutating tool call                                                    *)
(***************************************************************************)
\* prepare(): the file is captured and the checkpoint saved.
Prepare(c, f) ==
  /\ active /\ stage[c] = "idle"
  /\ mode = "sequential" => \A d \in Calls : ~InHand(d)
  /\ cp' = [cp EXCEPT ![c] = [call |-> c, status |-> "prepared", path |-> f,
                              created |-> clock + 1,
                              before |-> file[f], after |-> Unrecorded]]
  /\ clock' = clock + 1
  /\ stage' = [stage EXCEPT ![c] = "ready"]
  /\ UNCHANGED <<mode, base, file, seen, active, client, history>>

\* prepare() raises: the call is answered without running the tool.
PrepareFails(c) ==
  /\ active /\ stage[c] = "idle"
  /\ mode = "sequential" => \A d \in Calls : ~InHand(d)
  /\ stage' = [stage EXCEPT ![c] = "gone"]
  /\ UNCHANGED <<mode, base, file, cp, clock, seen, active, client, history>>

MayExecuteAnything(c) ==                         \* mutant: the tool runs without a way back
  stage[c] = "ready"
MayExecute(c) == stage[c] = "ready" /\ Recoverable(cp[c].before)

\* The tool runs, in one step of the event loop.  Whether it succeeds or not,
\* it may leave anything in the file, or nothing.
Execute(c, v) ==
  /\ MayExecute(c)
  /\ file' = [file EXCEPT ![cp[c].path] = v]
  /\ stage' = [stage EXCEPT ![c] = "executed"]
  /\ overwritten' = overwritten \cup Writers(cp[c].path, c)
  /\ UNCHANGED <<mode, base, cp, clock, seen, active, client, tampered, disordered>>

\* The original cannot be kept: the tool is not run.
Block(c) ==
  /\ stage[c] = "ready" /\ ~Recoverable(cp[c].before)
  /\ stage' = [stage EXCEPT ![c] = "executed"]
  /\ UNCHANGED <<mode, base, file, cp, clock, seen, active, client, history>>

CapturedAtPrepare(c) == cp[c].before             \* mutant: what prepare() captured
Captured(c) == file[cp[c].path]

\* complete() loads the checkpoint and captures the file ...
CompleteLoad(c) ==
  /\ stage[c] = "executed" /\ cp[c].status = "prepared"
  /\ seen' = [seen EXCEPT ![c] = Captured(c)]
  /\ stage' = [stage EXCEPT ![c] = "saving"]
  /\ UNCHANGED <<mode, base, file, cp, clock, active, client, history>>

\* ... and saves it as applied or failed, which no operation tells apart.
\* The thread may outlive the run and undo what a request has saved since.
CompleteSave(c) ==
  /\ stage[c] = "saving"
  /\ disordered' = IF cp[c].status = "prepared" THEN disordered
                   ELSE disordered \cup {cp[c].path}
  /\ cp' = [cp EXCEPT ![c].status = "applied", ![c].after = seen[c]]
  /\ seen' = [seen EXCEPT ![c] = Unrecorded]
  /\ stage' = [stage EXCEPT ![c] = "over"]
  /\ UNCHANGED <<mode, base, file, clock, active, client, tampered, overwritten>>

\* complete() raises: the agent goes on and the checkpoint stays prepared.
CompleteFails(c) ==
  /\ stage[c] \in {"executed", "saving"}
  /\ seen' = [seen EXCEPT ![c] = Unrecorded]
  /\ stage' = [stage EXCEPT ![c] = "over"]
  /\ UNCHANGED <<mode, base, file, cp, clock, active, client, history>>

\* Cancelling a call abandons it where it waits, except that the thread in
\* which complete() runs goes on to save.
Abandoned(s) == IF s \in {"idle", "ready"} THEN "gone" ELSE IF s = "executed" THEN "over" ELSE s

\* Steering cancels the other calls of a parallel turn.
CancelCall(c) ==
  /\ active /\ mode = "parallel" /\ stage[c] \in {"ready", "executed"}
  /\ stage' = [stage EXCEPT ![c] = Abandoned(stage[c])]
  /\ UNCHANGED <<mode, base, file, cp, clock, seen, active, client, history>>

\* The run ends, by itself or because it is cancelled.
EndRun ==
  /\ active
  /\ active' = FALSE
  /\ stage' = [c \in Calls |-> Abandoned(stage[c])]
  /\ UNCHANGED <<mode, base, file, cp, clock, seen, client, history>>

\* The process dies: the run, the threads and the requests with it.
Crash ==
  /\ active \/ \E c \in Calls : InHand(c)
  /\ active' = FALSE
  /\ stage' = [c \in Calls |-> IF stage[c] = "saving" THEN "over" ELSE Abandoned(stage[c])]
  /\ seen' = [c \in Calls |-> Unrecorded]
  /\ client' = [k \in Clients |-> Rest]
  /\ UNCHANGED <<mode, base, file, cp, clock, history>>

----
(***************************************************************************)
(* The user, or a shell command, writes to a file (bound of the model: once*)
(* per file)                                                               *)
(***************************************************************************)
OutsideWrite(f, v) ==
  /\ file[f] # v /\ f \notin tampered
  /\ file' = [file EXCEPT ![f] = v]
  /\ tampered' = tampered \cup {f}
  /\ overwritten' = overwritten \cup
       {d \in Calls : cp[d].path = f /\ stage[d] \in {"executed", "saving", "over"}}
  /\ UNCHANGED <<mode, base, cp, callVars, client, disordered>>

----
(***************************************************************************)
(* Requests, served only while the task is not active                      *)
(***************************************************************************)
Idle(k) == ~active /\ client[k].stage = "idle"

\* restore(): may p be rolled back while its file contains now?
NewerContent(p, now) == p.after # Unrecorded /\ now # p.after
Restorable(p, now) ==
  /\ p.status \in {"prepared", "applied"} /\ Recoverable(p.before)
  /\ ~NewerContent(p, now)

\* A newer checkpoint of the same file is not rolled back yet.
Newer(c) ==
  \E d \in Calls : /\ cp[d].created > cp[c].created /\ cp[d].path = cp[c].path
                   /\ cp[d].status # "rolled_back"

RestoreCheck(k, c) ==
  /\ Idle(k) /\ Restorable(cp[c], file[cp[c].path])
  /\ disordered' = IF Newer(c) THEN disordered \cup {cp[c].path} ELSE disordered
  /\ client' = [client EXCEPT ![k] = [Rest EXCEPT !.stage = "restoring", !.todo = {cp[c]}]]
  /\ UNCHANGED <<mode, base, file, cp, callVars, tampered, overwritten>>

RestoreWrite(k) ==
  /\ client[k].stage = "restoring"
  /\ \E p \in client[k].todo : file' = [file EXCEPT ![p.path] = p.before]
  /\ client' = [client EXCEPT ![k].stage = "saving", ![k].as = "rolled_back"]
  /\ UNCHANGED <<mode, base, cp, callVars, history>>

\* accept_all() and mark_all_rolled_back() read every checkpoint first.
AcceptAll(k) ==
  /\ Idle(k)
  /\ LET todo == Listed({"prepared", "applied"}) IN
       /\ todo # {}
       /\ client' = [client EXCEPT ![k] = [Rest EXCEPT !.stage = "saving", !.todo = todo,
                                                       !.as = "accepted"]]
  /\ UNCHANGED <<mode, base, file, cp, callVars, history>>

\* restore_snapshot(): refused without a complete, nonempty snapshot.
RollbackCheck(k) ==
  /\ Idle(k)
  /\ \E f \in Files : base[f] # Absent
  /\ \A f \in Files : base[f] \notin Large /\ file[f] \notin Large
  /\ client' = [client EXCEPT ![k] = [Rest EXCEPT !.stage = "rolling", !.left = Files]]
  /\ UNCHANGED <<mode, base, file, cp, callVars, history>>

RollbackFile(k, f) ==
  /\ client[k].stage = "rolling" /\ f \in client[k].left
  /\ file' = [file EXCEPT ![f] = base[f]]
  /\ client' = [client EXCEPT ![k].left = @ \ {f}]
  /\ UNCHANGED <<mode, base, cp, callVars, history>>

MarkAllRolledBack(k) ==
  /\ client[k].stage = "rolling" /\ client[k].left = {}
  /\ LET todo == Listed({"prepared", "applied", "accepted"}) IN
       client' = [client EXCEPT ![k] =
                    IF todo = {} THEN Rest
                    ELSE [Rest EXCEPT !.stage = "saving", !.todo = todo, !.as = "rolled_back"]]
  /\ disordered' = Files                        \* the oldest are marked first
  /\ UNCHANGED <<mode, base, file, cp, callVars, tampered, overwritten>>

AfterSaveAlways(k, p) ==                         \* mutant: the request never finishes
  [client[k] EXCEPT !.todo = @ \ {p}]
AfterSave(k, p) ==
  IF client[k].todo = {p} THEN Rest ELSE [client[k] EXCEPT !.todo = @ \ {p}]

\* The next checkpoint is saved as it was read, with its final status.
SaveNext(k) ==
  /\ client[k].stage = "saving"
  /\ \E p \in client[k].todo :
       /\ Oldest(p, client[k].todo)
       /\ cp' = [cp EXCEPT ![p.call] = [p EXCEPT !.status = client[k].as]]
       /\ client' = [client EXCEPT ![k] = AfterSave(k, p)]
  /\ UNCHANGED <<mode, base, file, callVars, history>>

\* The request dies half-way: a failing disk, or a killed command line client.
RequestDies(k) ==
  /\ client[k].stage # "idle"
  /\ client' = [client EXCEPT ![k] = Rest]
  /\ UNCHANGED <<mode, base, file, cp, callVars, history>>

----
Call(c) ==
  \/ \E f \in Files : Prepare(c, f)
  \/ PrepareFails(c)
  \/ \E v \in State : Execute(c, v)
  \/ Block(c) \/ CompleteLoad(c) \/ CompleteSave(c) \/ CompleteFails(c)
  \/ CancelCall(c)

Request(k) ==
  \/ \E c \in Calls : RestoreCheck(k, c)
  \/ RestoreWrite(k)
  \/ AcceptAll(k)
  \/ RollbackCheck(k) \/ MarkAllRolledBack(k)
  \/ \E f \in Files : RollbackFile(k, f)
  \/ SaveNext(k)
  \/ RequestDies(k)

Next ==
  \/ \E c \in Calls : Call(c)
  \/ EndRun \/ Crash
  \/ \E f \in Files, v \in State : OutsideWrite(f, v)
  \/ \E k \in Clients : Request(k)

Spec == Init /\ [][Next]_vars

----
(***************************************************************************)
(* Properties                                                              *)
(***************************************************************************)
Checkpoint ==
  [call : Calls, status : {"none", "prepared", "applied", "accepted", "rolled_back"},
   path : Files, created : Nat, before : State, after : State \cup {Unrecorded}]

\* The type of every variable.  A request that is under way has something
\* left to do.
TypeOK ==
  /\ mode \in Modes
  /\ base \in [Files -> State] /\ file \in [Files -> State]
  /\ cp \in [Calls -> Checkpoint]
  /\ clock \in Nat
  /\ stage \in [Calls -> {"idle", "ready", "executed", "saving", "over", "gone"}]
  /\ seen \in [Calls -> State \cup {Unrecorded}]
  /\ active \in BOOLEAN
  /\ client \in [Clients -> [stage : {"idle", "restoring", "saving", "rolling"},
                             todo : SUBSET Checkpoint,
                             as : {"none", "accepted", "rolled_back"},
                             left : SUBSET Files]]
  /\ \A k \in Clients : client[k].stage \in {"restoring", "saving"} => client[k].todo # {}
  /\ tampered \subseteq Files /\ overwritten \subseteq Calls /\ disordered \subseteq Files

\* Mutations fail closed: what a file held when the task began is still
\* there, or a checkpoint of the file holds it, whatever the tools, the
\* requests and the crashes did, as long as nobody else wrote to the file
\* (docs/cli/README.md: a direct write is blocked when no recoverable baseline
\* can be made).
Original(p, f) ==
  p.status # "none" /\ p.path = f /\ p.before = base[f] /\ Recoverable(p.before)
BaselineHeld ==
  \A f \in Files \ tampered : file[f] = base[f] \/ \E c \in Calls : Original(cp[c], f)

\* Rolling back the checkpoints of f that are not rolled back yet, the newest
\* first, ends with this content.
Undone(f) ==
  LET undo[i \in 0 .. clock] ==
        IF i = 0 THEN file[f]
        ELSE LET now == undo[i - 1]
                 here == {p \in Listed({"prepared", "applied"}) :
                            p.created = clock + 1 - i /\ p.path = f /\ Restorable(p, now)}
             IN IF here = {} THEN now ELSE (CHOOSE p \in here : TRUE).before
  IN undo[clock]

NoneAccepted(f) == \A c \in Calls : cp[c].path = f => cp[c].status # "accepted"

\* The trail back is never broken: with tools run one after the other, undoing
\* the checkpoints of a file newest first gives back what it held when the
\* task began, at every moment a request may start or has died, whatever was
\* cancelled, failed or crashed before.  It takes that the checkpoints rolled
\* back so far went in that order too, and that none was accepted.
TrailLeadsBack ==
  mode = "sequential" /\ ~active =>
    \A f \in Files \ (tampered \cup disordered) : NoneAccepted(f) => Undone(f) = base[f]

\* A rollback of one checkpoint is refused when the user or a later tool
\* changed the file (docs/cli/README.md:158).
RestoreRefusesNewerContent ==
  [][\A k \in Clients, c \in overwritten :
       client[k].stage = "idle" =>
         ~(client'[k].stage = "restoring" /\ \E p \in client'[k].todo : p.call = c)]_vars

====
