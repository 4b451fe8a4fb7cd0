---- MODULE TaskRun ----
(***************************************************************************)
(* The life of one task: TaskController starts it, stops it, answers its   *)
(* approvals and rolls it back (controller.py); AgentRuntime watches for   *)
(* stops that come from other processes (runtime/loop.py); AtomicL1Runtime *)
(* runs the agent loop and sets the verdict (atomic_l1.py); the registry   *)
(* keeps the task's record and its cancel file (registry.py).              *)
(*                                                                         *)
(* The run and the controller share one event loop, so a step is the code  *)
(* between two awaits; `codeking stop` runs in a process of its own, and   *)
(* its steps are the accesses to the disk.                                 *)
(*                                                                         *)
(* Abstracted: the agent loop is what AgentLoop says, with tools run one   *)
(* after the other; here it is a bounded number of turns of some tool      *)
(* calls.  A persist() is one step, and is part of the step before it      *)
(* where nothing can tell the two apart.  No copy-on-write workspace.      *)
(***************************************************************************)
EXTENDS Naturals

CONSTANTS
  MaxTurns,   \* max_iterations
  MaxCalls    \* bound of the model: tool calls of one turn

ASSUME RunAssumption == MaxTurns \in Nat /\ MaxCalls \in Nat

VARIABLES
  pc,         \* where the run stands
  status,     \* state.status
  sandbox,    \* state.sandbox_status
  turns,      \* state.iteration
  left,       \* tool calls of this turn still to be made
  approval,   \* managed.approval
  token,      \* managed.cancel.cancelled, which nothing clears
  cancelFile, \* .coderking/cancels/<task> exists
  record,     \* the status in .coderking/tasks/<task>.json
  stopper,    \* a `codeking stop` under way
  request,    \* a rollback or accept under way
  stopped     \* history: interrupt() was told to stop the live task

loopVars == <<pc, status, sandbox, turns, left>>
diskVars == <<cancelFile, record>>
vars == <<loopVars, approval, token, diskVars, stopper, request, stopped>>

----
Terminal == {"succeeded", "failed", "interrupted"}
Gone == {"over", "dead"}                         \* the run will do nothing more

Init ==
  /\ pc = "new" /\ status = "pending" /\ sandbox = "idle" /\ turns = 0 /\ left = 0
  /\ approval = "none" /\ token = FALSE
  /\ cancelFile = FALSE /\ record = "none"
  /\ stopper = "idle" /\ request = "idle" /\ stopped = FALSE

----
(***************************************************************************)
(* The run: before the loop                                                *)
(***************************************************************************)
\* A cancel file from before the run is removed.
ClearCancelFirst ==
  /\ pc = "new"
  /\ pc' = "cleared" /\ cancelFile' = FALSE
  /\ UNCHANGED <<status, sandbox, turns, left, approval, token, record, stopper, request, stopped>>

\* The status is set whatever it was, and recorded.
Start ==
  /\ pc = "cleared"
  /\ pc' = "setup" /\ status' = "running" /\ record' = "running"
  /\ UNCHANGED <<sandbox, turns, left, approval, token, cancelFile, stopper, request, stopped>>

OpenSandbox ==
  /\ pc = "setup"
  /\ pc' = "loading" /\ sandbox' = "active"
  /\ UNCHANGED <<status, turns, left, approval, token, diskVars, stopper, request, stopped>>

ResourcesLoaded ==
  /\ pc = "loading"
  /\ pc' = "head"
  /\ UNCHANGED <<status, sandbox, turns, left, approval, token, diskVars, stopper, request, stopped>>

Verdict == IF token THEN "interrupted" ELSE "failed"

\* The sandbox or the resources cannot be had: AgentRuntime catches that.
SetupFails ==
  /\ pc \in {"setup", "loading"}
  /\ pc' = "persisting" /\ status' = Verdict
  /\ UNCHANGED <<sandbox, turns, left, approval, token, diskVars, stopper, request, stopped>>

----
(***************************************************************************)
(* The run: turns                                                          *)
(***************************************************************************)
TurnsLeftPlusOne == turns <= MaxTurns            \* mutant: one turn too many
TurnsLeft == turns < MaxTurns

BeginTurn ==
  /\ pc = "head" /\ TurnsLeft
  /\ pc' = "decide" /\ turns' = turns + 1 /\ record' = status
  /\ UNCHANGED <<status, sandbox, left, approval, token, cancelFile, stopper, request, stopped>>

\* The loop reports an error, which makes the task a failed one, and ends.
MaxTurnsReached ==
  /\ pc = "head" /\ ~TurnsLeft
  /\ pc' = "ending" /\ status' = "failed" /\ record' = "failed"
  /\ UNCHANGED <<sandbox, turns, left, approval, token, cancelFile, stopper, request, stopped>>

SeesFileOnly == cancelFile                       \* mutant: the token is not looked at
SeesCancel == cancelFile \/ token

\* complete_turn looks for a stop before it calls the model.
AskModel ==
  /\ pc = "decide" /\ ~SeesCancel
  /\ pc' = "model"
  /\ UNCHANGED <<status, sandbox, turns, left, approval, token, diskVars, stopper, request, stopped>>

\* CancelledRun.
Interrupted ==
  /\ pc = "decide" /\ SeesCancel
  /\ pc' = "closing" /\ status' = "interrupted"
  /\ UNCHANGED <<sandbox, turns, left, approval, token, diskVars, stopper, request, stopped>>

\* The model answers without tools: a follow-up goes on, or the loop is over
\* and its last persist under way.
AnswerWithoutTools ==
  /\ pc = "model"
  /\ pc' \in {"head", "ending"}
  /\ UNCHANGED <<status, sandbox, turns, left, approval, token, diskVars, stopper, request, stopped>>

\* The provider raises, which it also does when the token is set.
ModelFails ==
  /\ pc = "model"
  /\ pc' = "closing" /\ status' = Verdict
  /\ UNCHANGED <<sandbox, turns, left, approval, token, diskVars, stopper, request, stopped>>

----
(***************************************************************************)
(* The run: tool calls                                                     *)
(***************************************************************************)
CallsLeftUncounted(n) == n                       \* mutant: the same call again and again
CallsLeft(n) == n - 1

\* A call returns, the n-th from the last, whatever it did or was refused.
Returned(n, as) ==
  /\ left' = CallsLeft(n) /\ status' = as /\ record' = as
  /\ pc' = IF CallsLeft(n) = 0 THEN "head" ELSE "tools"

\* The policy allows a call; denies it; or wants the user to be asked, and then
\* the status is recorded first ...
Called(n) ==
  \/ pc' = "working" /\ left' = n /\ UNCHANGED <<status, record>>
  \/ Returned(n, status)
  \/ pc' = "asking" /\ left' = n /\ status' = "waiting_approval" /\ UNCHANGED record

\* Nothing is awaited between the model's answer and the first call.
AnswerWithTools(n) ==
  /\ pc = "model"
  /\ Called(n)
  /\ UNCHANGED <<sandbox, turns, approval, token, cancelFile, stopper, request, stopped>>

NextCall ==
  /\ pc = "tools"
  /\ Called(left)
  /\ UNCHANGED <<sandbox, turns, approval, token, cancelFile, stopper, request, stopped>>

\* ... and then approve() makes the future.
AskUser ==
  /\ pc = "asking"
  /\ pc' = "waiting" /\ record' = status /\ approval' = "pending"
  /\ UNCHANGED <<status, sandbox, turns, left, token, cancelFile, stopper, request, stopped>>

\* The answer is there; the status is running again whatever it was.
Granted ==
  /\ pc = "waiting" /\ approval = "granted"
  /\ pc' = "working" /\ status' = "running" /\ record' = "running"
  /\ UNCHANGED <<sandbox, turns, left, approval, token, cancelFile, stopper, request, stopped>>

Denied ==
  /\ pc = "waiting" /\ approval = "denied"
  /\ Returned(left, "running")
  /\ UNCHANGED <<sandbox, turns, approval, token, cancelFile, stopper, request, stopped>>

\* The tool, or its checkpoint, is done or has failed.
FinishTool ==
  /\ pc = "working"
  /\ Returned(left, status)
  /\ UNCHANGED <<sandbox, turns, approval, token, cancelFile, stopper, request, stopped>>

----
(***************************************************************************)
(* The run: the end                                                        *)
(***************************************************************************)
LoopVerdictAlways == "succeeded"                 \* mutant: the status is not looked at
LoopVerdict == IF status = "running" THEN "succeeded" ELSE status

\* The last persist of the loop returns.
FinishLoop ==
  /\ pc = "ending"
  /\ pc' = "closing" /\ record' = status /\ status' = LoopVerdict
  /\ UNCHANGED <<sandbox, turns, left, approval, token, cancelFile, stopper, request, stopped>>

\* The sandbox is closed; when that fails the task has failed.
CloseSandbox ==
  /\ pc = "closing"
  /\ pc' = "persisting" /\ sandbox' = "idle" /\ status' \in {status, "failed"}
  /\ UNCHANGED <<turns, left, approval, token, diskVars, stopper, request, stopped>>

Persist ==
  /\ pc = "persisting"
  /\ pc' = "clearing" /\ record' = status
  /\ UNCHANGED <<status, sandbox, turns, left, approval, token, cancelFile, stopper, request, stopped>>

ClearCancelLast ==
  /\ pc = "clearing"
  /\ pc' = "over" /\ cancelFile' = FALSE
  /\ UNCHANGED <<status, sandbox, turns, left, approval, token, record, stopper, request, stopped>>

\* The watcher of AgentRuntime sees the cancel file of another process.
WatcherSeesFile ==
  /\ pc \notin {"new"} \cup Gone /\ cancelFile /\ ~token
  /\ token' = TRUE
  /\ UNCHANGED <<loopVars, approval, diskVars, stopper, request, stopped>>

----
(***************************************************************************)
(* The controller                                                          *)
(***************************************************************************)
\* request_cancel(), as one step of this process.
RecordCancel ==
  /\ cancelFile' = (record \notin Terminal \/ cancelFile)
  /\ record' = IF record \in {"pending", "running", "waiting_approval"} THEN "cancelling" ELSE record

Interrupt ==
  /\ pc # "dead" /\ status \notin Terminal
  /\ status' = "cancelling" /\ token' = TRUE /\ stopped' = TRUE
  /\ approval' = IF approval = "pending" THEN "denied" ELSE approval
  /\ RecordCancel
  /\ UNCHANGED <<pc, sandbox, turns, left, stopper, request>>

\* The user answers.
ResolveApproval(answer) ==
  /\ pc # "dead" /\ approval = "pending"
  /\ approval' = answer
  /\ UNCHANGED <<loopVars, token, diskVars, stopper, request, stopped>>

MutationIdleByStatus == status \in Terminal      \* mutant: the sandbox is not looked at
MutationIdle == status \in Terminal /\ sandbox = "idle"

\* A rollback or an accept, in a thread of its own.
BeginRequest ==
  /\ pc # "dead" /\ MutationIdle /\ request = "idle"
  /\ request' = "working"
  /\ UNCHANGED <<loopVars, approval, token, diskVars, stopper, stopped>>

EndRequest ==
  /\ request = "working"
  /\ request' = "idle"
  /\ UNCHANGED <<loopVars, approval, token, diskVars, stopper, stopped>>

----
(***************************************************************************)
(* Other processes                                                         *)
(***************************************************************************)
\* request_cancel() reads the record ...
StopRead ==
  /\ stopper = "idle" /\ record \notin Terminal \cup {"none"}
  /\ stopper' = IF record = "cancelling" THEN "file_only" ELSE "file"
  /\ UNCHANGED <<loopVars, approval, token, diskVars, request, stopped>>

\* ... leaves the cancel file ...
StopWriteFile ==
  /\ stopper \in {"file", "file_only"}
  /\ cancelFile' = TRUE
  /\ stopper' = IF stopper = "file" THEN "record" ELSE "idle"
  /\ UNCHANGED <<loopVars, approval, token, record, request, stopped>>

\* ... and writes the record it read, as cancelling.
StopWriteRecord ==
  /\ stopper = "record"
  /\ record' = "cancelling" /\ stopper' = "idle"
  /\ UNCHANGED <<loopVars, approval, token, cancelFile, request, stopped>>

\* The process of the run exits, early or not.
Exit ==
  /\ pc # "dead"
  /\ pc' = "dead" /\ request' = "idle"
  /\ UNCHANGED <<status, sandbox, turns, left, approval, token, diskVars, stopper, stopped>>

\* Whoever lists the tasks marks the record of a dead process.
RecoverStale ==
  /\ pc = "dead" /\ record \in {"running", "cancelling", "waiting_approval"}
  /\ record' = "interrupted"
  /\ UNCHANGED <<loopVars, approval, token, cancelFile, stopper, request, stopped>>

----
Turn ==
  \/ BeginTurn \/ MaxTurnsReached \/ AskModel \/ Interrupted
  \/ AnswerWithoutTools \/ ModelFails
  \/ \E n \in 1 .. MaxCalls : AnswerWithTools(n)

ToolCall ==
  \/ NextCall \/ AskUser \/ Granted \/ Denied \/ FinishTool

Run ==
  \/ ClearCancelFirst \/ Start \/ OpenSandbox \/ ResourcesLoaded \/ SetupFails
  \/ Turn \/ ToolCall
  \/ FinishLoop \/ CloseSandbox \/ Persist \/ ClearCancelLast

Answer == \E answer \in {"granted", "denied"} : ResolveApproval(answer)

Stop == StopRead \/ StopWriteFile \/ StopWriteRecord

Next ==
  \/ Run \/ WatcherSeesFile
  \/ Interrupt \/ Answer \/ BeginRequest \/ EndRequest
  \/ Stop \/ Exit \/ RecoverStale

Spec == Init /\ [][Next]_vars

\* The event loop runs whatever is ready, models and tools return in the end.
\* Nobody has to answer, stop or exit.
FairSpec == Spec /\ WF_vars(Run) /\ WF_vars(WatcherSeesFile)

\* A user who answers the questions.
AnsweredSpec == FairSpec /\ WF_vars(Answer)

----
(***************************************************************************)
(* Properties                                                              *)
(***************************************************************************)
Statuses == {"pending", "running", "cancelling", "waiting_approval"} \cup Terminal

\* The type of every variable.
TypeOK ==
  /\ pc \in {"new", "cleared", "setup", "loading", "head", "decide", "model", "tools", "asking",
             "waiting", "working", "ending", "closing", "persisting", "clearing"} \cup Gone
  /\ status \in Statuses
  /\ sandbox \in {"idle", "active"}
  /\ turns \in 0 .. MaxTurns /\ left \in 0 .. MaxCalls
  /\ approval \in {"none", "pending", "granted", "denied"}
  /\ token \in BOOLEAN /\ cancelFile \in BOOLEAN /\ stopped \in BOOLEAN
  /\ record \in Statuses \cup {"none"}
  /\ stopper \in {"idle", "file", "file_only", "record"}
  /\ request \in {"idle", "working"}

\* A run that was told to stop is never called a success, although the stop
\* may come at any moment: before the run starts, which deletes the cancel
\* file and overwrites the status (atomic_l1.py:310), while an approval is
\* settled, which overwrites it again (111), or while the loop writes its last
\* record (572).
StoppedNeverSucceeds == stopped => status # "succeeded"

\* A run that was told to stop does not call the model again, whenever the
\* stop came (atomic_l1.py:486-492).
StoppedAsksNoMore == [][stopped /\ pc # "model" => pc' # "model"]_vars

\* No rollback or accept touches the workspace while the run may still write
\* to it, also when the status is final already (controller.py:161-175).
RequestsWaitForTheRun ==
  request = "working" => sandbox = "idle" /\ pc \in {"persisting", "clearing"} \cup Gone

\* A run whose questions are answered ends, by the model, by the turn limit,
\* by a stop or by a failure.
TaskEnds == pc = "new" ~> pc \in Gone

\* A stop ends the run: it also releases the approval the run waits for
\* (tests/test_cancel.py:60-71, docs/sdk.md:47).
StopEndsTheRun == stopped ~> pc \in Gone

\* A stop does not mark the record of a task that has succeeded
\* (tests/test_cancel.py:85-92, registry.py:245).
RecordedVerdictStands ==
  [][record = "succeeded" => record' # "cancelling"]_vars

====
