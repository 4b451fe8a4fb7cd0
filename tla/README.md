# CodingKing: TLA+ models, checks and proofs

CodingKing is a coding agent: a loop that calls a language model, runs the tools the model asks
for, and edits files of a workspace, driven from a command line, an HTTP API, JSON-RPC or an SDK.
This directory models the parts of it whose correctness depends on interleaving, on order or on
what survives a failure, checks them with TLC and proves the most important facts with TLAPS.

Run everything from this directory:

    tlc -workers 2 -config MCAgentLoop.cfg MCAgentLoop
    tlapm AgentLoopProofs.tla

`PROJECT.json` names, for each definition, the lines of source it stands for (`map`), each run,
for each property a mutant of the code that breaks it (`mutants`), the hazards and the findings.

## 1. The system

Paths: *core* is `packages/coderking_agent_core/src/coderking_agent_core/`, *coding* is
`packages/coderking_coding_agent/src/coderking_coding_agent/`, *app* is `src/coderking/`.

| Component | State | Operations | What is hard | What makes it correct | Module |
| --- | --- | --- | --- | --- | --- |
| Agent loop: core/loop, fsm, cancel, agent | transcript, phase, turn count, tool tasks, two queues, abort flag | prompt, steer, follow_up, abort; a turn: context, model, tools, results | tools run as tasks of their own; steering and aborts come at every await | each call has one result; no message is lost; what runs on was cut off and is not called done; runs end | `AgentLoop` |
| Checkpoints: coding/runtime/checkpoints, diffing | one JSON file per mutating call, the workspace | prepare, complete, restore, accept_all, mark_all_rolled_back, restore_snapshot | no lock; threads outlive the run; crashes between two writes | the original of a file is never lost; undoing leads back to it | `Checkpoints` |
| Tool wrapper: coding/runtime/atomic_l1 (`wrap_phase1_tool`) | status, checkpoint of the call | policy, approval, checkpoint, execute, complete | order; each step may fail or be cancelled | no write without a way back | `Checkpoints`, `TaskRun`, `Delegation` |
| Task run: coding/runtime/atomic_l1, app/runtime/loop | status, sandbox status, verdict | start, run, stop, verdict, cleanup | stops, approvals and failures at every await | a stop is heeded; the verdict is right; nothing works beside the run | `TaskRun` |
| Controller: app/controller | tasks, approval slot, event queue | create, interrupt, approve, rollback, accept, retry, subscribe | shares state with the run, without a lock | as above | `TaskRun`, `Delegation`, `Overlay`, `EventStream` |
| Registry: app/registry | task record (file and copy), cancel file, index row | persist, request_cancel, recover_stale, rebuild | other processes read, decide and write | a verdict stands; nothing runs ahead of the file | `Registry` |
| Task index: app/task_index | rows with leases | upsert, acquire, renew, release, replace_all | expiry; upsert beside a lease | one owner at a time | `TaskIndex` |
| Session log: coding/session | append-only log, head file | load, append, branch, recover_tail | death inside a write; two writers | chains are whole; a run's conversation is exact | `SessionLog`, `SessionTree` |
| Compression, skills, instructions: coding/context | the transcript | micro compaction, compaction, `/compact`, inject | cuts a conversation of paired messages; runs follow one another | pairs stay pairs; a skill is there once | `Conversation` |
| Policy: coding/safety | rules | evaluate, merge | precedence | a merge is never laxer | |
| Subagents: coding/runtime/subagent | nested runs | agent, steer, stop | share one approval slot | a yes reaches the tool that was shown | `Delegation` |
| Copy-on-write: coding/sandbox/cow | a copy of the workspace | materialize, promote, discard | promotion beside rollback and edits | the workspace is the user's until success | `Overlay` |
| Commands and jobs: coding/sandbox local, docker, job_manager | processes | run, start_job, poll, kill, kill_all | kill beside completion; expiry; steering | nothing is left running | `Jobs` |
| Micro-VMs: coding/sandbox microvm, firecracker | one session | ensure_started, run, close | creation fails half-way or in parallel | no VM is left; no command in an empty one | `MicroVm` |
| Restricted network: coding/sandbox/network, docker | a shared bridge, a proxy per command | ensure, start, handle, stop | creation race; proxies that end with connections open | all egress goes through the proxy | `Network` |
| LLM: packages/coderking_llm | one completion | complete with retries, stream, fallback, abort | abort beside retry; half a stream | the answer is of one request; a stop ends it | `LlmCall` |
| Event streams: app/http, app/api | snapshot, one queue per task | emit, replay, subscribe | replay and queue overlap; lost clients | each event reaches the browser | `EventStream` |
| JSON-RPC: coderking_transport/rpc, app/rpc | input, tasks, forwarders | prompt, wait_idle, abort, approve, rollback | one request at a time; waiting blocks the line | idle means over; a wait ends or a question is open | `RpcServer` |
| MCP client: app/mcp | processes, pending requests | start, request, read loop, close | late, repeated and broken answers; a server that dies | a call gets its own reply | `McpClient` |
| Command line: app/cli | conversation of the loop, session pointer, records | chat, run, retry, branch, fork, new, compact | Ctrl-C, death, other terminals | a prompt goes on where the session is | `Chat` |

The controller starts a task run on its event loop; the run drives the agent loop with callbacks
for the model (`LlmCall`), the context (`Conversation`), the queues and the persistence
(`Registry`), and wraps every tool; the wrapper keeps the checkpoints; tools run commands in a
sandbox (`Jobs`, `MicroVm`, `Network`), write to the workspace or its copy (`Overlay`), start
subagents (`Delegation`) or call servers (`McpClient`). The controller's requests (rollback, accept,
restore) work on the same checkpoints and workspace from threads. Events go out through
`EventStream` and `RpcServer`. `codeking stop`, `status`, `checkpoint` and a second `chat` are other
processes that share only the disk with it (`Registry`, `SessionLog`, `Chat`).

All hazards found, with the properties that watch them, are in `PROJECT.json`.

## 2. Plan

Done, in this order, because each is built on what is before it:

1. `AgentLoop`, `Checkpoints`, `TaskRun`: the loop, what protects the user's files, and the task
   around the loop.
2. The stores: `SessionLog`, which implements `SessionTree`; `Registry`; `TaskIndex`.
3. The services a run relies on: `EventStream`, `RpcServer`, `McpClient`, `Jobs`, `LlmCall`,
   `Delegation`, `Conversation`, `Overlay`, `MicroVm`, `Chat`, `Network`.
4. Proofs, in the same order: types and control, then every safety property the passing runs
   check, and the refinement of `SessionTree`.

Remaining, most useful first:

5. An abstract `Task` (pending, running, one verdict) that `TaskRun` implements for the runs no stop
   comes too late for, and the proof of it.
6. A restore of a checkpoint by several requests at once: what holds of `TrailLeadsBack` then.
7. `TaskRun` with `Delegation` and `Overlay` in one behaviour, where a model of the whole stays small
   enough.

Runs stay small: two or three inputs, calls, turns and requests, one or two files.

## 3. The modules

`AgentLoop`, `Checkpoints` and `TaskRun` have MC modules of their own. The other components share
no state with one another: what one needs of another is an input of its model. `MCStores` and
`MCServices` therefore explore one of them per behaviour, while the others rest in an initial state;
no interleaving of two components is lost by this, since none reads what another writes. `MCHost`
explores a `TaskRun` or, after one whose process was gone before it did anything, the `RpcServer`: the
two modules with a liveness property over tasks.

### AgentLoop

One coroutine (`pc`) and, in parallel mode, one task per tool call (`task`). A step is the code
between two awaits at which somebody else can act, so steering, follow-ups and aborts interleave
with everything. The configuration (`cfg`) is chosen initially: tools sequential or parallel, the
stop rule absent, the runtime's own ("no tools") or an embedder's ("any"), queues drained one by one
or all at once, the transformed context written back or not (`persist_context_transform`).

| Code | Model |
| --- | --- |
| `Agent.prompt`, `steer`, `follow_up`, `abort` | `Prompt`, `Steer`, `FollowUp`, `Abort` |
| delivery of the cancellation, `RunCancel.raise_if_aborted` | `DeliverCancel`, `RaiseIfAborted` |
| head of the inner loop up to `complete_turn`, with `ctx.messages = transformed` | `BeginTurn` (`Transformed`), `MaxTurnsReached` |
| `complete_turn` and the assistant message | `AnswerWithTools`, `AnswerWithoutTools`, `AnswerTruncated`, `CompleteTurnFails` |
| `_execute_one_tool` | `StartTool`, `RefuseTool`, `Work`, `FinishTool` |
| `as_completed` and the sequential loop | `TakeResult`, `TakeResultSteered`, `TakeRefusal`, `SkipNext` |
| results appended, phases advanced | `AppendResults` |
| `should_stop`, steering, follow-ups | `StopAfterTurn`, `FollowUpAfterStop`, `SteerNextTurn`, `NextTurn`, `FollowUpAtRest`, `EndAtRest` |
| `await emit(agent_end)` before a return, the return | `ChooseToReturn` (`pc` "done", "spent"), `Return` |
| `Agent._run`'s result and handlers | `EndRun` |
| `other.cancel()`; the process or thread of a cancelled tool | `CancelLive`, `CancelInLoop`, `CutOff`; `EndAdrift` |
| the transition table of `fsm.py` | `NextPhase` |

A tool that works and then is cancelled before it returns is the state `"worked"`: this is what
tells "skipped" from "not run". Cancelling ends the coroutine of a tool and is not awaited
(`loop.py:294`): the process it waits for, which `_communicate` neither kills nor waits for then, or
its thread goes on. Such a call is `adrift` until that comes to its end (`EndAdrift`), with or without
effect, in a later turn, in a later run or between runs.

Before it returns, a run awaits the listeners of `agent_end`; what a client sends in this window is
`late`: it waits in its queue for the next run, or for ever. With `persist_context_transform`, which
the runtime sets whenever compression is enabled, `BeginTurn` replaces the transcript by what
`phase_a_compress` may return: itself, or a summary and its tail from some user message on
(`Compressed`). When it does so and how is the subject of `Conversation`.

`executed`, `sent` and `late` are history. Contents of messages, events and token counts are left out.

### Checkpoints

One record per mutating call (`cp`), the workspace (`file`), the calls (`stage`, `seen`), the
requests (`client`) and the run (`active`). Reading and saving a checkpoint are separate steps,
because the code locks nothing. `file` changes by `Execute` (any content, whether the tool succeeds
or not), by restores and by `OutsideWrite` (a user or a shell command).

| Code | Model |
| --- | --- |
| `prepare`, its failure | `Prepare`, `PrepareFails` |
| the wrapper's test of `recoverable` | `MayExecute`, `Block` |
| `tool.execute` | `Execute` |
| `complete` (load and capture; save; failure) | `CompleteLoad`, `CompleteSave`, `CompleteFails` |
| cancellation by steering, end of the run, death of the process | `CancelCall`, `EndRun`, `Crash` |
| `restore` (checks; write; save) | `RestoreCheck`, `RestoreWrite`, `SaveNext` |
| `accept_all`, `mark_all_rolled_back` | `AcceptAll`, `MarkAllRolledBack`, `SaveNext` |
| `restore_snapshot` | `RollbackCheck`, `RollbackFile` |
| a request that dies | `RequestDies` |

`status` "applied" stands for applied and failed, which no operation distinguishes. Equal contents
have equal hashes. `tampered`, `overwritten` and `disordered` are history: they say which files were
written by others and which checkpoints changed status out of order.

### TaskRun

The run's coroutine (`pc`), the two status fields, the approval future, the cancellation token, the
cancel file, the record on disk, one `codeking stop` under way, one rollback or accept under way.
The agent loop is reduced to turns of some calls; tools run one after the other (the default). A
`persist()` is merged with the step before it except where a stop in between matters: the one before
an approval (`AskUser`), the last one of the loop (`FinishLoop`), the final one (`Persist`).

| Code | Model |
| --- | --- |
| `AgentRuntime.run`, its handler and its watcher | `ClearCancelFirst`, `SetupFails`, `WatcherSeesFile` |
| `AtomicL1Runtime.run` up to the loop | `Start`, `OpenSandbox`, `ResourcesLoaded` |
| `complete_turn` | `AskModel`, `Interrupted`, `AnswerWithTools`, `AnswerWithoutTools`, `ModelFails` |
| `wrap_phase1_tool`, `approve` | `Called`, `NextCall`, `AskUser`, `Granted`, `Denied`, `FinishTool` |
| verdict and `finally` | `FinishLoop`, `CloseSandbox`, `Persist`, `ClearCancelLast` |
| `interrupt`, `resolve_approval`, rollback and accept | `Interrupt`, `ResolveApproval`, `BeginRequest`, `EndRequest` |
| `codeking stop` (`request_cancel`) | `StopRead`, `StopWriteFile`, `StopWriteRecord` |
| exit of the process, `recover_stale_tasks` | `Exit`, `RecoverStale` |

### SessionTree and SessionLog

`SessionTree` is what a session promises: nodes below one another, only added to, and a current one.
`SessionLog` has the two files, `log` (a sequence of lines, the last of which may be torn) and
`head`, and per saver the program counter and what it has read. A behaviour has either one saver
that may die inside any access, or several that live and interleave; tail recovery rewrites the
whole log, so several savers with deaths are outside what the code can promise, and outside the
refinement.

A death inside `_write_line` leaves nothing, a torn line, or the whole line without its newline
(`ended`). `recover_tail` keeps the last kind, since it is JSON, and adds no newline: the next line
is glued to it (`With`), the two are no JSON any more, and the next opening cuts them away with all
that followed. A save made then is lost although it was completed; `SavedIsKept` says so by promising
nothing for it, and promises that nothing else is lost.

| Code | Model |
| --- | --- |
| `SessionRepo._load`, `recover_tail`, `_load_lines`, `_load_head` | `Opens`, `Truncate`, `Rewrite`, `Valid`, `Readable`, `LoadedHead` |
| `save_session` (rewind or append the delta, and the run node) | `Save`, `Delta`, `Reserved` |
| `append`: the line, then the head | `AppendLine`, `SaveHead` |
| `branch_to`, `session branch` | `MoveHead`, `Branch` |
| `load_session`, `load_session_run`; resume and retry | `Load`, `Resume`, `Retry` |
| a death inside `_write_line`, `recover_tail` or `_save_head` | `Die` (`CutAppend`, `CutRewrite`) |

The refinement mapping reads the log up to the first line that cannot be parsed and takes the head
from the head file, or from the log when there is none: `Promised == INSTANCE SessionTree WITH ...`.

### Registry

A record's own file, the copy `current_task.json` and the row of the index; each task is a process
that saves, clients are other processes. `settled` is history: verdicts saved in all three places
while no client was at work.

| Code | Model |
| --- | --- |
| `save_record`: file, copy, row | `SaveFile`, `SaveCopy`, `SaveRow` |
| the end or death of the process of a task | `Exit` |
| `request_cancel` | `StopRead`, `StopFile`, `StopRow`, `StopCopy` |
| `recover_stale_tasks`, called by every load and list | `BeginScan`, `ScanRead`, `ScanCopy`, `ScanCheck`, `ScanMark`, `ScanRow`, `ScanEnd` |
| `list_tasks`, `rebuild_task_index` | `ListRead`, `ReplaceAll` |
| a client that is killed | `ClientDies` |

### TaskIndex

One row with its lease, and time in ticks. Each SQL statement is one step. `Upsert` writes the lease
of the record it was given, which for a running task is the process's own; `era` counts these, since
what a worker was told before one no longer binds anybody.

### EventStream

The snapshot (`recorded`), the one queue of the task, and the pages with their connections, of which
any number may be open at once. SSE replays from the last event the page names, the WebSocket and the
RPC forwarder from the start or not at all. `Emit` and
`EndOfRun` are the controller's; `Connect`, `Replay`, `GoLive`, `TakeEvent`, `TakeEnd` and `Leave` a
connection's. An event taken from the queue whose sending fails is lost from the queue, and the
snapshot has it. The connections of several pages take from the one queue, so an event that one of
them takes never reaches the others that are attached; `diverted` records this for each page, and
`NothingMissed` says that it is the only way to miss one.

### RpcServer

The server handles one line to its end (`ServerStep`: read, refuse, launch, abort, answer, serve, or
wait for a task); tasks ask and end beside it (`RunStep`); the user types lines and may close the
input (`SendLine`, `EndOfInput`). `agent.wait_idle` holds up the line until the forwarder of the task
has set its event, which it does when the task is over or when a record cannot be written
(`ForwarderFails`, then the task is `silent`). `told` is history: the tasks a client was told are
idle. Of the responses only this is kept: ids are left out, and a line without one, or one refused
before its id is read, is answered nothing.

### McpClient

The host connects its servers in order and, if one fails, closes all. A session has a process, a
read loop, a next id and futures by id.

| Code | Model |
| --- | --- |
| `McpHost.connect`, `McpStdioSession.start` | `Spawn` |
| `_request`: the future, the write; after the await | `Request`, `Wake`, `GiveUp` (timeout) |
| `_read_loop`: a reply, rubbish, the end | `Deliver`, `Rubbish`, `EndOfOutput` |
| `McpHost.close`, `McpStdioSession.close` | `CloseHost`, `CloseSession` |
| a request of the server's own under the id of a waiting call, which ends it with nothing | `ServerAsks` |
| external: a server that answers in any order, twice or late, or dies | `Reply`, `Dies` |

### Jobs

Background jobs of the shell tool (`StartJob`, `JobStarted`, `Watch`, `PollJob`, `KillJob`,
`JobKilled`), commands that are waited for (`RunCommand`, `CommandDone`, `CommandKilled`), the end of
the sandbox (`CloseSandbox`, `KillUnknown`, `Closed`) and what happens meanwhile (`ProcessExits`,
`GrowOld`, `Stop`, `Steer`). A job's entry is forgotten when it has ended and is old enough. The run
may end with tools at work: Ctrl-C ends it at any await, and parallel calls go on beside the closing.
Those at work then, or begun later, are marked `steered` like the ones steering cut off, since nobody
looks after them any more.

### LlmCall

One call of `complete`: attempts with back-off (`Attempt`, `Awake`), the second request without
thinking switches (`Repost`, `Refused`, `RefusedWithReason`), the fall back to a request without
streaming (`FallBack`), the plain request (`PlainAborted`, `PlainAnswer`), the stream (`StreamOpens`,
`Chunk`, `StreamAborted`, `StreamEnds`), failures (`ConnectionFails`) and the stop (`UserStops`,
`Cancelled`), which is only polled. `chunks` is what the code collects, `source` what the server sent.

### Delegation

The parallel subagents of one turn, each a loop of model calls and tools (`Think`, `Act`,
`SubagentEnds`). A tool that must ask makes its future and puts it in the controller's one slot
(`PutQuestion`), and goes on when it is resolved (`HearAnswer`). `AnswerSlot` resolves the slot's
future, `InterruptAll` denies it and sets the token, `SteerRun` and `SteeredAway` cancel tools,
`RunEnds` ends the run.

### Conversation

The transcript from run to run. `BeginRun` takes over the history and puts in instructions and
skills; `SendTurn` compresses what is sent (`Transformed`: micro compaction of old tool results, then
a cut that keeps pairs together); `ReplyWithCalls`, `Results`, `LastReply`, `ReplyBeforeFollowUp`,
`TurnsUsedUp` and `RunFails` are what the run does with it; `Compact` and `ForgetHistory` are
`/compact` and `/new`. Sizes of messages stand for texts.

### Overlay

The workspace, its copy and the snapshot a rollback works from. `Prepare` takes the snapshot, secret
files included; it is incomplete if a file is too big or there are too many, and a rollback refuses it
then. `Materialize` copies all but the secret files (`ignored`); tools write to the copy
(`ToolWrites`); promotion copies file by file and then removes (`StartPromotion`, `PromoteFile`,
`ListRemoved`, `RemoveFile`, `Promoted`, `PromotionFails`) in a thread, beside which a rollback
(`BeginUndo`, `UndoListed`, `UndoRemoves`, `UndoWrites`, `Undone`) and the user's `Edit` may come.

The copy and the promotion test for secret files differently. `secret_ignore_names`
(`credentials.py:128`) also tests each name below the name of the folder it is in, for the files of
the top level below that of the workspace itself; `promote` (`cow.py:113`) tests paths inside the
workspace only. In a folder such as `credentials-api` the copy is therefore empty, and a promotion
deletes every file of the user's that the run has not written. Both kinds of workspace are explored
(`ignored`), and `WorkspaceIsTheUsers` excepts the second from what it says of unchanged files. In
the first kind, too, a promotion writes the copy over what the user edited during the run.

### MicroVm

`RunInSession` finds the session or begins to create one (`BeginCreation`, `Boots`, `BootFails`,
`Uploaded`, `UploadFails`, `KillVm`); nothing locks creation, so two parallel commands create two.
`CancelShells` is steering in parallel mode and Ctrl-C in sequential mode; either may hit a creation,
whose thread goes on and whose `except Exception` does not see it (`microvm.py:355`,
`firecracker.py:391`), so that the VM stays (`lost`). `CloseBox` kills the session it knows and
`ForgetSession` then drops it, with parallel commands perhaps still on their way between and behind;
`AbandonBox` is an end of the process before that. All Firecracker VMs are reached at the one address
of the configuration: once there are two, `wait_for_ssh`, the upload and the commands of one may
arrive at another (`AnotherAnswers`, `Filling`, `Answering`).

### Chat

One or more terminals over the sessions of a workspace. The loop's conversation is in `seat`, what is
saved in `shelf`, the pointer to the current session in `pointer`, the records in `book`.

| Code | Model |
| --- | --- |
| `chat` and its resume; `/new`, `/compact`, exit | `OpenChat`, `SlashNew`, `SlashCompact`, `ExitLoop` |
| a prompt; `run`; `retry` | `Prompt`, `Run`, `Again` |
| the run ends and is saved; Ctrl-C or death | `EndAndSave`, `CutOff` |
| `new`, `session branch`, `session fork` | `New`, `Branches`, `Forks` |

### Network

A restricted command looks for the bridge, creates it or finds that another has (`InspectBridge`,
`CreateBridge`, `InspectAgain`), starts its proxy and its container (`StartProxy`, `LaunchBox`) and
removes both (`BoxExits`, `RemoveBox`, `SteerBox`, `ProxyStopped`). `SteerBox` may come at each await of
`run()`, the one for the end of the proxy included (`docker.py:275`, `network.py:273`): the command then
ends while the handlers go on. Connections ask, are judged, reach their host and end (`Asks`, `Judged`,
`Reached`, `PipeEnds`), and their client may be lost before (`ClientLost`); without the bridge a
container may go around its proxy (`GoesAround`).

## 4. What is checked

| Run | Instance | States | What it shows |
| --- | --- | --- | --- |
| `agent_loop` | 3 inputs, 2 turns, 2 calls, all configurations | 1.5 M | types and phases; every call answered once; "truncated" and sequential "skipped" mean not run; only tools that were cut off go on after their turn, and none is called done; no input lost; after a success only late inputs wait |
| `agent_loop_live` | 2 runs of one turn, 2 calls | 1.3 M | every run ends; the conversation only grows, or a summary replaces its start |
| `agent_loop_skipped` | parallel tools | | **violated**: "skipped" calls may have run |
| `checkpoints` | 2 calls, 2 requests, a file too large, both modes | 2.7 M | types; the original is never lost |
| `checkpoints_trail` | 3 sequential calls, 1 request | 940 k | undoing newest first leads back |
| `checkpoints_newer` | 1 call, a user who edits | | **violated**: a prepared checkpoint overwrites newer content |
| `task_run` | 2 turns of 2 calls; a service of 2 tasks, 3 lines | 27 k | a stopped run is no success and asks no more; requests wait for the run; an answered run ends; the RPC host calls a task idle when it is over, and a wait ends or the user is asked |
| `task_run_stop` | 1 turn of 2 calls, a user who need not answer | | **violated**: a stopped run may wait for an approval for ever |
| `task_run_record` | 1 turn | | **violated**: a stop from another process marks a succeeded task |
| `stores` | see Bounds | 1.8 M | sessions, records and leases: next table |
| `services` | see Bounds | 1.8 M | everything else: next table |
| `retry_context` | 1 terminal, 1 session, 3 runs | | **violated**: a chat run that was cut off is retried without its conversation |

The properties of `stores` and `services`, and those of the RPC host in `task_run`:

| Property | What it says |
| --- | --- |
| `ChainsAreWhole` | no loaded conversation misses a parent, whoever wrote or died |
| `RunsAreExact` | a run's node stands for exactly the conversation saved with it |
| `SavedIsKept` | a completed save is what the next load returns, until somebody saves or branches; one glued to a line without newline excepted |
| `ImplementsTree` | log and head with their deaths and recoveries implement `SessionTree` |
| `FilesLead` | copy and index never hold what the file has not held |
| `SettledVerdictStands` | a verdict saved before a client came is never changed |
| `OneHolder` | one holder of an unexpired lease, and the row names it |
| `NothingMissed` | a recorded event has reached the page, or will by replay or queue, unless another page's connection took it |
| `IdleMeansOver` | a task the client was told is idle is over and passed on, or its forwarder had failed |
| `WaitEndsOrUserIsAsked` | only a question to the user can hold up a client that waits |
| `OwnReply`, `ClosedIsQuiet` | a call gets its own reply or nothing; a closed host leaves nothing running or waiting |
| `NothingLeftRunning` | a closed sandbox leaves only what a steering message or the end of the run had cut off |
| `AnswerIsOfOneRequest`, `StopEndsRequests` | no answer is put together from two attempts; after a stop at most one request goes out |
| `YesIsForTheShownQuestion` | a tool that asked runs on a yes to its own question only |
| `SentIsWellFormed`, `SkillOnce` | calls and results are sent together, with the user's last words; a skill is there once |
| `WorkspaceIsTheUsers`, `RollbackIsExact` | the workspace is the user's until success, his secret files always, and what nobody changed stays, in a folder whose name is no secret; a rollback is exact |
| `NoVmIsLeft` | no VM is left but the known exceptions; no command runs in one that is not filled, on Firecracker while none is lost |
| `ChatGoesOn`, `RetryGoesOn` | a prompt goes on where the session is; a retry where its run was saved |
| `EgressIsControlled` | traffic goes through the command's own proxy wherever Docker allows the bridge, and ends with the command unless its stop was cancelled or the client is gone |

Several properties name the exceptions the code really has (tools, jobs and VMs that a steering
message or the end of the run cut off, VMs made in parallel, events another page took, requests
repeated once, an open bridge, a folder with a secret name); the exceptions are histories or fields
of the model, so a new way to leave something behind still breaks the property.

**Bounds.** Two turns suffice for the loop, since a turn hands to the next one only `pending`, the
queues and the transcript, and both boundary paths (steering, follow-up) then occur before and after
tools. Two calls are the smallest number at which one is finished while another is working or
skipped; one file suffices for checkpoints, as files never interact except in the all-files rollback;
three calls give a checkpoint with both an older and a newer one. `MaxPrompts`, `MaxCalls` and "an
outside write per file" are bounds of the models; `MaxTurns` is the code's own. In `task_run`, two
tasks of a service and three lines are the least in which one task is waited for while another is
launched and ends.

In `stores`: two savers, conversations of two messages (`MaxTalk`) and five nodes (`MaxNodes`), so
that one saver's branch lies between the nodes of the other's; two tasks, three processes and
clients at work (`MaxActors`) and three writes (`MaxWrites`), enough for a stop, a scan and a save to
overtake one another; a lease of two ticks (`Ttl`) in five (`MaxTime`), so that it expires while its
holder renews and another acquires, with two upserts (`MaxUpserts`) between.

In `services`: two events, two pages and two connections, which may be open at once, of one page or of
two, so that the queue is shared, and one after the other, so that one is lost and made again; two
servers and five requests, four of which are their handshakes; two commands; three attempts and two chunks, the code's `max_attempts` and the least that
can be cut in the middle; two subagents of two turns with three questions; seven messages, of which
compression keeps three and one tool result, so that both compactions occur; two plain files and a
secret one, a file too big and a third file too many (`MaxFiles` = 2), one edit each by user and
tool, and `NewText` for what is new; three commands on micro-VMs, since the third meets what two in
parallel have left; two runs in two sessions of eight nodes at most (`MaxShelf`), an unchanged
conversation being saved again only while there are three at most (`MaxResave`); two restricted
commands with one connection each.

**Symmetry** permutes inputs, calls, requests and contents, none of which is ordered; in `stores`,
savers and clients, and tasks and messages. It is not used where liveness is checked.

**Fairness.** Weak fairness of the loop and of starting and finishing tools: an event loop runs
whatever is ready, and models and tools have timeouts. No client has to send, steer, abort or exit.
`AnsweredSpec` adds a user who answers approvals; `FairSpec`, under which `StopEndsTheRun` fails,
does not. `RpcFairness` is weak fairness of the server's loop and of the tasks and their forwarders,
which run on one event loop; nothing is assumed of the client or the user. `MCHost` assumes that of
`AnsweredSpec` for the run and `RpcFairness` for the service. Nothing obliges a cut-off tool to end
(`EndAdrift`). Deadlock checking is off, because runs end and
clients may have nothing to say.

**Findings.**

- *Skipped calls* (`loop.py:302`): with parallel tools a call whose work is done is told to the
  model as skipped, if steering is found first.
- *Prepared checkpoints* (`checkpoints.py:204`): a run cancelled between the tool and `complete()`
  leaves no `after` to compare with, and a restore overwrites what the user wrote later.
- *Stops and approvals* (`controller.py:193`): `interrupt` denies the pending approval only. If
  another call asks later in the turn, or the future is made after the interrupt, the run waits.
- *Stops and records* (`registry.py:250`): `request_cancel` reads, then writes; a task that succeeds
  in between is recorded as cancelling, later as interrupted.
- *Retry and context* (`cli.py:444`): the node of a run is written when it ends; a chat run that was
  cut off before has none, and its retry begins with an empty conversation.

## 5. What is proved

For every value of the constants that their assumptions allow, by `tlapm`. Eight modules hold the
theorems, one or several components each; `DataLemmas` has the facts about sets and sequences that
several of them need.

**The core** (`AgentLoopProofs`, `CheckpointsProofs`, `TaskRunProofs`)

| Theorem | Property | Argument |
| --- | --- | --- |
| `AgentLoopProofs!TypeCorrect` | `TypeOK` | typing is inductive together with "the phase matches `pc`", which excludes refused phase events |
| `InputsAreKept` | `InputsKept` | for each action: what leaves a queue enters `pending` or `found`, what leaves those enters the transcript; `HoldingInv`: a run's messages hold the inputs of the conversation it started with, unless they begin with a summary |
| `OnlyTheCutOffGoOn` | `OnlyCutOffToolsGoOn` | `AtWorkInv`: while tools are awaited, one at work has no result yet; sequentially it is the first unanswered call. `AdriftInv`: tools are cut off while their turn gathers results, when none of them has one, and nothing said later calls them executed |
| `ReportsOfNotRun` | `NotRunMeansNotRun` | `NotRunInv`: truncated turns start nothing; sequential skipping comes after the tools that ran |
| `CallsAnsweredOnce` | `EveryCallAnsweredOnce` | `PairedInv`: the transcript before the open turn is well paired, the results gathered are of distinct calls of the turn, and there are as many as calls when they are appended (an injection that is onto) |
| `ContextGrows` | `ContextGrowsOrIsCut` | `GrownInv`: a run's messages begin with the conversation it started from, or with a summary and a tail of it; a cut of a cut is a cut |
| `OnlyLateInputsAreLeft` | `OnlyLateInputsWait` | `LateInv`: while a run is about to return, what its queues hold was sent since it chose to |
| `CheckpointsProofs!TypeCorrect` | `TypeOK` | with `OwnCheckpoints`: what a request has read of a checkpoint may be stale, but not its path and not what it keeps of the file |
| `MutationsFailClosed` | `BaselineHeld` | `BaselineInv`: until a checkpoint of the file holds the original, the file itself does, and so does every checkpoint of it |
| `TrailIsKept` | `TrailLeadsBack` | `TrailInv`, for one request at a time; see below |
| `TaskRunProofs!TypeCorrect` | `TypeOK` | with `CallsCounted`: a turn under way has a call left |
| `StopIsNoSuccess` | `StoppedNeverSucceeds` | `StopInv`: a stop sets the token for good; where only the status decides (`model`, `ending`), it is not running |
| `StopAsksNoMore` | `StoppedAsksNoMore` | `StopInv` and the guard of `AskModel` |
| `RequestsWait` | `RequestsWaitForTheRun` | `SandboxInv`: between start and close the sandbox is active, before it there is no verdict |

**The stores** (`StoresProofs`)

| Theorem | Property | Argument |
| --- | --- | --- |
| `LeaseTypeCorrect`, `LeaseHasOneHolder` | `LeaseTypeOK`, `OneHolder` | the row names whoever was told so since the last upsert, and until then |
| `RegTypeCorrect`, `FileLeads` | `RegTypeOK`, `FilesLead` | `LeadInv`: what any process has in hand to write to copy or row has been in the file |
| `SettledVerdictKept` | `SettledVerdictStands` | `SettledInv`: no process has an older record of a settled task in hand that it would still write |
| `ChainsStayWhole` | `ChainsAreWhole` | `LogInv`: the readable log is whole, each saver's plans fit it, and only a lone saver ever finds damage |
| `LogImplementsTree` | `ImplementsTree` | from `LogInv`: each access is a growth, a move, a loss or a stutter of `SessionTree` |
| `RunsStayExact` | `RunsAreExact` | `TalkInv`: on top of `LogInv`, the lines a saver has still to append lead from where its chain stands to the conversation it saves |
| `SavedStaysKept` | `SavedIsKept` | `TalkInv`: what was promised stands at the head, which is no line that can still be spoilt, and what a saver has still to append leads from where it is to what it saves unless its lines got lost |

**The services** (`ProtocolProofs`, `SandboxProofs`, `ConversationProofs`)

| Theorem | Property | Argument |
| --- | --- | --- |
| `EachCallItsOwnReply` | `OwnReply` | `OwnInv`: an id is given once per server, and a future is filed under the id of its own request; a request of the server's that meets it ends it with nothing |
| `ClosedQuiet` | `ClosedIsQuiet` | `QuietInv`: connecting goes up and closing goes down the list of servers, what it has passed is quiet, and a call that waits is filed with a server that is not closed |
| `YesIsForItsQuestion` | `YesIsForTheShownQuestion` | `SlotInv`: only the future in the slot can be said yes to, and the slot is the question shown last |
| `IdleTasksAreOver` | `IdleMeansOver` | `RpcInv`: a task that was launched and is not yet passed on has its entry, unless its forwarder failed |
| `NothingIsMissed` | `NothingMissed` | `StreamInv`: the queue holds the events in order, a page has all up to the one it names but for those diverted from it, and a connection replays without a gap from there |
| `NoVmLeft` | `NoVmIsLeft` | `VmInv`: a VM that is there is being made by a command, is the session, or is lost; those made at the same time, cancelled in the making or made beside the closing are lost, also the one that becomes the session; while none is lost, or on E2B, the session and every VM a command runs in is filled |
| `EgressControlled` | `EgressIsControlled` | `NetInv`: whoever looks a second time finds the bridge unless Docker makes none; a handler works only for a connection that was judged, and after `run()` only if it was cancelled when it waited for the proxy, or if the client is gone |
| `NothingLeft` | `NothingLeftRunning` | `JobInv`: a process that runs has a tool that waits for it or an entry that is running, and from the moment the sandbox closes its place on the list of those to kill, unless it was cut off |
| `WorkspaceStaysTheUsers` | `WorkspaceIsTheUsers` | `PromotionInv`: how far a promotion is, file by file, and that the copy holds what the workspace did wherever neither user nor run has changed a file |
| `RollbackExact` | `RollbackIsExact` | `UndoInv`: how far a rollback is, what it has listed and what it has still to write |
| `AnswerOfOneRequest`, `StopEndsTheRequests` | `AnswerIsOfOneRequest`, `StopEndsRequests` | `LlmInv`: each request begins with nothing collected; the request after a stop is the clean one, which is not repeated |
| `PromptGoesOn`, `RetryTakesUpTheRun` | `ChatGoesOn`, `RetryGoesOn` | `ChatInv`: each terminal's seat agrees with the file it last saw; `LeftInv`: what a run left is in the last of its nodes |
| `SentWellFormed`, `SkillsOnce` | `SentIsWellFormed`, `SkillOnce` | `ConvInv`: at rest and before a request every call has its results and every result its call, while tools work the calls of the last reply wait, and no skill is there twice; each operator of compression keeps this |

**The trail** (`TrailInv`). `TrailLeadsBack` undoes the checkpoints of a file newest first, as a
recursive function over their numbers, and says that the end is what the file held at the start. It
is not inductive: a restore writes the file before it saves the checkpoint, and a call that is
cancelled between the tool and `complete` leaves a checkpoint without `after`. The invariant says of
each file that what it holds can be undone to what its newest open checkpoint expects, and what each
of them keeps can be undone to the next older one (`Trail`), also when the completion under way is
saved, and that a request that rolls one back has the newest in hand (`RestoreOK`). That the whole
way back then leads to the beginning is proved by the least number at which it would fail. The
theorem is for one request at a time (`OneClient`), and so is the run: with two requests that
restore the same checkpoint, TLC finds that the second one, which has read it before the first saved
it, writes late and undoes an older restore. The code has nothing that excludes this, and nothing in
the repository promises more.

**The conversation of a node.** `Spoken` walks from a node to its root, recursively. `RunsStayExact`
needs that appending a line changes no walk that was possible before, and that a chain of new lines
says what the saver meant to say; both are proved by a minimal counterexample along the log
(`WalkIs`, `SaidIs`, `SaidByItsLines`), since parents stand before their children.

**Hypotheses and assumptions.** One theorem has a hypothesis: `TrailIsKept` (`OneClient`). The others
rest on the named `ASSUME`s of the modules, which give the constants their
types and say that the special values differ; `Conversation` also assumes that the names of skills
are not kinds of messages and that compression keeps at least one message (`config.py:132`,
`ge=1`). TLC evaluates all of them in the runs.

**Only model-checked**: the liveness properties `RunEnds`, `TaskEnds` and `WaitEndsOrUserIsAsked`,
which rest on fairness and ENABLED, and the five properties that are violated. Where a property
computes recursively over data, the theorems are about the specific recursion on the model's own
structures, by a minimal counterexample; what such a function computes for arbitrary data would need
induction schemes that are out of the prover's reach.

## 6. What is not modelled

- Tool policy: a pure function of patterns; its answer is an input of the models that need it.
- The SDK session: a thin client of the controller. Sandbox selection and credentials: no state.
- Response parsing, rendering, the text of prompts and diffs, matching of skills, the web and desktop
  clients, the evaluation kit, and the scripts of the repository (presentation, reports, pure data).
- What runs inside sandboxes, the Docker daemon, model servers, MCP servers and remote hosts: external.

Within the modelled parts: file modes and symbolic links, failing writes of the task record, token
accounting, the contents of messages, migration of old session formats, the other routes and
commands, which call what is modelled.

Some hazards have no property, because nothing in the repository promises what would be violated:
a failing set-up leaves the sandbox status active (`atomic_l1.py:345`); a line separator such as
U+2028 in a message makes a session unreadable (`repo.py:180`, in `SessionLog` as `Breaking`);
pending MCP requests wait for their timeout when a server closes its output (`client.py:156`);
stopping a proxy waits for its connections (`network.py:269`). A verdict saved between the read and
the write of a recovery or a stop is overwritten: `task_run_record` shows it for a stop, and
`SettledVerdictStands` speaks of verdicts saved before. Two requests that work on the same checkpoint may
set its status back (`checkpoints.py:222`), and a tool whose question another has pushed out of the
slot waits until the run is stopped (`controller.py:97`).
