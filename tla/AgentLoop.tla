---- MODULE AgentLoop ----
(***************************************************************************)
(* The agent loop of coderking_agent_core: run_agent_loop (loop.py), its   *)
(* phase machine (fsm.py), the run's cancellation flag (cancel.py) and the *)
(* Agent that owns the message queues and the committed context (agent.py).*)
(*                                                                         *)
(* One coroutine runs the loop.  In parallel mode each tool call is an     *)
(* asyncio task of its own.  A client may steer, queue a follow-up or      *)
(* abort at every point where one of them is suspended, so a step here is  *)
(* the code between two awaits at which another party can be seen.         *)
(*                                                                         *)
(* Abstracted: text, token counts, events and the output of tools.  A tool *)
(* call is its position in the assistant message, a turn its serial number.*)
(* Of a context transform the model keeps what it does to the transcript   *)
(* when it is written back: its start may give way to a summary.           *)
(***************************************************************************)
EXTENDS Naturals, Sequences, FiniteSets

CONSTANTS
  Inputs,     \* user messages a client may send, each at most once
  MaxTurns,   \* AgentLoopConfig.max_turns
  MaxCalls,   \* bound of the model: tool calls of one assistant message
  MaxPrompts, \* bound of the model: runs of the agent
  ToolModes,  \* the values of AgentLoopConfig.tool_execution that are explored
  StopRules,  \* what should_stop_after_turn may be: absent, no_tools, any
  QueueModes, \* the values of QueueMode that are explored
  PersistModes \* the values of persist_context_transform that are explored

ASSUME LoopAssumption ==
  /\ MaxTurns \in Nat
  /\ MaxCalls \in Nat
  /\ MaxPrompts \in Nat
  /\ ToolModes \subseteq {"sequential", "parallel"}
  /\ StopRules \subseteq {"absent", "no_tools", "any"}
  /\ QueueModes \subseteq {"one-at-a-time", "all"}
  /\ PersistModes \subseteq BOOLEAN

VARIABLES
  cfg,       \* the AgentLoopConfig of this agent
  pc,        \* where the loop coroutine stands
  phase,     \* PhaseFSM.phase
  turns,     \* turns of the current run, 0 while no run is active
  turnId,    \* serial number of the latest turn, over all runs (turn_id)
  nCalls,    \* tool calls of the current assistant message
  messages,  \* ctx.messages of the run, empty while no run is active
  context,   \* Agent._context.messages
  pending,   \* user messages the next turn appends
  found,     \* steering_after_act
  results,   \* tool results gathered in this turn, in order
  arrival,   \* finished tool tasks not yet consumed (asyncio.as_completed)
  task,      \* state of each tool call of the turn
  steering,  \* Agent._steering
  followUp,  \* Agent._follow_up
  aborted,   \* RunCancel.aborted
  outcome,   \* how the current or latest run stands
  sent,      \* what each input was sent as
  late,      \* history: inputs sent since the run chose to return
  executed,  \* history: the calls whose tool did its work
  adrift     \* calls whose coroutine was cancelled and whose process or thread goes on

runVars == <<pc, phase, turns, turnId, nCalls, messages, context, pending, found, outcome>>
toolVars == <<results, arrival, task, executed, adrift>>
clientVars == <<steering, followUp, aborted, sent, late>>
vars == <<cfg, runVars, toolVars, clientVars>>

----
(***************************************************************************)
(* The phase machine                                                       *)
(***************************************************************************)
Phases == {"perceive", "decide", "act", "observe", "re_perceive", "terminated"}

\* The transition table, for one phase and one event.
NextPhase(p, event) ==
  CASE p = "perceive" /\ event = "context_ready" -> "decide"
    [] p = "decide" /\ event = "assistant_with_tools" -> "act"
    [] p = "decide" /\ event = "assistant_no_tools" -> "re_perceive"
    [] p = "act" /\ event = "tools_done" -> "observe"
    [] p = "observe" /\ event = "results_appended" -> "re_perceive"
    [] p = "re_perceive" /\ event = "continue" -> "perceive"
    [] p \in Phases \ {"terminated"} /\ event = "terminate" -> "terminated"
    [] OTHER -> "invalid"                        \* InvalidPhaseTransition

----
(***************************************************************************)
(* Messages, queues and tool results                                       *)
(***************************************************************************)
User(m) == [role |-> "user", input |-> m]
Assistant(t, n) == [role |-> "assistant", turn |-> t, calls |-> n]
ToolMessage(t, r) == [role |-> "tool", turn |-> t, call |-> r.call, how |-> r.how]
Summary == [role |-> "system"]
UserMessages(q) == [i \in DOMAIN q |-> User(q[i])]

\* What a compression makes of a transcript: a summary and the tail from some
\* user message on, or, when nothing is gained, the transcript itself.
Cut(s, k) == <<Summary>> \o SubSeq(s, k, Len(s))
Compressed(s) == {s} \cup {Cut(s, k) : k \in {k \in 2 .. Len(s) : s[k].role = "user"}}

\* What ctx.messages may be after the transform: without the write-back only
\* the model sees what it returns.
Transformed(s) == IF cfg.persist THEN Compressed(s) ELSE {s}

\* What one call of drain() takes from a queue, and what it leaves.
Drained(q) == IF q = <<>> \/ cfg.queue = "all" THEN q ELSE <<Head(q)>>
LeftNone(q) == <<>>                              \* mutant: a drain empties the queue
Left(q) == IF q = <<>> \/ cfg.queue = "all" THEN <<>> ELSE Tail(q)

Calls == 1 .. nCalls
Result(c, how) == [call |-> c, how |-> how]
Unanswered == Calls \ {results[k].call : k \in DOMAIN results}
GatheredUnfilled == pc = "skip" \/ Unanswered = {}  \* mutant: the skipped calls are not filled in
Gathered == Unanswered = {}

\* The loop itself is about to run call c.
StartsInLoopUnasked(c) ==                        \* mutant: runs calls that have their result
  cfg.tools = "sequential" /\ pc = "act" /\ task[c] = "none"
StartsInLoop(c) ==
  /\ cfg.tools = "sequential" /\ pc = "act" /\ task[c] = "none"
  /\ c \in Unanswered /\ \A d \in Unanswered : c <= d

\* A tool task that may still do something.
Live == {"ready", "running", "worked"}
CancelNobody == task                             \* mutant: the other tasks are left alone
CancelLive == [c \in DOMAIN task |-> IF task[c] \in Live THEN "cancelled" ELSE task[c]]

\* cancel() ends a coroutine and is not awaited: the process or the thread a
\* running tool waits for goes on without it.
CutOff == {<<turnId, c>> : c \in {d \in DOMAIN task : task[d] = "running"}}

\* should_stop_after_turn for the turn that just ended: absent means never,
\* no_tools is the runtime's rule, any leaves the answer to the embedder.
MayStop == cfg.stop = "any" \/ (cfg.stop = "no_tools" /\ nCalls = 0)
MayGoOn == cfg.stop = "no_tools" => nCalls > 0

TurnBudgetLeftPlusOne == turns <= MaxTurns       \* mutant: one turn too many
TurnBudgetLeft == turns < MaxTurns

----
Init ==
  /\ cfg \in [tools : ToolModes, stop : StopRules, queue : QueueModes, persist : PersistModes]
  /\ pc = "idle" /\ phase = "perceive" /\ outcome = "none"
  /\ turns = 0 /\ turnId = 0 /\ nCalls = 0
  /\ messages = <<>> /\ context = <<>> /\ pending = <<>> /\ found = <<>>
  /\ results = <<>> /\ arrival = <<>> /\ executed = {} /\ adrift = {}
  /\ task = [c \in 1 .. MaxCalls |-> "none"]
  /\ steering = <<>> /\ followUp = <<>> /\ aborted = FALSE
  /\ sent = [m \in Inputs |-> "unsent"] /\ late = {}

----
(***************************************************************************)
(* The client                                                              *)
(***************************************************************************)
Send(m, as) == sent[m] = "unsent" /\ sent' = [sent EXCEPT ![m] = as]

\* The run's copy of the conversation, with the new message.
FirstMessagesOnly(m) == <<User(m)>>              \* mutant: a prompt forgets the conversation
FirstMessages(m) == Append(context, User(m))

\* Agent.prompt: refused while a run is active, starts a run otherwise.
Prompt(m) ==
  /\ pc = "idle" /\ Cardinality({i \in Inputs : sent[i] = "prompt"}) < MaxPrompts
  /\ Send(m, "prompt")
  /\ messages' = FirstMessages(m)
  /\ pc' = "head" /\ phase' = "perceive" /\ outcome' = "running"
  /\ UNCHANGED <<cfg, turns, turnId, nCalls, context, pending, found, toolVars>>
  /\ UNCHANGED <<steering, followUp, aborted, late>>

\* The run has chosen to return and is still reporting its end.
SentLate(m) == late' = IF pc = "done" THEN late \cup {m} ELSE late

Steer(m) ==
  /\ Send(m, "steer") /\ SentLate(m)
  /\ steering' = Append(steering, m)
  /\ UNCHANGED <<cfg, runVars, toolVars, followUp, aborted>>

FollowUp(m) ==
  /\ Send(m, "follow_up") /\ SentLate(m)
  /\ followUp' = Append(followUp, m)
  /\ UNCHANGED <<cfg, runVars, toolVars, steering, aborted>>

\* Agent.abort sets the flag, which nothing ever clears; the cancellation of
\* the run's task is delivered later (DeliverCancel).
Abort ==
  /\ ~aborted
  /\ aborted' = TRUE
  /\ UNCHANGED <<cfg, runVars, toolVars, steering, followUp, sent, late>>

----
(***************************************************************************)
(* The end of a run: only a run that returned replaces the context         *)
(***************************************************************************)
EndRun(how) ==
  /\ pc' = "idle" /\ outcome' = how
  /\ context' = IF how \in {"ok", "max_turns"} THEN messages ELSE context
  /\ messages' = <<>> /\ pending' = <<>> /\ found' = <<>>
  /\ results' = <<>> /\ arrival' = <<>>
  /\ turns' = 0 /\ nCalls' = 0
  /\ UNCHANGED <<turnId, executed>>

\* The coroutine of a tool that the loop itself awaits goes down with it, tool
\* tasks do not.
CancelInLoop ==
  IF cfg.tools = "sequential" THEN task' = CancelLive /\ adrift' = adrift \cup CutOff
                              ELSE UNCHANGED <<task, adrift>>

\* CancelledRun, raised at the head of a turn, by complete_turn, or at the
\* start of a tool that the loop itself runs.
RaiseIfAborted ==
  /\ aborted
  /\ \/ pc \in {"head", "decide"}
     \/ \E c \in Calls : StartsInLoop(c)
  /\ EndRun("aborted")
  /\ UNCHANGED <<cfg, phase, task, adrift, clientVars>>

\* CancelledError, thrown into the run's task where it is suspended.
DeliverCancel ==
  /\ aborted /\ pc # "idle"
  /\ EndRun("aborted")
  /\ CancelInLoop
  /\ UNCHANGED <<cfg, phase, clientVars>>

\* The run is going to return: it still awaits the listeners of agent_end.
ChooseToReturn(as) ==
  /\ pc' = as
  /\ UNCHANGED <<cfg, turns, turnId, nCalls, messages, context, pending, found, outcome>>
  /\ UNCHANGED <<toolVars, clientVars>>

MaxTurnsReached ==
  /\ pc = "head" /\ ~aborted /\ ~TurnBudgetLeft
  /\ phase' = NextPhase(phase, "terminate")
  /\ ChooseToReturn("spent")

Return ==
  /\ pc \in {"done", "spent"}
  /\ EndRun(IF pc = "done" THEN "ok" ELSE "max_turns")
  /\ late' = {}
  /\ UNCHANGED <<cfg, phase, task, adrift, steering, followUp, aborted, sent>>

\* complete_turn raises: the exception leaves the loop and the run is lost.
CompleteTurnFails ==
  /\ pc = "decide"
  /\ EndRun("raised")
  /\ UNCHANGED <<cfg, phase, task, adrift, clientVars>>

----
(***************************************************************************)
(* A turn up to the assistant's answer                                     *)
(***************************************************************************)
BeginTurn ==
  /\ pc = "head" /\ ~aborted /\ TurnBudgetLeft
  /\ turns' = turns + 1 /\ turnId' = turnId + 1
  /\ messages' \in Transformed(messages \o UserMessages(pending))
  /\ pending' = <<>> /\ found' = <<>>
  /\ phase' = NextPhase(IF phase = "re_perceive" THEN NextPhase(phase, "continue") ELSE phase,
                        "context_ready")
  /\ pc' = "decide"
  /\ UNCHANGED <<cfg, nCalls, context, outcome, toolVars, clientVars>>

\* The assistant answers without tools.
AnswerWithoutTools ==
  /\ pc = "decide"
  /\ messages' = Append(messages, Assistant(turnId, 0))
  /\ nCalls' = 0
  /\ phase' = NextPhase(phase, "assistant_no_tools")
  /\ pc' = "boundary"
  /\ UNCHANGED <<cfg, turns, turnId, context, pending, found, outcome, toolVars, clientVars>>

\* The assistant asks for n tools.  In parallel mode every call gets a task.
AnswerWithTools(n) ==
  /\ pc = "decide"
  /\ messages' = Append(messages, Assistant(turnId, n))
  /\ nCalls' = n
  /\ phase' = NextPhase(phase, "assistant_with_tools")
  /\ pc' = "act"
  /\ results' = <<>> /\ arrival' = <<>>
  /\ task' = [c \in 1 .. MaxCalls |->
                IF cfg.tools = "parallel" /\ c <= n THEN "ready" ELSE "none"]
  /\ UNCHANGED <<cfg, turns, turnId, context, pending, found, outcome, executed, adrift, clientVars>>

\* stop_reason is "length": no call is run, each gets a failed result.
AnswerTruncated(n) ==
  /\ pc = "decide"
  /\ messages' = Append(messages, Assistant(turnId, n))
  /\ nCalls' = n
  /\ phase' = NextPhase(phase, "assistant_with_tools")
  /\ pc' = "act"
  /\ results' = [i \in 1 .. n |-> Result(i, "truncated")]
  /\ arrival' = <<>>
  /\ task' = [c \in 1 .. MaxCalls |-> "none"]
  /\ UNCHANGED <<cfg, turns, turnId, context, pending, found, outcome, executed, adrift, clientVars>>

----
(***************************************************************************)
(* Tools: _execute_one_tool, in the loop's coroutine (sequential) or in a  *)
(* task of its own (parallel)                                              *)
(***************************************************************************)
StartTool(c) ==
  /\ ~aborted
  /\ StartsInLoop(c) \/ task[c] = "ready"
  /\ task' = [task EXCEPT ![c] = "running"]
  /\ UNCHANGED <<cfg, runVars, results, arrival, executed, adrift, clientVars>>

RefuseToolSilently(c) ==                         \* mutant: nobody learns of the refusal
  /\ aborted
  /\ task[c] \in Live
  /\ task' = [task EXCEPT ![c] = "raised"]
  /\ UNCHANGED <<cfg, runVars, results, arrival, executed, adrift, clientVars>>

\* A task that finds the run aborted when it starts ends with CancelledRun;
\* so does a running tool that notices the abort.
RefuseTool(c) ==
  /\ aborted
  /\ task[c] \in Live
  /\ task' = [task EXCEPT ![c] = "raised"]
  /\ arrival' = IF pc = "act" THEN Append(arrival, c) ELSE arrival
  /\ UNCHANGED <<cfg, runVars, results, executed, adrift, clientVars>>

\* The tool does what it was asked to do ...
Work(c) ==
  /\ task[c] = "running"
  /\ task' = [task EXCEPT ![c] = "worked"]
  /\ executed' = executed \cup {<<turnId, c>>}
  /\ UNCHANGED <<cfg, runVars, results, arrival, adrift, clientVars>>

\* ... and returns; a tool that is unknown or fails returns without working.
FinishTool(c) ==
  /\ task[c] \in {"running", "worked"}
  /\ task' = [task EXCEPT ![c] = "done"]
  /\ arrival' = IF pc = "act" THEN Append(arrival, c) ELSE arrival
  /\ UNCHANGED <<cfg, runVars, results, executed, adrift, clientVars>>

\* What a cancelled tool had started comes to its end, with or without effect.
EndAdrift(d) ==
  /\ d \in adrift
  /\ adrift' = adrift \ {d}
  /\ executed' \in {executed, executed \cup {d}}
  /\ UNCHANGED <<cfg, runVars, results, arrival, task, clientVars>>

----
(***************************************************************************)
(* The loop takes the results                                              *)
(***************************************************************************)
\* A result is taken and no steering message is waiting.
TakeResult ==
  /\ pc = "act" /\ arrival # <<>> /\ task[Head(arrival)] = "done"
  /\ steering = <<>>
  /\ results' = Append(results, Result(Head(arrival), "executed"))
  /\ arrival' = Tail(arrival)
  /\ UNCHANGED <<cfg, runVars, task, executed, adrift, clientVars>>

\* A result is taken and steering is found: the coroutines that are not done
\* are cancelled, the calls without a result are going to be reported as skipped.
TakeResultSteered ==
  /\ pc = "act" /\ arrival # <<>> /\ task[Head(arrival)] = "done"
  /\ steering # <<>>
  /\ results' = Append(results, Result(Head(arrival), "executed"))
  /\ arrival' = <<>>
  /\ found' = Drained(steering) /\ steering' = Left(steering)
  /\ task' = CancelLive /\ adrift' = adrift \cup CutOff
  /\ pc' = "skip"
  /\ UNCHANGED <<cfg, phase, turns, turnId, nCalls, messages, context, pending, outcome>>
  /\ UNCHANGED <<executed, followUp, aborted, sent, late>>

\* The task ended with CancelledRun: the exception leaves the loop.
TakeRefusal ==
  /\ pc = "act" /\ arrival # <<>> /\ task[Head(arrival)] = "raised"
  /\ EndRun("aborted")
  /\ UNCHANGED <<cfg, phase, task, adrift, clientVars>>

\* for call in calls: report the next call that has no result as skipped.
SkipNext(c) ==
  /\ pc = "skip"
  /\ c \in Unanswered /\ \A d \in Unanswered : c <= d
  /\ results' = Append(results, Result(c, "skipped"))
  /\ UNCHANGED <<cfg, runVars, arrival, task, executed, adrift, clientVars>>

\* Every call has its result: the tool messages enter the transcript.
AppendResults ==
  /\ pc \in {"act", "skip"} /\ Gathered
  /\ phase' = NextPhase(NextPhase(phase, "tools_done"), "results_appended")
  /\ messages' = messages \o [i \in DOMAIN results |-> ToolMessage(turnId, results[i])]
  /\ results' = <<>>
  /\ task' = [c \in DOMAIN task |-> IF task[c] \in Live THEN task[c] ELSE "none"]
  /\ pc' = "boundary"
  /\ UNCHANGED <<cfg, turns, turnId, nCalls, context, pending, found, outcome>>
  /\ UNCHANGED <<arrival, executed, adrift, clientVars>>

----
(***************************************************************************)
(* The boundary between two turns                                          *)
(***************************************************************************)
TurnWith(msgs) ==
  /\ pending' = msgs /\ found' = <<>> /\ pc' = "head"
  /\ UNCHANGED <<cfg, phase, turns, turnId, nCalls, messages, context, outcome, toolVars>>

StopAfterTurnUnasked ==                          \* mutant: the follow-up queue is not asked
  /\ pc = "boundary" /\ MayStop
  /\ ChooseToReturn("done") /\ UNCHANGED phase

\* The turn stops the run: the follow-up queue is asked once more.
StopAfterTurn ==
  /\ pc = "boundary" /\ MayStop /\ followUp = <<>>
  /\ ChooseToReturn("done") /\ UNCHANGED phase

FollowUpAfterStop ==
  /\ pc = "boundary" /\ MayStop /\ followUp # <<>>
  /\ TurnWith(Drained(followUp)) /\ followUp' = Left(followUp)
  /\ UNCHANGED <<steering, aborted, sent, late>>

\* Steering found while acting comes first, then the queue.
SteerNextTurn ==
  /\ pc = "boundary" /\ MayGoOn
  /\ \/ found # <<>> /\ TurnWith(found) /\ UNCHANGED steering
     \/ /\ found = <<>> /\ steering # <<>>
        /\ TurnWith(Drained(steering)) /\ steering' = Left(steering)
  /\ UNCHANGED <<followUp, aborted, sent, late>>

Unsteered == pc = "boundary" /\ MayGoOn /\ found = <<>> /\ steering = <<>>

\* The model has tool results to look at.
NextTurn ==
  /\ Unsteered /\ nCalls > 0
  /\ TurnWith(<<>>)
  /\ UNCHANGED clientVars

\* Nothing is left to do: follow-ups, or the end of the run.
FollowUpAtRest ==
  /\ Unsteered /\ nCalls = 0 /\ followUp # <<>>
  /\ TurnWith(Drained(followUp)) /\ followUp' = Left(followUp)
  /\ UNCHANGED <<steering, aborted, sent, late>>

EndAtRest ==
  /\ Unsteered /\ nCalls = 0 /\ followUp = <<>>
  /\ ChooseToReturn("done") /\ UNCHANGED phase

----
Client ==
  \/ \E m \in Inputs : Prompt(m) \/ Steer(m) \/ FollowUp(m)
  \/ Abort

Ends == RaiseIfAborted \/ MaxTurnsReached \/ CompleteTurnFails \/ Return

Answers ==
  \/ AnswerWithoutTools
  \/ \E n \in 1 .. MaxCalls : AnswerWithTools(n) \/ AnswerTruncated(n)

Tool(c) == StartTool(c) \/ RefuseTool(c) \/ Work(c) \/ FinishTool(c)

Gather ==
  \/ TakeResult \/ TakeResultSteered \/ TakeRefusal
  \/ \E c \in Calls : SkipNext(c)
  \/ AppendResults

Boundary ==
  \/ StopAfterTurn \/ FollowUpAfterStop
  \/ SteerNextTurn \/ NextTurn \/ FollowUpAtRest \/ EndAtRest

Loop == Ends \/ BeginTurn \/ Answers \/ Gather \/ Boundary

Next ==
  \/ Client
  \/ Loop
  \/ DeliverCancel
  \/ \E c \in 1 .. MaxCalls : Tool(c)
  \/ \E d \in adrift : EndAdrift(d)

Spec == Init /\ [][Next]_vars

\* The event loop keeps running whichever coroutine is ready, the provider
\* answers or raises, and every tool returns in the end (they have timeouts).
\* Nothing obliges a client to send, steer or abort, nor a tool to work.
Fairness ==
  /\ WF_vars(Loop)
  /\ \A c \in 1 .. MaxCalls : WF_vars(StartTool(c) \/ RefuseTool(c)) /\ WF_vars(FinishTool(c))

FairSpec == Spec /\ Fairness

----
(***************************************************************************)
(* Properties                                                              *)
(***************************************************************************)
TaskStates == {"none", "ready", "running", "worked", "done", "raised", "cancelled"}
ResultSet == [call : 1 .. MaxCalls, how : {"executed", "skipped", "truncated"}]
Message ==
  [role : {"system"}]
    \cup [role : {"user"}, input : Inputs]
    \cup [role : {"assistant"}, turn : Nat, calls : 0 .. MaxCalls]
    \cup [role : {"tool"}, turn : Nat, call : 1 .. MaxCalls,
          how : {"executed", "skipped", "truncated"}]

\* The type of every variable.  The phase is never "invalid": the loop fires
\* no event that the table of fsm.py refuses, whatever the interleaving, so
\* InvalidPhaseTransition is never raised by a run.
TypeOK ==
  /\ cfg \in [tools : ToolModes, stop : StopRules, queue : QueueModes, persist : PersistModes]
  /\ pc \in {"idle", "head", "decide", "act", "skip", "boundary", "done", "spent"}
  /\ phase \in Phases
  /\ turns \in 0 .. MaxTurns /\ turnId \in Nat /\ nCalls \in 0 .. MaxCalls
  /\ messages \in Seq(Message) /\ context \in Seq(Message)
  /\ pending \in Seq(Inputs) /\ found \in Seq(Inputs)
  /\ results \in Seq(ResultSet) /\ arrival \in Seq(1 .. MaxCalls)
  /\ task \in [1 .. MaxCalls -> TaskStates]
  /\ steering \in Seq(Inputs) /\ followUp \in Seq(Inputs)
  /\ aborted \in BOOLEAN
  /\ outcome \in {"none", "running", "ok", "max_turns", "aborted", "raised"}
  /\ sent \in [Inputs -> {"unsent", "prompt", "steer", "follow_up"}] /\ late \subseteq Inputs
  /\ executed \subseteq (Nat \X (1 .. MaxCalls)) /\ adrift \subseteq (Nat \X (1 .. MaxCalls))

\* Each assistant message is followed, before anything else, by exactly one
\* tool message for each of its calls: what a chat completion API demands of
\* the transcript.
Paired(s) ==
  /\ \A i \in DOMAIN s : s[i].role = "assistant" =>
       /\ i + s[i].calls <= Len(s)
       /\ \A k \in i + 1 .. i + s[i].calls : s[k].role = "tool" /\ s[k].turn = s[i].turn
       /\ {s[k].call : k \in i + 1 .. i + s[i].calls} = 1 .. s[i].calls
  /\ \A k \in DOMAIN s : s[k].role = "tool" =>
       \E i \in 1 .. k - 1 : s[i].role = "assistant" /\ k <= i + s[i].calls

\* The transcript is well paired whenever the model is called or the run may
\* end with it, and so is the context every later run starts from, whatever
\* was skipped, truncated, steered, aborted or cut (loop.py:121, 148-185).
EveryCallAnsweredOnce ==
  /\ Paired(context)
  /\ pc \in {"head", "decide", "boundary", "done", "spent"} => Paired(messages)

\* The calls whose tool message or result says how.
Reported(how) ==
  {<<s.turn, s.call>> : s \in {msg \in {messages[i] : i \in DOMAIN messages}
                                      \cup {context[i] : i \in DOMAIN context} :
                                 msg.role = "tool" /\ msg.how = how}}
    \cup {<<turnId, r.call>> : r \in {r \in {results[i] : i \in DOMAIN results} : r.how = how}}

\* A call reported as truncated never ran; one reported as skipped never ran
\* when the tools run one after the other (loop.py:260, 335).
NotRunMeansNotRun ==
  /\ Reported("truncated") \cap executed = {}
  /\ cfg.tools = "sequential" => Reported("skipped") \cap executed = {}

\* The same claim for parallel tools (loop.py:302: "skipped due to steering
\* interrupt").
SkippedMeansNotRun == Reported("skipped") \cap executed = {}

\* No coroutine of a tool is alive outside the part of the turn that waits for
\* it, unless parallel tasks were left behind by an abort (loop.py:278-317).
\* What goes on all the same was cut off: in sequential mode by an abort, in
\* parallel mode also by steering, and then no report says that it was done or
\* that it was never tried.
OnlyCutOffToolsGoOn ==
  /\ pc # "act" /\ (cfg.tools = "sequential" \/ ~aborted)
       => \A c \in 1 .. MaxCalls : task[c] \notin Live
  /\ cfg.tools = "sequential" /\ ~aborted => adrift = {}
  /\ adrift \cap (Reported("executed") \cup Reported("truncated")) = {}

\* Inputs of the client that the agent still holds somewhere.
ElementsOf(q) == {q[i] : i \in DOMAIN q}
InputsIn(s) == {msg.input : msg \in {x \in ElementsOf(s) : x.role = "user"}}
Held ==
  ElementsOf(steering) \cup ElementsOf(followUp) \cup ElementsOf(pending) \cup ElementsOf(found)
    \cup InputsIn(messages) \cup InputsIn(context)

StartsWithSummary(s) == s # <<>> /\ Head(s) = Summary

\* What goes with the start of the transcript that a summary replaces at the
\* head of a turn, and with the start of the conversation when such a run
\* returns.
Summarised ==
  \/ /\ cfg.persist /\ pc = "head" /\ StartsWithSummary(messages')
     /\ Held \ Held' \subseteq InputsIn(messages) \cup ElementsOf(pending)
  \/ /\ cfg.persist /\ pc = "done" /\ StartsWithSummary(context')
     /\ Held \ Held' \subseteq InputsIn(context)

\* A steering or follow-up message leaves its queue only for the transcript:
\* no step loses one unless it ends the run without success, and from the
\* transcript it goes only by being summarised.  A rule that stops after a
\* turn with tools does lose steering (loop.py:191-202), hence the first
\* disjunct.
InputsKept ==
  [][\/ cfg.stop = "any"
     \/ outcome' \in {"max_turns", "aborted", "raised"}
     \/ Held \subseteq Held'
     \/ Summarised]_vars

BeginsWith(s, t) == Len(t) <= Len(s) /\ \A i \in 1 .. Len(t) : s[i] = t[i]

\* A run never rewrites the conversation it was given: the committed context
\* only grows, and aborted or failed runs leave no trace in it (agent.py:140).
\* Where the transform is written back (loop.py:121) a summary may replace its
\* start, and what is left of it is an unbroken tail.
ContextGrowsOrIsCut ==
  [][\/ BeginsWith(context', context)
     \/ /\ cfg.persist
        /\ \E k \in 2 .. Len(context) + 1 : BeginsWith(context', Cut(context, k))]_vars

\* A run that reports success has asked its queues: a follow-up that still waits
\* came while the run was reporting its end (loop.py:194-200, 214-221), and so
\* did steering where no stop rule passes its queue by.
OnlyLateInputsWait ==
  [][outcome = "running" /\ outcome' = "ok"
       => /\ ElementsOf(followUp) \subseteq late
          /\ cfg.stop = "absent" => ElementsOf(steering) \subseteq late]_vars

\* Every run ends: neither steering nor follow-ups nor an abort at a bad
\* moment keeps it going or leaves it waiting for a task that will not finish.
RunEnds == pc # "idle" ~> pc = "idle"

====
