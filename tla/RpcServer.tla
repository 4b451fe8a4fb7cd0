---- MODULE RpcServer ----
(***************************************************************************)
(* JSON-RPC over stdio (coderking_transport/rpc, rpc.py): one line after   *)
(* the other is read and handled to its end, while the tasks run and a     *)
(* forwarder per task passes on its events.  The end of the input ends the *)
(* process, whatever runs.                                                 *)
(*                                                                         *)
(* Abstracted: what a line says, as a method and a task, "bad" if it is    *)
(* refused for what it says itself; of the responses only that a wait is over (a line *)
(* without an id, or one that cannot be parsed and whose id is therefore   *)
(* never read, gets none); of a task (TaskRun) only whether it works, asks *)
(* or is over; events, sessions and settings.                              *)
(***************************************************************************)
EXTENDS Naturals, Sequences

CONSTANTS
  Runs,       \* the tasks that may be made, in any order
  MaxLines    \* bound of the model: lines of input

ASSUME RpcAssumption == MaxLines \in Nat

VARIABLES
  input,      \* the lines sent and not yet read
  sent,       \* history: lines sent so far
  serving,    \* the line being handled
  told,       \* history: tasks of the service that agent.wait_idle has called idle
  run,        \* per task: where it stands, whether it may ask, whether it was stopped
  idleEvents, \* _idle_events: tasks whose forwarder is at work
  silent,     \* tasks whose forwarder failed: nothing more of them is passed on
  process     \* whether the service runs

rpcVars == <<input, sent, serving, told, run, idleEvents, silent, process>>

NoLine == [method |-> "none", run |-> "none"]
Methods == {"prompt", "retry", "wait_idle", "abort", "answer", "mutate", "query", "bad"}
Line == [method : Methods, run : Runs \union {"none"}]

Fresh == [at |-> "fresh", asks |-> FALSE, stopped |-> FALSE, verdict |-> "none"]
Known(t) == t \in Runs /\ run[t].at # "fresh"
Finished(t) == run[t].at \in {"over", "forwarded"}

RpcInit ==
  /\ input = <<>> /\ sent = 0 /\ serving = NoLine
  /\ run = [t \in Runs |-> Fresh]
  /\ told = {} /\ idleEvents = {} /\ silent = {} /\ process = "up"

----
\* The client sends a line, also one that cannot be parsed, that names no method or no
\* task of the service, or whose parameters will not do.
SendLine ==
  /\ process = "up" /\ sent < MaxLines
  /\ \E line \in Line :
       /\ \/ line.run = "none" /\ line.method \in {"prompt", "bad", "wait_idle"}
          \/ Known(line.run) /\ line.method \notin {"prompt", "bad"}
       /\ input' = Append(input, line)
  /\ sent' = sent + 1
  /\ UNCHANGED <<serving, told, run, idleEvents, silent, process>>

\* serve_forever reads a line when the one before has been handled.
ReadLine ==
  /\ process = "up" /\ serving = NoLine /\ input # <<>>
  /\ serving' = Head(input) /\ input' = Tail(input)
  /\ UNCHANGED <<sent, told, run, idleEvents, silent, process>>

\* The input ends: run_rpc_server returns, and with it the process.
EndOfInput ==
  /\ process = "up" /\ serving = NoLine /\ input = <<>>
  /\ process' = "ended"
  /\ UNCHANGED <<input, sent, serving, told, run, idleEvents, silent>>

\* handle_request is through, with a result or an error, and the next line is read.
Finish ==
  /\ serving' = NoLine
  /\ UNCHANGED <<input, sent, silent, process>>

Serves(methods) == process = "up" /\ serving.method \in methods

\* A handler that raises: no such method, bad parameters, no such task, a task that
\* is not in the state for it.
Retryable(t) == Finished(t) /\ run[t].verdict # "succeeded"
Acceptable(line) ==
  CASE line.method = "bad"                      -> FALSE
    [] line.method \in {"prompt", "wait_idle"} -> TRUE
    [] line.method = "retry"                    -> Known(line.run) /\ Retryable(line.run)
    [] line.method = "mutate"                   -> Known(line.run) /\ Finished(line.run)
    [] OTHER                                    -> Known(line.run)

Refuse ==
  /\ Serves(Methods) /\ ~Acceptable(serving)
  /\ Finish
  /\ UNCHANGED <<told, run, idleEvents>>

\* agent.prompt and agent.retry make a task and its forwarder.
Launch ==
  /\ Serves({"prompt", "retry"}) /\ Acceptable(serving)
  /\ \E t \in Runs, asks \in BOOLEAN :
       /\ run[t].at = "fresh"
       /\ run' = [run EXCEPT ![t] = [Fresh EXCEPT !.at = "works", !.asks = asks]]
       /\ idleEvents' = idleEvents \union {t}
  /\ Finish
  /\ UNCHANGED told

\* agent.abort: the task is told to stop, and a question of it is denied.
Abort ==
  /\ Serves({"abort"}) /\ Acceptable(serving)
  /\ run' = IF Finished(serving.run) THEN run
            ELSE [run EXCEPT ![serving.run].stopped = TRUE, ![serving.run].at = "works"]
  /\ Finish
  /\ UNCHANGED <<told, idleEvents>>

\* agent.approve and agent.reject; without a question they do nothing.
AnswerQuestion ==
  /\ Serves({"answer"}) /\ Acceptable(serving)
  /\ run' = IF run[serving.run].at = "asks" THEN [run EXCEPT ![serving.run].at = "works"] ELSE run
  /\ Finish
  /\ UNCHANGED <<told, idleEvents>>

\* rollback, accept, rollback_checkpoint in a thread, and everything that only reads.
Serve ==
  /\ Serves({"mutate", "query"}) /\ Acceptable(serving)
  /\ Finish
  /\ UNCHANGED <<told, run, idleEvents>>

\* agent.wait_idle: at once if nothing is forwarded for the task, known or not.
WaitIdle ==
  /\ Serves({"wait_idle"}) /\ serving.run \notin idleEvents
  /\ told' = told \union {t \in Runs : t = serving.run /\ Known(t)}
  /\ Finish
  /\ UNCHANGED <<run, idleEvents>>

----
\* The task of TaskRun: it asks, goes on, ends; also after a stop it may ask once more.
Ask(t) ==
  /\ process = "up" /\ run[t].at = "works" /\ run[t].asks
  /\ run' = [run EXCEPT ![t].at = "asks"]
  /\ UNCHANGED <<input, sent, serving, told, idleEvents, silent, process>>

\* runner() puts the end mark whatever the run does.
EndOfTask(t) ==
  /\ process = "up" /\ run[t].at = "works"
  /\ \E how \in IF run[t].stopped THEN {"interrupted"} ELSE {"succeeded", "failed"} :
       run' = [run EXCEPT ![t].at = "over", ![t].verdict = how]
  /\ UNCHANGED <<input, sent, serving, told, idleEvents, silent, process>>

ForwardedForgotten(t) == idleEvents                    \* mutant: the event is never set
ForwardedAll(t) == {}                                  \* mutant: one event for all tasks
ForwardedOf(t) == idleEvents \ {t}

\* _forward_events sees the end mark: who waits goes on, and the entry is dropped.
Forwarded(t) ==
  /\ process = "up" /\ run[t].at = "over" /\ t \in idleEvents
  /\ run' = [run EXCEPT ![t].at = "forwarded"]
  /\ idleEvents' = ForwardedOf(t)
  /\ UNCHANGED <<input, sent, serving, told, silent, process>>

\* A record cannot be written and ends _forward_events: its finally does the same,
\* whether the task is over or goes on.
ForwarderFails(t) ==
  /\ process = "up" /\ t \in idleEvents
  /\ silent' = silent \union {t}
  /\ idleEvents' = ForwardedOf(t)
  /\ UNCHANGED <<input, sent, serving, told, run, process>>

ServerStep ==
  ReadLine \/ Refuse \/ Launch \/ Abort \/ AnswerQuestion \/ Serve \/ WaitIdle
RunStep(t) == EndOfTask(t) \/ Forwarded(t)

RpcNext ==
  \/ SendLine \/ EndOfInput \/ ServerStep
  \/ \E t \in Runs : Ask(t) \/ RunStep(t) \/ ForwarderFails(t)

\* The event loop runs the server and the forwarders, and a task that does not ask
\* comes to its end (TaskRun: TaskEnds).
RpcFairness == WF_rpcVars(ServerStep) /\ \A t \in Runs : WF_rpcVars(RunStep(t))
RpcSpec == RpcInit /\ [][RpcNext]_rpcVars /\ RpcFairness

----
(***************************************************************************)
(* Properties                                                              *)
(***************************************************************************)
\* A client is told that a task is idle when it is over and every event of it has been
\* passed on, whatever other tasks end or fail meanwhile; only a forwarder that failed
\* makes the answer early (rpc.py:107, 135).
IdleMeansOver == \A t \in told : run[t].at = "forwarded" \/ t \in silent

\* A client that waits for a task holds up the server for no other reason than that
\* the task asks the user something (rpc.py:135): nothing else can block it for ever.
WaitEndsOrUserIsAsked ==
  \A t \in Runs :
    Serves({"wait_idle"}) /\ serving.run = t ~> \/ ~(Serves({"wait_idle"}) /\ serving.run = t)
                                                \/ run[t].at = "asks"
====
