---- MODULE Jobs ----
(***************************************************************************)
(* The commands of a sandbox (sandbox/local.py and docker.py): background  *)
(* jobs (job_manager.py), which the shell tool starts, polls and kills,    *)
(* and commands that are waited for, with a timeout and a stop.  Tools of  *)
(* one turn run in parallel; a steering message cancels those that run.    *)
(* The end of a run closes the sandbox and with it the jobs it knows; the  *)
(* tools of a parallel turn that Ctrl-C ends are not waited for.           *)
(*                                                                         *)
(* Abstracted: output and its ring buffer; a container is its process.     *)
(***************************************************************************)
EXTENDS Integers, FiniteSets, Sequences, SequencesExt

CONSTANT Commands    \* those the agent may run

VARIABLES
  backend,     \* "local" or "docker"
  command,     \* per command: its process, how the tool stands to it, what the manager has noted
  stopped,     \* the cancellation token
  sandbox,     \* "open", "closing", "closed"
  killList     \* kill_all: the jobs still to be killed

jobVars == <<backend, command, stopped, sandbox, killList>>

\* tool: "none", "starting", "waits" (run), "kills", "left", "ends".  steered: cut off
\* by a steering message, or still at work when the run had ended.
Unused == [kind |-> "none", proc |-> "none", code |-> "none", tool |-> "none",
           known |-> FALSE, status |-> "running", watched |-> TRUE, old |-> FALSE, steered |-> FALSE]

JobInit ==
  /\ backend \in {"local", "docker"}
  /\ command = [c \in Commands |-> Unused]
  /\ stopped = FALSE /\ sandbox = "open" /\ killList = <<>>

Set(c, new) == command' = [command EXCEPT ![c] = new]
Rest == UNCHANGED <<backend, stopped, sandbox, killList>>
Running == {c \in Commands : command[c].tool \in {"starting", "waits", "kills"}}

----
(***************************************************************************)
(* Jobs                                                                    *)
(***************************************************************************)
ExpiredByAge(c) == command[c].known /\ command[c].old           \* mutant: what still runs, too
Expired(c) == command[c].known /\ command[c].old /\ command[c].status # "running"

\* _cleanup_expired, before a start and a poll; containers do not expire.
CleanedUp ==
  [c \in Commands |-> IF backend = "local" /\ Expired(c)
                      THEN [command[c] EXCEPT !.known = FALSE] ELSE command[c]]

\* The process of a tool that begins it, which nobody waits for once the run is over.
Begun(kind, tool) ==
  [Unused EXCEPT !.kind = kind, !.proc = "up", !.tool = tool, !.steered = sandbox # "open"]

\* create_sandbox makes the manager of the local sandbox without a token, and the run
\* sets it on the sandbox only: docker alone refuses to start a job after a stop.
StartJob(c) ==
  /\ command[c].kind = "none"
  /\ backend = "docker" => ~stopped
  /\ command' = [CleanedUp EXCEPT ![c] = Begun("job", "starting")]
  /\ Rest

JobStarted(c) ==
  /\ command[c].tool = "starting"
  /\ Set(c, [command[c] EXCEPT !.tool = "none", !.known = TRUE])
  /\ Rest

\* Noted by _watch_proc, or by _refresh_status of a poll.
Noted(job) ==
  IF job.proc = "exited" /\ job.status = "running" THEN [job EXCEPT !.status = job.code] ELSE job

Watch(c) ==
  /\ backend = "local" /\ command[c].kind = "job" /\ command[c].tool # "starting"
  /\ command[c].proc = "exited" /\ command[c].watched
  /\ Set(c, [Noted(command[c]) EXCEPT !.watched = FALSE])
  /\ Rest

\* A poll of a job that is not known changes nothing but that the old ones go.
PollJob(c) ==
  /\ backend = "local" /\ command[c].kind = "job"
  /\ command' = IF CleanedUp[c].known THEN [CleanedUp EXCEPT ![c] = Noted(@)] ELSE CleanedUp
  /\ Rest

\* kill: SIGKILL and a wait of five seconds at most, or docker rm -f, by a tool or by
\* kill_all.
Killed(job) == [job EXCEPT !.proc = IF @ = "up" THEN "dying" ELSE @]

KillJob(c) ==
  /\ command[c].known /\ command[c].tool = "none"
  /\ \/ UNCHANGED killList
     \/ sandbox = "closing" /\ killList # <<>> /\ c = Head(killList) /\ killList' = Tail(killList)
  /\ Set(c, [Killed(command[c]) EXCEPT !.tool = "kills", !.known = backend = "local"])
  /\ UNCHANGED <<backend, stopped, sandbox>>

\* A job that has gone since the list was made.
KillUnknown ==
  /\ sandbox = "closing" /\ killList # <<>> /\ ~command[Head(killList)].known
  /\ killList' = Tail(killList)
  /\ UNCHANGED <<backend, command, stopped, sandbox>>

\* The watcher is cancelled, and the status is "killed" whatever it was.
JobKilled(c) ==
  /\ command[c].tool = "kills"
  /\ Set(c, [command[c] EXCEPT !.tool = "none", !.watched = FALSE, !.status = "killed"])
  /\ Rest

----
(***************************************************************************)
(* Commands that are waited for                                            *)
(***************************************************************************)
RunCommand(c) ==
  /\ command[c].kind = "none" /\ ~stopped
  /\ Set(c, Begun("run", "waits"))
  /\ Rest

\* It ends by itself.
CommandDone(c) ==
  /\ command[c].tool = "waits" /\ command[c].proc = "exited"
  /\ Set(c, [command[c] EXCEPT !.tool = "ends"])
  /\ Rest

\* The timeout, or the stop: the process is killed and waited for.
CommandKilled(c) ==
  /\ command[c].tool = "waits"
  /\ Set(c, [command[c] EXCEPT !.tool = "ends", !.proc = "exited",
                               !.code = IF @ = "none" THEN "failed" ELSE @])
  /\ Rest

----
(***************************************************************************)
(* The world, and the end of the run                                       *)
(***************************************************************************)
ProcessExits(c) ==
  /\ command[c].proc \in {"up", "dying"}
  /\ \E code \in IF command[c].proc = "dying" THEN {"failed"} ELSE {"completed", "failed"} :
       Set(c, [command[c] EXCEPT !.proc = "exited", !.code = code])
  /\ Rest

GrowOld(c) ==
  /\ command[c].kind = "job" /\ ~command[c].old
  /\ Set(c, [command[c] EXCEPT !.old = TRUE])
  /\ Rest

Stop ==
  /\ ~stopped /\ sandbox = "open"
  /\ stopped' = TRUE
  /\ UNCHANGED <<backend, command, sandbox, killList>>

\* A steering message cancels the tools of the turn, and Ctrl-C the one that runs alone.
\* A process that is being made is closed by asyncio, a container is not; a command's
\* process is left as it is.
Steer ==
  /\ sandbox = "open" /\ Running # {}
  /\ command' = [c \in Commands |->
       IF command[c].tool = "starting" /\ backend = "local" THEN [Killed(command[c]) EXCEPT !.tool = "left"]
       ELSE IF command[c].tool \in {"starting", "waits"} THEN [command[c] EXCEPT !.tool = "left", !.steered = TRUE]
       ELSE IF command[c].tool = "kills" THEN [command[c] EXCEPT !.tool = "none"]
       ELSE command[c]]
  /\ Rest

\* sandbox.close in the finally of the run, whatever its tools are at: those that
\* Ctrl-C or a steering message has cut off may go on, and begin commands, beside it.
CloseSandbox ==
  /\ sandbox = "open"
  /\ sandbox' = "closing"
  /\ killList' = SetToSeq({c \in Commands : command[c].known})
  /\ command' = [c \in Commands |-> IF command[c].tool \in {"starting", "waits"}
                                    THEN [command[c] EXCEPT !.steered = TRUE] ELSE command[c]]
  /\ UNCHANGED <<backend, stopped>>

Closed ==
  /\ sandbox = "closing" /\ killList = <<>> /\ \A c \in Commands : command[c].tool # "kills"
  /\ sandbox' = "closed"
  /\ UNCHANGED <<backend, command, stopped, killList>>

JobNext ==
  \/ Stop \/ Steer \/ CloseSandbox \/ KillUnknown \/ Closed
  \/ \E c \in Commands :
       \/ StartJob(c) \/ JobStarted(c) \/ Watch(c) \/ PollJob(c) \/ KillJob(c) \/ JobKilled(c)
       \/ RunCommand(c) \/ CommandDone(c) \/ CommandKilled(c) \/ ProcessExits(c) \/ GrowOld(c)

JobSpec == JobInit /\ [][JobNext]_jobVars

----
(***************************************************************************)
(* Properties                                                              *)
(***************************************************************************)
\* When the sandbox is closed every process it started has exited or been killed, but
\* for those of a tool that a steering message cut off or that was still at work when
\* the run ended, which nobody looks after any more (base.py:40, job_manager.py:123).
NothingLeftRunning ==
  sandbox = "closed" =>
    \A c \in Commands : command[c].proc = "up" => command[c].steered
====
