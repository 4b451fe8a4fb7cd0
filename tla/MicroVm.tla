---- MODULE MicroVm ----
(***************************************************************************)
(* The Micro-VM sandbox of one run (sandbox/microvm.py, firecracker.py).   *)
(* The first command creates the VM: it is booted, the workspace is        *)
(* uploaded, and only then later commands find it.  Commands may run in    *)
(* parallel; a steering message, Ctrl-C or the end of the process cancels  *)
(* them, and what they had handed to a thread goes on.  A run may end with *)
(* parallel commands still on their way (AgentLoop, adrift).               *)
(*                                                                         *)
(* A VM is known by the command that created it, but every Firecracker VM  *)
(* is reached at one address, that of the configuration.  Abstracted: commands,    *)
(* files, the two calls by which a VM is configured and waited for.        *)
(* External: E2B, Firecracker and the guest.                               *)
(***************************************************************************)
EXTENDS Naturals

CONSTANTS Shells, NoVm    \* the commands of the run; no session
ASSUME MicroVmAssumption == NoVm \notin Shells

VARIABLES
  provider,    \* "e2b" or "firecracker"
  parallel,    \* tool_execution
  vm,          \* per command, the VM it creates: "none", "boots", "up", "killed", "refused"
  filled,      \* VMs the whole workspace was uploaded to
  shell,       \* per command: [at, in]: where it stands, the VM it runs in
  slot,        \* MicroVmSandbox._session
  box,         \* "open", "ending" after Ctrl-C, "closing", "closed", "abandoned"
  lost         \* history: commands cancelled while creating a VM, creating one at the same time
               \* as another command, or when the sandbox was closed or later

vmVars == <<provider, parallel, vm, filled, shell, slot, box, lost>>

MicroVmInit ==
  /\ provider \in {"e2b", "firecracker"} /\ parallel \in BOOLEAN
  /\ vm = [c \in Shells |-> "none"] /\ filled = {}
  /\ shell = [c \in Shells |-> [at |-> "unused", in |-> NoVm]]
  /\ slot = NoVm /\ box = "open" /\ lost = {}

Creating == {c \in Shells : shell[c].at \in {"boots", "uploads", "kills"}}
Busy == Creating \union {c \in Shells : shell[c].at = "runs"}
To(c, place) == shell' = [shell EXCEPT ![c].at = place]
RunIn(c, v) == shell' = [shell EXCEPT ![c] = [at |-> "runs", in |-> v]]

\* Where a command to v may arrive: any Firecracker VM that is up may have the address.
Up == {c \in Shells : vm[c] = "up"}
Answering(v) == IF provider = "e2b" \/ Up = {} THEN {v} ELSE Up

----
(***************************************************************************)
(* A command                                                               *)
(***************************************************************************)
\* A parallel command the run has not waited for may begin when all is closed.
MayBegin(c) ==
  /\ shell[c].at = "unused" /\ box # "abandoned"
  /\ parallel \/ (box = "open" /\ Busy = {})

RunInSession(c) ==
  /\ MayBegin(c) /\ slot # NoVm
  /\ \E v \in Answering(slot) : RunIn(c, v)
  /\ UNCHANGED <<provider, parallel, vm, filled, slot, box, lost>>

\* ensure_started: without a session, also when another command is creating one.
BeginCreation(c) ==
  /\ MayBegin(c) /\ slot = NoVm
  /\ To(c, "boots") /\ vm' = [vm EXCEPT ![c] = "boots"]
  /\ lost' = IF Creating = {} /\ box = "open" THEN lost ELSE lost \union Creating \union {c}
  /\ UNCHANGED <<provider, parallel, filled, slot, box>>

\* The VM is up, whether the command still waits for it or not.
Boots(c) ==
  /\ vm[c] = "boots"
  /\ vm' = [vm EXCEPT ![c] = "up"]
  /\ shell' = IF shell[c].at = "boots" THEN [shell EXCEPT ![c].at = "uploads"] ELSE shell
  /\ UNCHANGED <<provider, parallel, filled, slot, box, lost>>

\* wait_for_ssh: the VM that answers at the address is another one.
AnotherAnswers(c) ==
  /\ provider = "firecracker" /\ shell[c].at = "boots" /\ Up # {}
  /\ To(c, "uploads")
  /\ UNCHANGED <<provider, parallel, vm, filled, slot, box, lost>>

\* The hosted VM is not created; the process of the other one is there and is killed.
BootFails(c) ==
  /\ vm[c] = "boots"
  /\ provider = "firecracker" => shell[c].at = "boots"
  /\ vm' = [vm EXCEPT ![c] = "killed"]
  /\ shell' = IF shell[c].at = "boots" THEN [shell EXCEPT ![c].at = "ended"] ELSE shell
  /\ UNCHANGED <<provider, parallel, filled, slot, box, lost>>

\* File by file; if several VMs answer, none may have got the whole workspace.
Filling(c) ==
  IF \E d \in Shells : Answering(c) = {d} THEN {Answering(c)} ELSE {{}} \union {{d} : d \in Answering(c)}

\* The workspace is in the VM, which becomes the session, whichever was it before.
Uploaded(c) ==
  /\ shell[c].at = "uploads"
  /\ \E into \in Filling(c) : filled' = filled \union into
  /\ slot' = c /\ \E v \in Answering(c) : RunIn(c, v)
  /\ UNCHANGED <<provider, parallel, vm, box, lost>>

KillForgotten(c) == "ended"                             \* mutant: the VM is left
AfterFailure(c) == "kills"

\* A file that cannot be read, that is too large or that the guest refuses.
UploadFails(c) ==
  /\ shell[c].at = "uploads"
  /\ To(c, AfterFailure(c))
  /\ UNCHANGED <<provider, parallel, vm, filled, slot, box, lost>>

\* Killing a hosted VM may fail, and nobody is told.
KilledAs == IF provider = "e2b" THEN {"killed", "refused"} ELSE {"killed"}

KillVm(c) ==
  /\ shell[c].at = "kills"
  /\ \E how \in KilledAs : vm' = [vm EXCEPT ![c] = how]
  /\ To(c, "ended")
  /\ UNCHANGED <<provider, parallel, filled, slot, box, lost>>

\* The command is done, or its time is over, when it may go on in the guest.
ShellEnds(c) ==
  /\ shell[c].at = "runs"
  /\ To(c, "ended")
  /\ UNCHANGED <<provider, parallel, vm, filled, slot, box, lost>>

----
(***************************************************************************)
(* The run                                                                 *)
(***************************************************************************)
\* A kill in a thread goes on, but one that waits for a thread is never begun.
LeftAs(c) ==
  IF shell[c].at # "kills" THEN {vm[c]}
  ELSE IF provider = "e2b" THEN KilledAs \union {vm[c]} ELSE KilledAs

\* Cancellation is no Exception: a VM in the making is left as it is.
AllCancelled ==
  /\ shell' = [c \in Shells |-> IF c \in Busy THEN [shell[c] EXCEPT !.at = "ended"] ELSE shell[c]]
  /\ lost' = lost \union Creating
  /\ \E how \in [Shells -> {"none", "boots", "up", "killed", "refused"}] :
       (\A c \in Shells : how[c] \in LeftAs(c)) /\ vm' = how
  /\ UNCHANGED <<provider, parallel, filled, slot>>

\* Steering cancels parallel commands, Ctrl-C the one that runs and with it the run, and
\* the end of the event loop what is left.
CancelShells ==
  /\ Busy # {} /\ AllCancelled
  /\ box' = IF parallel THEN box ELSE "ending"

\* The run is over; only a sequential one has waited for its commands.  close() kills the
\* session and only then forgets it.
CloseBox ==
  /\ box \in {"open", "ending"} /\ (parallel \/ Busy = {})
  /\ lost' = lost \union Creating
  /\ IF slot = NoVm
     THEN box' = "closed" /\ UNCHANGED vm
     ELSE box' = "closing" /\ \E how \in KilledAs : vm' = [vm EXCEPT ![slot] = how]
  /\ UNCHANGED <<provider, parallel, filled, shell, slot>>

ForgetSession ==
  /\ box = "closing"
  /\ box' = "closed" /\ slot' = NoVm
  /\ UNCHANGED <<provider, parallel, vm, filled, shell, lost>>

\* Ctrl-C while the run cleans up, or the end of the process: close() is not called or
\* not finished.
AbandonBox ==
  /\ box \in {"open", "ending", "closing"} /\ AllCancelled
  /\ box' = "abandoned"

MicroVmNext ==
  \/ CancelShells \/ CloseBox \/ ForgetSession \/ AbandonBox
  \/ \E c \in Shells :
       \/ RunInSession(c) \/ BeginCreation(c) \/ Boots(c) \/ AnotherAnswers(c) \/ BootFails(c)
       \/ Uploaded(c) \/ UploadFails(c) \/ KillVm(c) \/ ShellEnds(c)

MicroVmSpec == MicroVmInit /\ [][MicroVmNext]_vmVars

----
(***************************************************************************)
(* Properties                                                              *)
(***************************************************************************)
\* A command runs only where the whole workspace was uploaded; a Firecracker VM that was
\* lost may answer in place of the one that was.  When the sandbox is closed the only VMs
\* left behind are those of commands cancelled while they made one, or that made one at the
\* same time as another or beside or after the closing, and those the provider would not
\* kill: no failure on the way leaves one (microvm.py:355, 375, 388; firecracker.py:199, 391).
NoVmIsLeft ==
  /\ provider = "e2b" \/ lost = {} => \A c \in Shells : shell[c].at = "runs" => shell[c].in \in filled
  /\ box = "closed" => \A c \in Shells : vm[c] \in {"boots", "up"} => c \in lost
====
