---- MODULE MCHost ----
(***************************************************************************)
(* The run of one task, and the RPC service that starts runs and waits for *)
(* them.  They share no state, so a behaviour explores the run, or, after  *)
(* a process that was gone before it did anything, the service.            *)
(***************************************************************************)
EXTENDS TaskRun, RpcServer

VARIABLE explored    \* what a behaviour explores

hostVars == <<explored, vars, rpcVars>>

HostInit == explored = "run" /\ Init /\ RpcInit

\* Nothing is due of the run any more, nor of the service before.
Untouched == pc = "dead" /\ <<status, record, stopper, cancelFile>> = <<"pending", "none", "idle", FALSE>>

HostNext ==
  \/ explored = "run" /\ Next /\ UNCHANGED <<explored, rpcVars>>
  \/ explored = "run" /\ Untouched /\ explored' = "service" /\ UNCHANGED <<vars, rpcVars>>
  \/ explored = "service" /\ RpcNext /\ UNCHANGED <<explored, vars>>

\* The fairness of AnsweredSpec and of RpcSpec.
HostSpec ==
  /\ HostInit /\ [][HostNext]_hostVars
  /\ WF_vars(Run) /\ WF_vars(WatcherSeesFile) /\ WF_vars(Answer)
  /\ RpcFairness
====
