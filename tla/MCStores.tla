---- MODULE MCStores ----
(***************************************************************************)
(* The stores of a workspace, each on its own: sessions, task records and  *)
(* leases share no state, so a behaviour explores one of them while the    *)
(* others rest in an initial state.                                        *)
(***************************************************************************)
EXTENDS SessionLog, Registry, TaskIndex, TLC

VARIABLE store    \* the store a behaviour explores

LogRests == log = <<>> /\ LogInit /\ active = Savers
RegRests == RegInit /\ (\A t \in Tasks : runner[t].at = "gone") /\ (\A c \in Clients : client[c].at = "away")
LeaseRests == LeaseInit /\ lease.owner = "nobody"

StoresInit ==
  \/ store = "sessions" /\ LogInit /\ RegRests /\ LeaseRests
  \/ store = "records" /\ LogRests /\ RegInit /\ LeaseRests
  \/ store = "leases" /\ LogRests /\ RegRests /\ LeaseInit

StoresNext ==
  \/ store = "sessions" /\ LogNext /\ UNCHANGED <<store, regVars, leaseVars>>
  \/ store = "records" /\ RegNext /\ UNCHANGED <<store, logVars, leaseVars>>
  \/ store = "leases" /\ LeaseNext /\ UNCHANGED <<store, logVars, regVars>>

StoresSpec == StoresInit /\ [][StoresNext]_<<store, logVars, regVars, leaseVars>>

\* Who acts, and what he acts on: the stores take their sets from the same values.
Alike == Permutations(Savers) \union Permutations(Tasks)
====
