---- MODULE CheckpointsProofs ----
(***************************************************************************)
(* Theorems about Checkpoints, for every value of its constants: any       *)
(* number of files, tool calls and concurrent requests.                    *)
(***************************************************************************)
EXTENDS Checkpoints, WellFoundedInduction, TLAPS

CallStages == {"idle", "ready", "executed", "saving", "over", "gone"}
Requests ==
  [stage : {"idle", "restoring", "saving", "rolling"}, todo : SUBSET Checkpoint,
   as : {"none", "accepted", "rolled_back"}, left : SUBSET Files]

\* The checkpoint of a call is its own, and exists once the call is prepared.
\* What a request has read of it may be stale, but not its path nor what it
\* keeps of the file.
Faithful(p) ==
  /\ cp[p.call].status # "none"
  /\ p.path = cp[p.call].path /\ p.before = cp[p.call].before
OwnCheckpoints ==
  /\ \A c \in Calls : cp[c].call = c
  /\ \A c \in Calls : stage[c] = "idle" => cp[c].status = "none"
  /\ \A c \in Calls : stage[c] \in {"ready", "executed", "saving"} => cp[c].status # "none"
  /\ \A k \in Clients : \A p \in client[k].todo : Faithful(p)
  /\ \A k \in Clients : client[k].stage = "restoring" => client[k].as = "none"
  /\ \A k \in Clients : client[k].stage = "saving" => client[k].as # "none"

TypeInv == TypeOK /\ OwnCheckpoints

----
LEMMA TypeInit == Init => TypeInv
<1> SUFFICES ASSUME Init PROVE TypeInv
  OBVIOUS
<1>1. (CHOOSE f \in Files : TRUE) \in Files
  BY StoreAssumption
<1>2. \A c \in Calls : NoCheckpoint(c) \in Checkpoint /\ NoCheckpoint(c).call = c
                       /\ NoCheckpoint(c).status = "none"
  BY <1>1 DEF NoCheckpoint, Checkpoint, State
<1>3. Rest \in Requests
  BY DEF Rest, Requests
<1>4. /\ cp \in [Calls -> Checkpoint]
      /\ client \in [Clients -> Requests]
      /\ \A k \in Clients : client[k] = Rest
  BY <1>2, <1>3 DEF Init
<1>5. OwnCheckpoints
  BY <1>2, <1>4 DEF Init, OwnCheckpoints, Rest
<1>6. TypeOK
  BY <1>4 DEF Init, TypeOK, Requests, State, Rest
<1> QED BY <1>5, <1>6 DEF TypeInv

----
(***************************************************************************)
(* Every step keeps TypeInv                                                *)
(***************************************************************************)
\* A step that leaves the requests and what checkpoints keep alone.
LEMMA SamePayloads ==
  ASSUME TypeInv, cp' \in [Calls -> Checkpoint], UNCHANGED client,
         \A c \in Calls : /\ cp'[c].call = c
                          /\ cp[c].status # "none" =>
                               /\ cp'[c].status # "none"
                               /\ cp'[c].path = cp[c].path /\ cp'[c].before = cp[c].before,
         \A c \in Calls : stage'[c] = "idle" => cp'[c].status = "none",
         \A c \in Calls :
           stage'[c] \in {"ready", "executed", "saving"} => cp'[c].status # "none"
  PROVE  OwnCheckpoints'
<1>1. \A k \in Clients : client[k].todo \subseteq Checkpoint
  BY DEF TypeInv, TypeOK
<1>2. \A k \in Clients : \A q \in client[k].todo : q.call \in Calls
  BY <1>1 DEF Checkpoint
<1> QED BY <1>2 DEF TypeInv, OwnCheckpoints, Faithful

LEMMA CallTypes ==
  ASSUME TypeInv, NEW c \in Calls, Call(c)
  PROVE  TypeInv'
<1> USE DEF TypeInv, TypeOK, history
<1>1. ASSUME NEW f \in Files, Prepare(c, f) PROVE TypeInv'
  <2> DEFINE new == [call |-> c, status |-> "prepared", path |-> f, created |-> clock + 1,
                     before |-> file[f], after |-> Unrecorded]
  <2>1. new \in Checkpoint /\ cp' = [cp EXCEPT ![c] = new]
    BY <1>1 DEF Prepare, Checkpoint, State
  <2>2. cp' \in [Calls -> Checkpoint] /\ clock' \in Nat
    BY <1>1, <2>1 DEF Prepare
  <2>3. stage' \in [Calls -> CallStages]
    BY <1>1 DEF Prepare, CallStages
  <2>4. OwnCheckpoints'
    BY <1>1, <2>1, <2>2, SamePayloads DEF Prepare, OwnCheckpoints
  <2> QED BY <1>1, <2>2, <2>3, <2>4 DEF Prepare, CallStages
<1>2. CASE PrepareFails(c)
  <2>1. OwnCheckpoints'
    BY <1>2, SamePayloads DEF PrepareFails, OwnCheckpoints
  <2> QED BY <1>2, <2>1 DEF PrepareFails
<1>3. ASSUME NEW v \in State, Execute(c, v) PROVE TypeInv'
  <2>1. OwnCheckpoints'
    BY <1>3, SamePayloads DEF Execute, MayExecute, OwnCheckpoints
  <2>2. overwritten' \subseteq Calls
    BY <1>3 DEF Execute, Writers
  <2> QED BY <1>3, <2>1, <2>2 DEF Execute
<1>4. CASE Block(c)
  <2>1. OwnCheckpoints'
    BY <1>4, SamePayloads DEF Block, OwnCheckpoints
  <2> QED BY <1>4, <2>1 DEF Block
<1>5. CASE CompleteLoad(c)
  <2>1. OwnCheckpoints'
    BY <1>5, SamePayloads DEF CompleteLoad, OwnCheckpoints
  <2>2. seen' \in [Calls -> State \cup {Unrecorded}]
    BY <1>5 DEF CompleteLoad, Captured, Checkpoint
  <2> QED BY <1>5, <2>1, <2>2 DEF CompleteLoad
<1>6. CASE CompleteSave(c)
  <2> DEFINE new == [cp[c] EXCEPT !.status = "applied", !.after = seen[c]]
  <2>1. cp[c] \in Checkpoint /\ seen[c] \in State \cup {Unrecorded}
    OBVIOUS
  <2>2. /\ new \in Checkpoint /\ new.call = cp[c].call /\ new.status = "applied"
        /\ new.path = cp[c].path /\ new.before = cp[c].before
    BY <2>1 DEF Checkpoint
  <2>3. cp' = [cp EXCEPT ![c] = new]
    BY <1>6, <2>1 DEF CompleteSave, Checkpoint
  <2> HIDE DEF new
  <2>4. cp' \in [Calls -> Checkpoint]
    BY <2>2, <2>3
  <2>5. OwnCheckpoints'
    BY <1>6, <2>2, <2>3, <2>4, SamePayloads DEF CompleteSave, OwnCheckpoints
  <2>6. disordered' \subseteq Files
    BY <1>6 DEF CompleteSave, Checkpoint
  <2> QED BY <1>6, <2>4, <2>5, <2>6 DEF CompleteSave
<1>7. CASE CompleteFails(c)
  <2>1. OwnCheckpoints'
    BY <1>7, SamePayloads DEF CompleteFails, OwnCheckpoints
  <2> QED BY <1>7, <2>1 DEF CompleteFails
<1>8. CASE CancelCall(c)
  <2>1. OwnCheckpoints'
    BY <1>8, SamePayloads DEF CancelCall, Abandoned, OwnCheckpoints
  <2> QED BY <1>8, <2>1 DEF CancelCall, Abandoned
<1> QED BY <1>1, <1>2, <1>3, <1>4, <1>5, <1>6, <1>7, <1>8 DEF Call

LEMMA RunTypes ==
  ASSUME TypeInv, EndRun \/ Crash \/ \E f \in Files, v \in State : OutsideWrite(f, v)
  PROVE  TypeInv'
<1> USE DEF TypeInv, TypeOK, history
<1>1. CASE EndRun
  <2>1. OwnCheckpoints'
    BY <1>1, SamePayloads DEF EndRun, Abandoned, OwnCheckpoints
  <2> QED BY <1>1, <2>1 DEF EndRun, Abandoned
<1>2. CASE Crash
  <2>1. stage' \in [Calls -> CallStages]
        /\ \A c \in Calls : stage'[c] \in {"over", "gone"}
    BY <1>2 DEF Crash, Abandoned, CallStages
  <2>2. client' \in [Clients -> Requests] /\ \A k \in Clients : client'[k] = Rest
    BY <1>2 DEF Crash, Rest, Requests
  <2>3. OwnCheckpoints'
    BY <1>2, <2>1, <2>2 DEF Crash, OwnCheckpoints, Rest
  <2> QED BY <1>2, <2>1, <2>2, <2>3 DEF Crash, CallStages, Requests, Rest
<1>3. ASSUME NEW f \in Files, NEW v \in State, OutsideWrite(f, v) PROVE TypeInv'
  <2>1. OwnCheckpoints'
    BY <1>3, SamePayloads DEF OutsideWrite, callVars, OwnCheckpoints
  <2>2. overwritten' \subseteq Calls /\ tampered' \subseteq Files
    BY <1>3 DEF OutsideWrite
  <2> QED BY <1>3, <2>1, <2>2 DEF OutsideWrite, callVars
<1> QED BY <1>1, <1>2, <1>3

\* A step in which a request turns to r.
LEMMA RequestTurns ==
  ASSUME TypeInv, NEW k \in Clients, NEW r \in Requests,
         client' = [client EXCEPT ![k] = r], UNCHANGED <<cp, stage>>,
         \A p \in r.todo : Faithful(p),
         r.stage = "restoring" => r.as = "none",
         r.stage = "saving" => r.as # "none",
         r.stage \in {"restoring", "saving"} => r.todo # {}
  PROVE  /\ client' \in [Clients -> Requests] /\ OwnCheckpoints'
         /\ \A j \in Clients : client'[j].stage \in {"restoring", "saving"} => client'[j].todo # {}
<1>1. client \in [Clients -> Requests]
  BY DEF TypeInv, TypeOK, Requests
<1>2. client'[k] = r /\ \A j \in Clients \ {k} : client'[j] = client[j]
  BY <1>1
<1> QED BY <1>1, <1>2 DEF TypeInv, TypeOK, OwnCheckpoints, Faithful

LEMMA ListedTypes ==
  ASSUME TypeInv, NEW statuses, "none" \notin statuses
  PROVE  Listed(statuses) \subseteq Checkpoint /\ \A p \in Listed(statuses) : Faithful(p)
BY DEF TypeInv, TypeOK, Listed, Faithful, OwnCheckpoints

LEMMA RequestTypes ==
  ASSUME TypeInv, NEW k \in Clients, Request(k)
  PROVE  TypeInv'
<1> USE DEF TypeInv, TypeOK, history, callVars
<1>1. client \in [Clients -> Requests] /\ client[k] \in Requests
  BY DEF Requests
<1>2. ASSUME NEW c \in Calls, RestoreCheck(k, c) PROVE TypeInv'
  <2> DEFINE r == [Rest EXCEPT !.stage = "restoring", !.todo = {cp[c]}]
  <2>1. cp[c].status # "none"
    BY <1>2 DEF RestoreCheck, Restorable
  <2>2. r \in Requests /\ r.stage = "restoring" /\ r.as = "none" /\ r.todo = {cp[c]}
    <3>1. {cp[c]} \in SUBSET Checkpoint
      OBVIOUS
    <3> QED BY <3>1 DEF Requests, Rest
  <2>3. Faithful(cp[c])
    BY <2>1 DEF Faithful, OwnCheckpoints
  <2>4. client' = [client EXCEPT ![k] = r]
    BY <1>2 DEF RestoreCheck
  <2>5. disordered' \subseteq Files
    BY <1>2 DEF RestoreCheck, Checkpoint
  <2> HIDE DEF r
  <2>6. UNCHANGED <<mode, base, file, cp, callVars, tampered, overwritten>>
    BY <1>2 DEF RestoreCheck
  <2>7. \A p \in r.todo : Faithful(p)
    BY <2>2, <2>3
  <2>8. /\ client' \in [Clients -> Requests] /\ OwnCheckpoints'
        /\ \A j \in Clients :
             client'[j].stage \in {"restoring", "saving"} => client'[j].todo # {}
    BY <2>2, <2>4, <2>6, <2>7, RequestTurns
  <2> QED BY <2>5, <2>6, <2>8 DEF Requests
<1>3. CASE RestoreWrite(k)
  <2> DEFINE r == [client[k] EXCEPT !.stage = "saving", !.as = "rolled_back"]
  <2>1. r \in Requests /\ r.stage = "saving" /\ r.as = "rolled_back" /\ r.todo = client[k].todo
    BY <1>1 DEF Requests
  <2>2. client' = [client EXCEPT ![k] = r]
    BY <1>1, <1>3 DEF RestoreWrite, Requests
  <2>3. PICK p \in client[k].todo : file' = [file EXCEPT ![p.path] = p.before]
    BY <1>3 DEF RestoreWrite
  <2>4. file' \in [Files -> State]
    BY <1>1, <2>3 DEF Requests, Checkpoint
  <2>5. \A q \in r.todo : Faithful(q)
    BY <2>1 DEF OwnCheckpoints
  <2>6. r.todo # {}
    BY <1>3, <2>1 DEF RestoreWrite
  <2> HIDE DEF r
  <2> QED BY <1>3, <2>1, <2>2, <2>4, <2>5, <2>6, RequestTurns DEF RestoreWrite, Requests
<1>4. CASE AcceptAll(k)
  <2> DEFINE todo == Listed({"prepared", "applied"})
             r == [Rest EXCEPT !.stage = "saving", !.todo = todo, !.as = "accepted"]
  <2>1. todo \subseteq Checkpoint /\ \A p \in todo : Faithful(p)
    BY ListedTypes
  <2>2. client' = [client EXCEPT ![k] = r] /\ todo # {}
    BY <1>4 DEF AcceptAll
  <2> HIDE DEF todo
  <2>3. r \in Requests /\ r.stage = "saving" /\ r.as = "accepted" /\ r.todo = todo
    BY <2>1 DEF Requests, Rest
  <2> HIDE DEF r
  <2> QED BY <1>4, <2>1, <2>2, <2>3, RequestTurns DEF AcceptAll, Requests
<1>5. CASE RollbackCheck(k)
  <2> DEFINE r == [Rest EXCEPT !.stage = "rolling", !.left = Files]
  <2>1. r \in Requests /\ r.stage = "rolling" /\ r.todo = {}
    BY DEF Requests, Rest
  <2>2. client' = [client EXCEPT ![k] = r]
    BY <1>5 DEF RollbackCheck
  <2> HIDE DEF r
  <2> QED BY <1>5, <2>1, <2>2, RequestTurns DEF RollbackCheck, Requests
<1>6. CASE MarkAllRolledBack(k)
  <2> DEFINE todo == Listed({"prepared", "applied", "accepted"})
             r == IF todo = {} THEN Rest
                  ELSE [Rest EXCEPT !.stage = "saving", !.todo = todo, !.as = "rolled_back"]
  <2>1. todo \subseteq Checkpoint /\ \A p \in todo : Faithful(p)
    BY ListedTypes
  <2>2. client' = [client EXCEPT ![k] = r]
    BY <1>6 DEF MarkAllRolledBack
  <2> HIDE DEF todo
  <2>3. /\ r \in Requests /\ r.stage # "restoring" /\ r.todo = todo
        /\ r.stage = "saving" => r.as # "none" /\ todo # {}
    BY <2>1 DEF Requests, Rest
  <2> HIDE DEF r
  <2> QED BY <1>6, <2>1, <2>2, <2>3, RequestTurns DEF MarkAllRolledBack, Requests
<1>7. ASSUME NEW f \in Files, RollbackFile(k, f) PROVE TypeInv'
  <2> DEFINE r == [client[k] EXCEPT !.left = @ \ {f}]
  <2>1. r \in Requests /\ r.stage = "rolling" /\ r.todo = client[k].todo
    BY <1>1, <1>7 DEF Requests, RollbackFile
  <2>2. client' = [client EXCEPT ![k] = r]
    BY <1>1, <1>7 DEF RollbackFile, Requests
  <2>3. file' \in [Files -> State]
    BY <1>7 DEF RollbackFile
  <2>4. \A q \in r.todo : Faithful(q)
    BY <2>1 DEF OwnCheckpoints
  <2> HIDE DEF r
  <2> QED BY <1>7, <2>1, <2>2, <2>3, <2>4, RequestTurns DEF RollbackFile, Requests
<1>8. CASE SaveNext(k)
  <2>1. PICK p \in client[k].todo :
          /\ cp' = [cp EXCEPT ![p.call] = [p EXCEPT !.status = client[k].as]]
          /\ client' = [client EXCEPT ![k] = AfterSave(k, p)]
    BY <1>8 DEF SaveNext
  <2>2. p \in Checkpoint /\ p.call \in Calls /\ Faithful(p)
    BY <1>1 DEF Requests, Checkpoint, OwnCheckpoints
  <2>3. client[k].as \in {"accepted", "rolled_back"}
    BY <1>1, <1>8 DEF SaveNext, Requests, OwnCheckpoints
  <2> DEFINE q == [p EXCEPT !.status = client[k].as]
             r == AfterSave(k, p)
  <2>4. /\ q \in Checkpoint /\ q.call = p.call /\ q.status # "none"
        /\ q.path = p.path /\ q.before = p.before
    BY <2>2, <2>3 DEF Checkpoint
  <2> HIDE DEF q
  <2>5. cp' \in [Calls -> Checkpoint] /\ cp' = [cp EXCEPT ![p.call] = q]
    BY <2>1, <2>2, <2>4 DEF q
  <2>6. \A c \in Calls : /\ cp'[c].call = c
                         /\ cp[c].status # "none" =>
                              /\ cp'[c].status # "none"
                              /\ cp'[c].path = cp[c].path /\ cp'[c].before = cp[c].before
                         /\ cp[c].status = "none" => cp'[c].status = "none"
    BY <2>2, <2>4, <2>5 DEF Faithful, OwnCheckpoints
  <2>7. /\ r \in Requests /\ r.stage # "restoring" /\ r.todo \subseteq client[k].todo
        /\ r.stage = "saving" => r.as # "none" /\ r.todo # {}
    BY <1>1, <1>8, <2>2, <2>3 DEF AfterSave, Rest, Requests, SaveNext
  <2>8. client' = [client EXCEPT ![k] = r] /\ client' \in [Clients -> Requests]
    BY <1>1, <2>1, <2>7
  <2> HIDE DEF r
  <2>9. OwnCheckpoints'
    <3>1. \A j \in Clients : client'[j].todo \subseteq client[j].todo
      BY <1>1, <2>7, <2>8
    <3>2. \A j \in Clients : \A x \in client[j].todo : x.call \in Calls /\ Faithful(x)
      BY <1>1 DEF Requests, Checkpoint, OwnCheckpoints
    <3>3. \A j \in Clients : \A x \in client'[j].todo : Faithful(x)'
      BY <2>6, <3>1, <3>2 DEF Faithful
    <3>4. UNCHANGED stage
      BY <1>8 DEF SaveNext
    <3>5. \A j \in Clients : /\ client'[j].stage = "restoring" => client'[j].as = "none"
                             /\ client'[j].stage = "saving" => client'[j].as # "none"
      BY <1>1, <2>7, <2>8 DEF OwnCheckpoints
    <3> QED BY <2>6, <3>3, <3>4, <3>5 DEF OwnCheckpoints
  <2>10. \A j \in Clients : client'[j].stage \in {"restoring", "saving"} => client'[j].todo # {}
    BY <1>1, <2>7, <2>8
  <2> QED BY <1>8, <2>5, <2>8, <2>9, <2>10 DEF SaveNext, Requests
<1>9. CASE RequestDies(k)
  <2>1. Rest \in Requests /\ Rest.stage = "idle" /\ Rest.todo = {}
    BY DEF Requests, Rest
  <2> QED BY <1>9, <2>1, RequestTurns DEF RequestDies, Requests
<1> QED BY <1>2, <1>3, <1>4, <1>5, <1>6, <1>7, <1>8, <1>9 DEF Request

LEMMA TypeStep == TypeInv /\ [Next]_vars => TypeInv'
<1> SUFFICES ASSUME TypeInv, [Next]_vars PROVE TypeInv'
  OBVIOUS
<1>1. CASE UNCHANGED vars
  BY <1>1 DEF vars, callVars, history, TypeInv, TypeOK, OwnCheckpoints, Faithful
<1> QED BY <1>1, CallTypes, RunTypes, RequestTypes DEF Next

\* Every variable keeps its type.
THEOREM TypeCorrect == Spec => []TypeOK
<1>1. TypeInv => TypeOK
  BY DEF TypeInv
<1> QED BY TypeInit, TypeStep, <1>1, PTL DEF Spec

----
(***************************************************************************)
(* BaselineHeld.  As long as a file has kept its original content, every   *)
(* checkpoint of it holds that content; so the first tool that changes the *)
(* file leaves a recoverable original behind, which no step forgets.       *)
(***************************************************************************)
AllOriginal(f) ==
  file[f] = base[f]
    /\ \A c \in Calls : cp[c].status # "none" /\ cp[c].path = f => cp[c].before = base[f]
SomeOriginal(f) == \E c \in Calls : Original(cp[c], f)
BaselineInv == \A f \in Files \ tampered : AllOriginal(f) \/ SomeOriginal(f)

LEMMA BaselineInit == Init => BaselineInv
<1> SUFFICES ASSUME Init PROVE BaselineInv
  OBVIOUS
<1>1. \A c \in Calls : cp[c].status = "none"
  BY DEF Init, NoCheckpoint
<1>2. file = base
  BY DEF Init
<1> QED BY <1>1, <1>2 DEF BaselineInv, AllOriginal

\* What a checkpoint keeps of its file is never lost.
LEMMA CheckpointsLast ==
  ASSUME TypeInv, [Next]_vars
  PROVE  /\ UNCHANGED base
         /\ \A c \in Calls : cp[c].status # "none" =>
              /\ cp'[c].status # "none"
              /\ cp'[c].path = cp[c].path /\ cp'[c].before = cp[c].before
<1> USE DEF TypeInv, TypeOK, OwnCheckpoints
<1>1. ASSUME NEW c \in Calls, Call(c)
      PROVE  /\ UNCHANGED base
             /\ \A d \in Calls : cp[d].status # "none" =>
                  /\ cp'[d].status # "none"
                  /\ cp'[d].path = cp[d].path /\ cp'[d].before = cp[d].before
  <2>1. ASSUME NEW f \in Files, Prepare(c, f)
        PROVE  UNCHANGED base /\ cp[c].status = "none"
                 /\ \A d \in Calls \ {c} : cp'[d] = cp[d]
    BY <2>1 DEF Prepare
  <2>2. ASSUME CompleteSave(c)
        PROVE  /\ UNCHANGED base /\ cp'[c].status = "applied"
               /\ cp'[c].path = cp[c].path /\ cp'[c].before = cp[c].before
               /\ \A d \in Calls \ {c} : cp'[d] = cp[d]
    BY <2>2 DEF CompleteSave, Checkpoint
  <2>3. ASSUME ~(\E f \in Files : Prepare(c, f)), ~CompleteSave(c)
        PROVE  UNCHANGED <<base, cp>>
    BY <1>1, <2>3 DEF Call, PrepareFails, Execute, Block, CompleteLoad, CompleteFails, CancelCall
  <2> QED BY <2>1, <2>2, <2>3
<1>2. CASE EndRun \/ Crash \/ \E f \in Files, v \in State : OutsideWrite(f, v)
  BY <1>2 DEF EndRun, Crash, OutsideWrite
<1>3. ASSUME NEW k \in Clients, SaveNext(k)
      PROVE  /\ UNCHANGED base
             /\ \A d \in Calls : cp[d].status # "none" =>
                  /\ cp'[d].status # "none"
                  /\ cp'[d].path = cp[d].path /\ cp'[d].before = cp[d].before
  <2>1. PICK p \in client[k].todo :
          cp' = [cp EXCEPT ![p.call] = [p EXCEPT !.status = client[k].as]]
    BY <1>3 DEF SaveNext
  <2>2. p \in Checkpoint /\ p.call \in Calls /\ Faithful(p)
    <3>1. client[k].todo \subseteq Checkpoint
      OBVIOUS
    <3> QED BY <3>1 DEF Checkpoint
  <2> DEFINE q == [p EXCEPT !.status = client[k].as]
  <2>3. q.status = client[k].as /\ q.path = p.path /\ q.before = p.before
    BY <2>2 DEF Checkpoint
  <2>4. client[k].as # "none"
    BY <1>3 DEF SaveNext
  <2> HIDE DEF q
  <2>5. cp'[p.call] = q /\ \A d \in Calls \ {p.call} : cp'[d] = cp[d]
    BY <2>1, <2>2 DEF q
  <2> QED BY <1>3, <2>2, <2>3, <2>4, <2>5 DEF SaveNext, Faithful
<1>4. ASSUME NEW k \in Clients, Request(k), ~SaveNext(k) PROVE UNCHANGED <<base, cp>>
  BY <1>4 DEF Request, RestoreCheck, RestoreWrite, AcceptAll, RollbackCheck, RollbackFile,
     MarkAllRolledBack, RequestDies
<1>5. CASE UNCHANGED vars
  BY <1>5 DEF vars
<1> QED BY <1>1, <1>2, <1>3, <1>4, <1>5 DEF Next

LEMMA OriginalsLast ==
  ASSUME TypeInv, [Next]_vars, NEW f \in Files, SomeOriginal(f)
  PROVE  SomeOriginal(f)'
BY CheckpointsLast DEF SomeOriginal, Original, Recoverable

LEMMA BaselineStep == TypeInv /\ BaselineInv /\ [Next]_vars => BaselineInv'
<1> SUFFICES ASSUME TypeInv, BaselineInv, [Next]_vars PROVE BaselineInv'
  OBVIOUS
<1> SUFFICES ASSUME NEW f \in Files \ tampered', AllOriginal(f)
             PROVE  AllOriginal(f)' \/ SomeOriginal(f)'
  <2>1. tampered \subseteq tampered'
    <3> USE DEF history
    <3>1. ASSUME NEW c \in Calls, Call(c) PROVE UNCHANGED tampered
      BY <3>1 DEF Call, Prepare, PrepareFails, Execute, Block, CompleteLoad, CompleteSave,
         CompleteFails, CancelCall
    <3>2. CASE EndRun \/ Crash \/ \E g \in Files, v \in State : OutsideWrite(g, v)
      BY <3>2, SMTT(30) DEF EndRun, Crash, OutsideWrite
    <3>3. ASSUME NEW k \in Clients, Request(k) PROVE UNCHANGED tampered
      BY <3>3 DEF Request, RestoreCheck, RestoreWrite, AcceptAll, RollbackCheck,
         RollbackFile, MarkAllRolledBack, SaveNext, RequestDies
    <3>4. CASE UNCHANGED vars
      BY <3>4 DEF vars
    <3>5. \A S : S \subseteq S
      OBVIOUS
    <3> QED BY <3>1, <3>2, <3>3, <3>4, <3>5 DEF Next
  <2> QED BY <2>1, OriginalsLast DEF BaselineInv
<1> USE DEF TypeInv, TypeOK, OwnCheckpoints, AllOriginal
<1>1. UNCHANGED base
  BY CheckpointsLast
<1>2. ASSUME UNCHANGED <<file, cp>> PROVE AllOriginal(f)'
  BY <1>1, <1>2
<1>3. ASSUME NEW c \in Calls, NEW g \in Files, Prepare(c, g) PROVE AllOriginal(f)'
  <2>1. /\ cp'[c].path = g /\ cp'[c].before = file[g]
        /\ \A d \in Calls \ {c} : cp'[d] = cp[d]
        /\ UNCHANGED file
    BY <1>3 DEF Prepare
  <2> QED BY <1>1, <2>1
<1>4. ASSUME NEW c \in Calls, NEW v \in State, Execute(c, v)
      PROVE  AllOriginal(f)' \/ SomeOriginal(f)'
  <2>1. CASE cp[c].path = f
    <3>1. Original(cp[c], f)
      BY <1>4, <2>1 DEF Execute, MayExecute, Original
    <3> QED BY <3>1, OriginalsLast DEF SomeOriginal
  <2>2. CASE cp[c].path # f
    <3>1. file'[f] = file[f] /\ UNCHANGED cp
      BY <1>4, <2>2 DEF Execute
    <3> QED BY <1>1, <3>1
  <2> QED BY <2>1, <2>2
<1>5. ASSUME NEW c \in Calls, CompleteSave(c) PROVE AllOriginal(f)'
  <2>1. /\ UNCHANGED file
        /\ \A d \in Calls \ {c} : cp'[d] = cp[d]
        /\ cp'[c].path = cp[c].path /\ cp'[c].before = cp[c].before
    BY <1>5 DEF CompleteSave, Checkpoint
  <2>2. cp[c].status # "none"
    BY <1>5 DEF CompleteSave
  <2> QED BY <1>1, <2>1, <2>2
<1>6. ASSUME NEW g \in Files, NEW v \in State, OutsideWrite(g, v) PROVE AllOriginal(f)'
  BY <1>1, <1>6 DEF OutsideWrite
<1>7. ASSUME NEW k \in Clients, RestoreWrite(k) PROVE AllOriginal(f)'
  <2>1. PICK p \in client[k].todo : file' = [file EXCEPT ![p.path] = p.before]
    BY <1>7 DEF RestoreWrite
  <2>2. Faithful(p) /\ p \in Checkpoint
    <3>1. client[k].todo \subseteq Checkpoint
      OBVIOUS
    <3> QED BY <3>1
  <2>3. p.path \in Files /\ p.call \in Calls
    BY <2>2 DEF Checkpoint
  <2>4. p.path = f => p.before = base[f]
    BY <2>2, <2>3 DEF Faithful
  <2>5. file'[f] = base[f]
    BY <2>1, <2>3, <2>4
  <2> QED BY <1>1, <1>7, <2>5 DEF RestoreWrite
<1>8. ASSUME NEW k \in Clients, NEW g \in Files, RollbackFile(k, g) PROVE AllOriginal(f)'
  BY <1>1, <1>8 DEF RollbackFile
<1>9. ASSUME NEW k \in Clients, SaveNext(k) PROVE AllOriginal(f)'
  <2>1. PICK p \in client[k].todo :
          cp' = [cp EXCEPT ![p.call] = [p EXCEPT !.status = client[k].as]]
    BY <1>9 DEF SaveNext
  <2>2. Faithful(p)
    OBVIOUS
  <2>3. \A d \in Calls : cp'[d].status # "none" => cp[d].status # "none"
    BY <2>1, <2>2 DEF Faithful
  <2> QED BY <1>1, <1>9, <2>3, CheckpointsLast DEF SaveNext
<1> QED
  BY <1>2, <1>3, <1>4, <1>5, <1>6, <1>7, <1>8, <1>9
  DEF Next, Call, PrepareFails, Block, CompleteLoad, CompleteFails, CancelCall, EndRun, Crash,
      Request, RestoreCheck, AcceptAll, RollbackCheck, MarkAllRolledBack, RequestDies, vars

\* Mutations fail closed, with any number of tools and of requests racing
\* each other, and wherever a crash strikes (atomic_l1.py, checkpoints.py).
THEOREM MutationsFailClosed == Spec => []BaselineHeld
<1>1. BaselineInv => BaselineHeld
  BY DEF BaselineInv, BaselineHeld, AllOriginal, SomeOriginal
<1> QED BY TypeInit, TypeStep, BaselineInit, BaselineStep, <1>1, PTL DEF Spec

----
(***************************************************************************)
(* TrailLeadsBack.  From what a file contains, undoing its checkpoints     *)
(* newest first may start, and from what each of them keeps, undoing the   *)
(* older ones.                                                             *)
(***************************************************************************)
\* The calls whose checkpoints of f are still to be undone.
Left(f) == {c \in Calls : cp[c].path = f /\ cp[c].status \in {"prepared", "applied"}}

\* The newest of them up to a time.
Newest(f, c, n) ==
  /\ c \in Left(f) /\ cp[c].created <= n
  /\ \A d \in Left(f) : cp[d].created <= n => cp[d].created <= cp[c].created

\* Undoing c's checkpoint, should it record this after, takes a file that contains v
\* to what it was before, or leaves it there.
Undoable(v, c, after) ==
  \/ v \in {base[cp[c].path], cp[c].before}
  \/ Recoverable(cp[c].before) /\ after \in {Unrecorded, v}

\* From v, undoing what was done to f up to a time may start.
OnTrail(f, v, n) ==
  /\ (\A c \in Left(f) : cp[c].created > n) => v = base[f]
  /\ \A c \in Left(f) : Newest(f, c, n) => Undoable(v, c, cp[c].after)

\* The trail from what f contains, through what its checkpoints keep, even once the
\* completion under way is saved.
Trail(f) ==
  /\ OnTrail(f, file[f], clock)
  /\ \A c \in Left(f) : OnTrail(f, cp[c].before, cp[c].created - 1)
  /\ \A c \in Left(f) : stage[c] = "saving" /\ cp[c].status = "prepared" => Undoable(file[f], c, seen[c])

Followed(f) == f \notin tampered \cup disordered /\ NoneAccepted(f) => Trail(f)

\* Checkpoints are numbered in the order in which they are made.
Numbered ==
  /\ \A c \in Calls : cp[c].status # "none" => cp[c].created \in 1 .. clock
  /\ \A c, d \in Calls : c # d /\ cp[c].status # "none" /\ cp[d].status # "none" => cp[c].created # cp[d].created
  /\ \A c \in Calls : cp[c].status = "prepared" => cp[c].after = Unrecorded
  /\ \A k \in Clients : \A p \in client[k].todo : p.created = cp[p.call].created

\* The call in hand made the last of them; requests wait for the run to end.
OneInHand ==
  /\ \A c \in Calls : InHand(c) => cp[c].created = clock
  /\ active => /\ \A k \in Clients : client[k].stage = "idle"
               /\ \A c \in Calls : InHand(c) => cp[c].status = "prepared"
  /\ ~active => \A c \in Calls : stage[c] \notin {"idle", "ready", "executed"}

\* A request that rolls a checkpoint back rolls back the newest.
RestoreOK(k) ==
  client[k].stage = "restoring" \/ (client[k].stage = "saving" /\ client[k].as = "rolled_back") =>
    \A p \in client[k].todo :
      p.path \notin disordered =>
        /\ client[k].todo = {p} /\ p.call \in Left(p.path) /\ ~Newer(p.call)
        /\ client[k].stage = "saving" /\ p.path \notin tampered => file[p.path] = p.before

TrailInv ==
  mode = "sequential" =>
    /\ Numbered /\ OneInHand /\ (\A k \in Clients : RestoreOK(k)) /\ \A f \in Files : Followed(f)

OneClient == \A j, k \in Clients : j = k

LEMMA TrailInit == Init => TrailInv
<1> SUFFICES ASSUME Init PROVE TrailInv
  OBVIOUS
<1>1. \A c \in Calls : cp[c].status = "none" /\ stage[c] = "idle"
  BY DEF Init, NoCheckpoint
<1>2. \A k \in Clients : client[k].stage = "idle" /\ client[k].todo = {}
  BY DEF Init, Rest
<1>3. active /\ file = base
  BY DEF Init
<1>4. Numbered
  BY <1>1, <1>2 DEF Numbered
<1>5. OneInHand
  BY <1>1, <1>2, <1>3 DEF OneInHand, InHand
<1>6. \A k \in Clients : RestoreOK(k)
  BY <1>2 DEF RestoreOK
<1>7. \A f \in Files : Left(f) = {}
  BY <1>1 DEF Left
<1>8. \A f \in Files : Followed(f)
  BY <1>3, <1>7 DEF Followed, Trail, OnTrail, Newest
<1> QED BY <1>4, <1>5, <1>6, <1>8 DEF TrailInv

----
(***************************************************************************)
(* What the steps do to the checkpoints                                    *)
(***************************************************************************)
LEMMA PrepareIs ==
  ASSUME TypeInv, NEW c \in Calls, NEW f \in Files, Prepare(c, f)
  PROVE  /\ active /\ cp[c].status = "none" /\ clock \in Nat
         /\ cp'[c].call = c /\ cp'[c].status = "prepared" /\ cp'[c].path = f
         /\ cp'[c].created = clock + 1 /\ cp'[c].before = file[f] /\ cp'[c].after = Unrecorded
         /\ \A d \in Calls \ {c} : cp'[d] = cp[d] /\ stage'[d] = stage[d]
         /\ clock' = clock + 1 /\ stage'[c] = "ready"
         /\ mode = "sequential" => \A d \in Calls : ~InHand(d)
         /\ UNCHANGED <<mode, base, file, seen, active, client, tampered, overwritten, disordered>>
BY DEF Prepare, TypeInv, TypeOK, OwnCheckpoints, history

LEMMA CompleteSaveIs ==
  ASSUME TypeInv, NEW c \in Calls, CompleteSave(c)
  PROVE  /\ cp[c].status # "none" /\ stage[c] = "saving" /\ stage'[c] = "over"
         /\ cp'[c].call = c /\ cp'[c].status = "applied" /\ cp'[c].after = seen[c]
         /\ cp'[c].path = cp[c].path /\ cp'[c].before = cp[c].before /\ cp'[c].created = cp[c].created
         /\ \A d \in Calls \ {c} : cp'[d] = cp[d] /\ stage'[d] = stage[d]
         /\ disordered' = IF cp[c].status = "prepared" THEN disordered ELSE disordered \cup {cp[c].path}
         /\ \A d \in Calls \ {c} : seen'[d] = seen[d]
         /\ UNCHANGED <<mode, base, file, clock, active, client, tampered, overwritten>>
<1>1. cp[c] \in Checkpoint /\ cp[c].call = c
  BY DEF TypeInv, TypeOK, OwnCheckpoints
<1>2. cp'[c] = [cp[c] EXCEPT !.status = "applied", !.after = seen[c]]
  BY DEF CompleteSave, TypeInv, TypeOK
<1>3. /\ cp'[c].call = c /\ cp'[c].status = "applied" /\ cp'[c].after = seen[c]
      /\ cp'[c].path = cp[c].path /\ cp'[c].before = cp[c].before /\ cp'[c].created = cp[c].created
  BY <1>1, <1>2 DEF Checkpoint
<1> QED BY <1>3 DEF CompleteSave, TypeInv, TypeOK, OwnCheckpoints

LEMMA SaveNextIs ==
  ASSUME TypeInv, Numbered, NEW k \in Clients, SaveNext(k)
  PROVE  \E p \in client[k].todo :
           /\ client[k].stage = "saving" /\ client[k].as \in {"accepted", "rolled_back"}
           /\ p \in Checkpoint /\ p.call \in Calls /\ cp[p.call].status # "none"
           /\ p.path = cp[p.call].path /\ p.before = cp[p.call].before
           /\ p.created = cp[p.call].created
           /\ cp'[p.call].call = p.call /\ cp'[p.call].status = client[k].as
           /\ cp'[p.call].path = p.path /\ cp'[p.call].before = p.before
           /\ cp'[p.call].created = p.created
           /\ \A d \in Calls \ {p.call} : cp'[d] = cp[d]
           /\ client'[k] = AfterSave(k, p)
           /\ UNCHANGED <<mode, base, file, clock, stage, seen, active, tampered, overwritten, disordered>>
<1>1. PICK p \in client[k].todo :
        /\ cp' = [cp EXCEPT ![p.call] = [p EXCEPT !.status = client[k].as]]
        /\ client' = [client EXCEPT ![k] = AfterSave(k, p)]
  BY DEF SaveNext
<1>2. p \in Checkpoint
  BY DEF TypeInv, TypeOK
<1>3. /\ p.call \in Calls /\ cp[p.call].status # "none"
      /\ p.path = cp[p.call].path /\ p.before = cp[p.call].before /\ p.created = cp[p.call].created
  BY <1>2 DEF TypeInv, OwnCheckpoints, Faithful, Numbered, Checkpoint
<1>4. client[k].stage = "saving" /\ client[k].as \in {"accepted", "rolled_back"}
  BY DEF SaveNext, TypeInv, TypeOK, OwnCheckpoints
<1> DEFINE q == [p EXCEPT !.status = client[k].as]
<1>5. /\ q.call = p.call /\ q.status = client[k].as
      /\ q.path = p.path /\ q.before = p.before /\ q.created = p.created
  BY <1>2 DEF Checkpoint
<1> HIDE DEF q
<1>6. cp'[p.call] = q /\ \A d \in Calls \ {p.call} : cp'[d] = cp[d]
  BY <1>1, <1>3 DEF TypeInv, TypeOK, q
<1>7. client'[k] = AfterSave(k, p)
  BY <1>1 DEF TypeInv, TypeOK
<1>8. UNCHANGED <<mode, base, file, clock, stage, seen, active, tampered, overwritten, disordered>>
  BY DEF SaveNext, callVars, history
<1> QED BY <1>2, <1>3, <1>4, <1>5, <1>6, <1>7, <1>8

\* The other steps leave the checkpoints alone.
LEMMA CheckpointsMove ==
  ASSUME [Next]_vars
  PROVE  \/ \E c \in Calls, f \in Files : Prepare(c, f)
         \/ \E c \in Calls : CompleteSave(c)
         \/ \E k \in Clients : SaveNext(k)
         \/ UNCHANGED <<cp, clock>>
BY DEF Next, Call, PrepareFails, Execute, Block, CompleteLoad, CompleteFails, CancelCall,
   EndRun, Crash, OutsideWrite, Request, RestoreCheck, RestoreWrite, AcceptAll, RollbackCheck,
   RollbackFile, MarkAllRolledBack, RequestDies, callVars, vars

\* What requests have read stays the checkpoint of its call.
LEMMA TodoMoves ==
  ASSUME TypeInv, [Next]_vars, NEW k \in Clients, NEW p \in client'[k].todo
  PROVE  p \in client[k].todo \/ \E c \in Calls : cp[c].status # "none" /\ p = cp[c] /\ cp' = cp
<1>1. CASE p \in client[k].todo
  BY <1>1
<1>2. CASE UNCHANGED client
  BY <1>2
<1>3. CASE Crash
  <2>1. client'[k].todo = {}
    BY <1>3 DEF Crash, Rest
  <2> QED BY <2>1
<1>4. ASSUME NEW j \in Clients, Request(j), client' # client, p \notin client[k].todo
      PROVE  \E c \in Calls : cp[c].status # "none" /\ p = cp[c] /\ cp' = cp
  <2>1. \A r : client' = [client EXCEPT ![j] = r] => p \in r.todo
    BY <1>4 DEF TypeInv, TypeOK
  <2>2. \A c \in Calls : cp[c] \in Checkpoint
    BY DEF TypeInv, TypeOK
  <2>3. ASSUME NEW c \in Calls, RestoreCheck(j, c) PROVE cp[c].status # "none" /\ p = cp[c] /\ cp' = cp
    <3> DEFINE r == [Rest EXCEPT !.stage = "restoring", !.todo = {cp[c]}]
    <3>1. r.todo = {cp[c]} /\ client' = [client EXCEPT ![j] = r]
      BY <2>3 DEF RestoreCheck, Rest
    <3> HIDE DEF r
    <3>2. p = cp[c]
      BY <2>1, <3>1
    <3> QED BY <2>3, <3>2 DEF RestoreCheck, Restorable
  <2>4. ASSUME NEW statuses \in {{"prepared", "applied"}, {"prepared", "applied", "accepted"}},
               NEW as, client' = [client EXCEPT ![j] = [Rest EXCEPT !.stage = "saving", !.todo = Listed(statuses), !.as = as]],
               cp' = cp
        PROVE  \E c \in Calls : cp[c].status # "none" /\ p = cp[c] /\ cp' = cp
    <3> DEFINE r == [Rest EXCEPT !.stage = "saving", !.todo = Listed(statuses), !.as = as]
    <3>1. r.todo = Listed(statuses) /\ client' = [client EXCEPT ![j] = r]
      BY <2>4 DEF Rest
    <3> HIDE DEF r
    <3>2. p \in Listed(statuses)
      BY <2>1, <3>1
    <3> QED BY <2>4, <3>2 DEF Listed
  <2>5. ASSUME client' = [client EXCEPT ![j] = Rest] PROVE FALSE
    <3>1. Rest.todo = {}
      BY DEF Rest
    <3> QED BY <2>1, <2>5, <3>1
  <2>6. CASE AcceptAll(j)
    BY <2>4, <2>6 DEF AcceptAll
  <2>7. CASE MarkAllRolledBack(j)
    BY <2>4, <2>5, <2>7 DEF MarkAllRolledBack
  <2>8. CASE RequestDies(j)
    BY <2>5, <2>8 DEF RequestDies
  <2>9. CASE SaveNext(j)
    <3>1. PICK x \in client[j].todo : client' = [client EXCEPT ![j] = AfterSave(j, x)]
      BY <2>9 DEF SaveNext
    <3>2. p \in AfterSave(j, x).todo /\ p \in client'[k].todo
      BY <2>1, <3>1
    <3>3. j = k
      BY <1>4, <3>1 DEF TypeInv, TypeOK
    <3>4. AfterSave(j, x).todo \subseteq client[j].todo
      <4>1. Rest.todo = {}
        BY DEF Rest
      <4>2. [client[j] EXCEPT !.todo = @ \ {x}].todo \subseteq client[j].todo
        BY DEF TypeInv, TypeOK
      <4> QED BY <4>1, <4>2 DEF AfterSave
    <3> QED BY <1>4, <3>2, <3>3, <3>4
  <2>10. CASE RestoreWrite(j)
    <3>1. client' = [client EXCEPT ![j] = [client[j] EXCEPT !.stage = "saving", !.as = "rolled_back"]]
      BY <2>10 DEF RestoreWrite, TypeInv, TypeOK
    <3> QED BY <1>4, <3>1 DEF TypeInv, TypeOK
  <2>11. CASE RollbackCheck(j)
    <3>1. [Rest EXCEPT !.stage = "rolling", !.left = Files].todo = {}
      BY DEF Rest
    <3> QED BY <2>1, <2>11, <3>1 DEF RollbackCheck
  <2>12. ASSUME NEW f \in Files, RollbackFile(j, f) PROVE FALSE
    <3>1. client' = [client EXCEPT ![j] = [client[j] EXCEPT !.left = @ \ {f}]]
      BY <2>12 DEF RollbackFile, TypeInv, TypeOK
    <3> QED BY <1>4, <3>1 DEF TypeInv, TypeOK
  <2> QED BY <1>4, <2>3, <2>6, <2>7, <2>8, <2>9, <2>10, <2>11, <2>12 DEF Request
<1>5. CASE Next /\ ~Crash /\ \A j \in Clients : ~Request(j)
  BY <1>2, <1>5 DEF Next, Call, Prepare, PrepareFails, Execute, Block, CompleteLoad, CompleteSave,
     CompleteFails, CancelCall, EndRun, OutsideWrite
<1> QED BY <1>1, <1>2, <1>3, <1>4, <1>5 DEF vars

LEMMA NumberedStep ==
  ASSUME TypeInv, Numbered, [Next]_vars
  PROVE  Numbered'
<1>1. clock \in Nat /\ clock' \in {clock, clock + 1}
  BY CheckpointsMove, PrepareIs, CompleteSaveIs, SaveNextIs DEF TypeInv, TypeOK
<1>2. ASSUME NEW c \in Calls, cp[c].status # "none"
      PROVE  cp'[c].created = cp[c].created /\ cp'[c].status # "none"
             /\ (cp'[c].status = "prepared" => cp'[c].after = Unrecorded)
  <2>1. CASE \E d \in Calls, f \in Files : Prepare(d, f)
    BY <1>2, <2>1, PrepareIs DEF Numbered
  <2>2. CASE \E d \in Calls : CompleteSave(d)
    BY <1>2, <2>2, CompleteSaveIs DEF Numbered
  <2>3. CASE \E k \in Clients : SaveNext(k)
    BY <1>2, <2>3, SaveNextIs DEF Numbered
  <2>4. CASE UNCHANGED <<cp, clock>>
    BY <1>2, <2>4 DEF Numbered
  <2> QED BY <2>1, <2>2, <2>3, <2>4, CheckpointsMove
<1>3. ASSUME NEW c \in Calls, cp[c].status = "none", cp'[c].status # "none"
      PROVE  /\ cp'[c].created = clock + 1 /\ clock' = clock + 1 /\ cp'[c].after = Unrecorded
             /\ \A d \in Calls \ {c} : cp'[d] = cp[d]
  <2>1. CASE \E d \in Calls, f \in Files : Prepare(d, f)
    BY <1>3, <2>1, PrepareIs
  <2>2. CASE \E d \in Calls : CompleteSave(d)
    BY <1>3, <2>2, CompleteSaveIs
  <2>3. CASE \E k \in Clients : SaveNext(k)
    BY <1>3, <2>3, SaveNextIs
  <2>4. CASE UNCHANGED <<cp, clock>>
    BY <1>3, <2>4
  <2> QED BY <2>1, <2>2, <2>3, <2>4, CheckpointsMove
<1>4. \A c \in Calls : cp'[c].status # "none" => cp'[c].created \in 1 .. clock'
  BY <1>1, <1>2, <1>3 DEF Numbered
<1>5. \A c, d \in Calls : c # d /\ cp'[c].status # "none" /\ cp'[d].status # "none" => cp'[c].created # cp'[d].created
  <2> SUFFICES ASSUME NEW c \in Calls, NEW d \in Calls, c # d, cp'[c].status # "none", cp'[d].status # "none"
               PROVE  cp'[c].created # cp'[d].created
    OBVIOUS
  <2>1. CASE cp[c].status # "none" /\ cp[d].status # "none"
    BY <1>2, <2>1 DEF Numbered
  <2>2. CASE cp[c].status = "none"
    <3>1. cp'[c].created = clock + 1 /\ cp[d].status # "none"
      BY <1>3, <2>2
    <3>2. cp'[d].created \in 1 .. clock
      BY <1>2, <3>1 DEF Numbered
    <3> QED BY <1>1, <3>1, <3>2
  <2>3. CASE cp[d].status = "none"
    <3>1. cp'[d].created = clock + 1 /\ cp[c].status # "none"
      BY <1>3, <2>3
    <3>2. cp'[c].created \in 1 .. clock
      BY <1>2, <3>1 DEF Numbered
    <3> QED BY <1>1, <3>1, <3>2
  <2> QED BY <2>1, <2>2, <2>3
<1>6. \A c \in Calls : cp'[c].status = "prepared" => cp'[c].after = Unrecorded
  BY <1>2, <1>3
<1>7. \A k \in Clients : \A p \in client'[k].todo : p.created = cp'[p.call].created
  <2> SUFFICES ASSUME NEW k \in Clients, NEW p \in client'[k].todo PROVE p.created = cp'[p.call].created
    OBVIOUS
  <2>1. CASE p \in client[k].todo
    <3>1. p.call \in Calls /\ cp[p.call].status # "none" /\ p.created = cp[p.call].created
      <4>1. client[k].todo \subseteq Checkpoint
        BY DEF TypeInv, TypeOK
      <4> QED BY <2>1, <4>1 DEF TypeInv, OwnCheckpoints, Faithful, Numbered, Checkpoint
    <3> QED BY <1>2, <3>1
  <2>2. ASSUME NEW c \in Calls, p = cp[c], cp' = cp PROVE p.created = cp'[p.call].created
    BY <2>2 DEF TypeInv, OwnCheckpoints
  <2> QED BY <2>1, <2>2, TodoMoves
<1> QED BY <1>4, <1>5, <1>6, <1>7 DEF Numbered

LEMMA OneInHandStep ==
  ASSUME TypeInv, TypeInv', Numbered, OneInHand, mode = "sequential", [Next]_vars
  PROVE  OneInHand'
<1> USE DEF InHand
<1>1. ASSUME NEW c \in Calls, NEW f \in Files, Prepare(c, f) PROVE OneInHand'
  BY <1>1, PrepareIs DEF OneInHand
<1>2. ASSUME NEW c \in Calls, CompleteSave(c) PROVE OneInHand'
  BY <1>2, CompleteSaveIs DEF OneInHand
<1>3. ASSUME NEW k \in Clients, SaveNext(k) PROVE OneInHand'
  <2>1. ~active
    BY <1>3, SaveNextIs DEF OneInHand
  <2>2. \A c \in Calls : InHand(c) => cp'[c].created = cp[c].created
    BY <1>3, SaveNextIs
  <2> QED BY <1>3, <2>1, <2>2, SaveNextIs DEF OneInHand
<1>4. ASSUME NEW c \in Calls, NEW v \in State, Execute(c, v) PROVE OneInHand'
  <2>1. stage[c] = "ready" /\ stage' = [stage EXCEPT ![c] = "executed"] /\ UNCHANGED <<cp, clock, active, client>>
    BY <1>4 DEF Execute, MayExecute
  <2> QED BY <2>1 DEF OneInHand, TypeInv, TypeOK
<1>5. ASSUME NEW c \in Calls,
             Block(c) \/ CompleteLoad(c) \/ CompleteFails(c) \/ CancelCall(c) \/ PrepareFails(c)
      PROVE  OneInHand'
  <2>1. /\ UNCHANGED <<cp, clock, active, client>>
        /\ \E s \in {"executed", "saving", "over", "gone"} :
             stage' = [stage EXCEPT ![c] = s] /\ (s \in {"executed", "saving"} => InHand(c))
             /\ (s = "executed" => active)
    BY <1>5 DEF Block, CompleteLoad, CompleteFails, CancelCall, PrepareFails, Abandoned, OneInHand
  <2> QED BY <2>1 DEF OneInHand, TypeInv, TypeOK
<1>6. CASE EndRun \/ Crash
  <2>1. /\ UNCHANGED <<cp, clock>> /\ active' = FALSE
        /\ \A c \in Calls : stage'[c] \in {"saving", "over", "gone"} /\ (stage'[c] = "saving" => stage[c] = "saving")
    BY <1>6 DEF EndRun, Crash, Abandoned, TypeInv, TypeOK
  <2> QED BY <2>1 DEF OneInHand
<1>7. CASE UNCHANGED <<cp, clock, stage, active, client>>
  BY <1>7 DEF OneInHand
<1>8. ASSUME NEW k \in Clients, Request(k), ~SaveNext(k) PROVE OneInHand'
  <2>1. ~active
    BY <1>8 DEF Request, RestoreCheck, RestoreWrite, AcceptAll, RollbackCheck, RollbackFile,
       MarkAllRolledBack, RequestDies, Idle, OneInHand
  <2>2. UNCHANGED <<cp, clock, stage, active>>
    BY <1>8 DEF Request, RestoreCheck, RestoreWrite, AcceptAll, RollbackCheck, RollbackFile,
       MarkAllRolledBack, RequestDies, callVars
  <2> QED BY <2>1, <2>2, SMTT(30) DEF OneInHand
<1> QED BY <1>1, <1>2, <1>3, <1>4, <1>5, <1>6, <1>7, <1>8
    DEF Next, Call, OutsideWrite, callVars, vars

\* What nobody may have touched so far was not touched before.
LEMMA Untouched ==
  ASSUME TypeInv, [Next]_vars
  PROVE  tampered \subseteq tampered' /\ disordered \subseteq disordered'
<1>1. \A S, T : S \subseteq S \cup T
  OBVIOUS
<1>2. disordered \subseteq Files
  BY DEF TypeInv, TypeOK
<1> QED BY <1>1, <1>2
    DEF Next, Call, Prepare, PrepareFails, Execute, Block, CompleteLoad, CompleteSave, CompleteFails, CancelCall,
        EndRun, Crash, OutsideWrite, Request, RestoreCheck, RestoreWrite, AcceptAll, RollbackCheck,
        RollbackFile, MarkAllRolledBack, SaveNext, RequestDies, history, vars

\* No newer checkpoint appears for a file that stays in order once the run is over.
LEMMA StaysNewest ==
  ASSUME TypeInv, Numbered, [Next]_vars, ~active, NEW c \in Calls,
         cp[c].path \notin disordered', c \in Left(cp[c].path), ~Newer(c),
         \A k \in Clients : ~SaveNext(k)
  PROVE  /\ c \in Left(cp[c].path)' /\ ~Newer(c)'
         /\ cp'[c].path = cp[c].path /\ cp'[c].before = cp[c].before /\ cp'[c].created = cp[c].created
<1>1. ASSUME NEW d \in Calls, CompleteSave(d) PROVE
         /\ c \in Left(cp[c].path)' /\ ~Newer(c)'
         /\ cp'[c].path = cp[c].path /\ cp'[c].before = cp[c].before /\ cp'[c].created = cp[c].created
  <2>1. \A e \in Calls : /\ cp'[e].path = cp[e].path /\ cp'[e].created = cp[e].created /\ cp'[e].before = cp[e].before
                         /\ cp'[e].status = IF e = d THEN "applied" ELSE cp[e].status
    BY <1>1, CompleteSaveIs
  <2>2. cp[d].path = cp[c].path => cp[d].status = "prepared"
    BY <1>1, CompleteSaveIs
  <2> QED BY <2>1, <2>2 DEF Left, Newer
<1>2. CASE UNCHANGED <<cp, clock>>
  BY <1>2 DEF Left, Newer
<1> QED BY <1>1, <1>2, CheckpointsMove, PrepareIs

LEMMA RestoreStep ==
  ASSUME TypeInv, TypeInv', Numbered, OneInHand, OneClient, [Next]_vars,
         NEW k \in Clients, RestoreOK(k)
  PROVE  RestoreOK(k)'
<1>1. CASE active
  <2>1. client[k].stage = "idle" /\ \A j \in Clients : client[j].stage = "idle"
    BY <1>1 DEF OneInHand
  <2>2. client'[k].stage = "idle"
    <3>1. UNCHANGED client \/ Crash
      BY <1>1, <2>1 DEF Next, Call, Prepare, PrepareFails, Execute, Block, CompleteLoad, CompleteSave, CompleteFails, CancelCall,
        EndRun, Crash, OutsideWrite, Request, RestoreCheck, RestoreWrite, AcceptAll, RollbackCheck,
        RollbackFile, MarkAllRolledBack, SaveNext, RequestDies, Idle, vars
    <3> QED BY <2>1, <3>1 DEF Crash, Rest
  <2> QED BY <2>2 DEF RestoreOK
<1>2. CASE ~active
  <2> SUFFICES ASSUME client'[k].stage = "restoring" \/ (client'[k].stage = "saving" /\ client'[k].as = "rolled_back"),
                      NEW p \in client'[k].todo, p.path \notin disordered'
               PROVE  /\ client'[k].todo = {p} /\ p.call \in Left(p.path)' /\ ~Newer(p.call)'
                      /\ client'[k].stage = "saving" /\ p.path \notin tampered' => file'[p.path] = p.before
    BY DEF RestoreOK
  <2>0. p \in Checkpoint /\ p.path \in Files /\ p.call \in Calls
    BY DEF TypeInv, TypeOK, Checkpoint
  <2>1. p.path \notin disordered
    BY Untouched
  <2>2. ASSUME p \in client[k].todo,
               client[k].stage = "restoring" \/ (client[k].stage = "saving" /\ client[k].as = "rolled_back"),
               \A j \in Clients : ~SaveNext(j)
        PROVE  client[k].todo = {p} /\ p.call \in Left(p.path)' /\ ~Newer(p.call)' /\ cp[p.call].path = p.path
    <3>1. client[k].todo = {p} /\ p.call \in Left(p.path) /\ ~Newer(p.call)
      BY <2>1, <2>2 DEF RestoreOK
    <3>2. cp[p.call].path = p.path
      BY <3>1 DEF Left
    <3> QED BY <1>2, <2>0, <2>2, <3>1, <3>2, StaysNewest
  <2>3. ASSUME UNCHANGED <<client, file>> \/ \E f \in Files, v \in State : OutsideWrite(f, v)
        PROVE  /\ client'[k].todo = {p} /\ p.call \in Left(p.path)' /\ ~Newer(p.call)'
               /\ client'[k].stage = "saving" /\ p.path \notin tampered' => file'[p.path] = p.before
    <3>1. client' = client /\ tampered \subseteq tampered'
      BY <2>3, Untouched DEF OutsideWrite
    <3>2. \A j \in Clients : ~SaveNext(j)
      <4> SUFFICES ASSUME NEW j \in Clients, SaveNext(j) PROVE FALSE
        OBVIOUS
      <4>1. PICK x \in client[j].todo : client'[j] = AfterSave(j, x) /\ client[j].stage = "saving"
        BY SaveNextIs
      <4>2. x \notin AfterSave(j, x).todo
        <5>1. Rest.todo = {}
          BY DEF Rest
        <5>2. [client[j] EXCEPT !.todo = @ \ {x}].todo = client[j].todo \ {x}
          BY DEF TypeInv, TypeOK
        <5> QED BY <5>1, <5>2 DEF AfterSave
      <4> QED BY <3>1, <4>1, <4>2
    <3>3. p \in client[k].todo /\ (client[k].stage = "restoring" \/ (client[k].stage = "saving" /\ client[k].as = "rolled_back"))
      BY <3>1
    <3>4. p.path \notin tampered' => file'[p.path] = file[p.path] /\ p.path \notin tampered
      <4>1. ASSUME NEW f \in Files, NEW v \in State, OutsideWrite(f, v), p.path \notin tampered'
            PROVE  file'[p.path] = file[p.path]
        <5>1. p.path # f
          BY <4>1 DEF OutsideWrite
        <5> QED BY <2>0, <4>1, <5>1 DEF OutsideWrite, TypeInv, TypeOK
      <4> QED BY <2>3, <3>1, <4>1
    <3>5. client[k].stage = "saving" /\ p.path \notin tampered => file[p.path] = p.before
      BY <2>1, <3>3 DEF RestoreOK
    <3> QED BY <2>2, <3>1, <3>2, <3>3, <3>4, <3>5
  <2>4. ASSUME NEW c \in Calls, RestoreCheck(k, c)
        PROVE  /\ client'[k].todo = {p} /\ p.call \in Left(p.path)' /\ ~Newer(p.call)'
               /\ client'[k].stage = "saving" /\ p.path \notin tampered' => file'[p.path] = p.before
    <3>1. client'[k].todo = {cp[c]} /\ client'[k].stage = "restoring"
      BY <2>4 DEF RestoreCheck, Rest, TypeInv, TypeOK
    <3>2. p = cp[c] /\ p.call = c
      BY <3>1 DEF TypeInv, OwnCheckpoints
    <3>3. ~Newer(c) /\ cp[c].status \in {"prepared", "applied"} /\ cp' = cp
      BY <2>4, <3>2 DEF RestoreCheck, Restorable
    <3> QED BY <3>1, <3>2, <3>3 DEF Left, Newer
  <2>5. ASSUME RestoreWrite(k)
        PROVE  /\ client'[k].todo = {p} /\ p.call \in Left(p.path)' /\ ~Newer(p.call)'
               /\ client'[k].stage = "saving" /\ p.path \notin tampered' => file'[p.path] = p.before
    <3>1. client[k].stage = "restoring" /\ client'[k].todo = client[k].todo /\ UNCHANGED cp
      BY <2>5 DEF RestoreWrite, TypeInv, TypeOK
    <3>2. client[k].todo = {p} /\ p.call \in Left(p.path) /\ ~Newer(p.call)
      BY <2>1, <3>1 DEF RestoreOK
    <3>3. file'[p.path] = p.before
      BY <2>0, <2>5, <3>2 DEF RestoreWrite, TypeInv, TypeOK
    <3> QED BY <3>1, <3>2, <3>3 DEF Left, Newer
  <2>6. ASSUME SaveNext(k) PROVE FALSE
    <3>1. PICK x \in client[k].todo : client'[k] = AfterSave(k, x) /\ client[k].stage = "saving"
      BY <2>6, SaveNextIs
    <3>2. CASE client[k].todo = {x}
      BY <3>1, <3>2 DEF AfterSave, Rest
    <3>3. CASE client[k].todo # {x}
      <4>1. /\ client'[k].todo = client[k].todo \ {x}
            /\ client'[k].stage = client[k].stage /\ client'[k].as = client[k].as
        BY <3>1, <3>3 DEF AfterSave, TypeInv, TypeOK
      <4>2. client[k].todo = {p}
        BY <2>1, <3>1, <4>1 DEF RestoreOK
      <4> QED BY <3>1, <4>1, <4>2
    <3> QED BY <3>2, <3>3
  <2>7. ~MarkAllRolledBack(k)
    BY <2>0 DEF MarkAllRolledBack
  <2>8. ~AcceptAll(k) /\ ~RollbackCheck(k) /\ ~RequestDies(k) /\ ~Crash /\ \A f \in Files : ~RollbackFile(k, f)
    <3>1. client'[k] # Rest
      BY DEF Rest
    <3>2. AcceptAll(k) => client'[k].stage = "saving" /\ client'[k].as = "accepted"
      BY DEF AcceptAll, Rest, TypeInv, TypeOK
    <3>3. RollbackCheck(k) => client'[k].stage = "rolling"
      BY DEF RollbackCheck, Rest, TypeInv, TypeOK
    <3>4. \A f \in Files : RollbackFile(k, f) => client'[k].stage = "rolling"
      <4> SUFFICES ASSUME NEW f \in Files, RollbackFile(k, f) PROVE client'[k].stage = "rolling"
        OBVIOUS
      <4>1. client'[k] = [client[k] EXCEPT !.left = @ \ {f}] /\ client[k].stage = "rolling"
        BY DEF RollbackFile, TypeInv, TypeOK
      <4>2. [client[k] EXCEPT !.left = @ \ {f}].stage = client[k].stage
        BY DEF TypeInv, TypeOK
      <4> QED BY <4>1, <4>2
    <3> QED BY <3>1, <3>2, <3>3, <3>4 DEF RequestDies, Crash, TypeInv, TypeOK
  <2>9. \A j \in Clients : Request(j) => j = k
    BY DEF OneClient
  <2>10. \A c \in Calls, v \in State : ~Execute(c, v)
    BY <1>2 DEF Execute, MayExecute, OneInHand
  <2> QED BY <2>3, <2>4, <2>5, <2>6, <2>7, <2>8, <2>9, <2>10
      DEF Next, Call, Prepare, PrepareFails, Block, CompleteLoad, CompleteSave, CompleteFails, CancelCall,
          EndRun, Request, vars
<1> QED BY <1>1, <1>2

----
(***************************************************************************)
(* What the steps do to the trail                                          *)
(***************************************************************************)
\* A step that changes neither a file nor what its checkpoints say.
LEMMA TrailStays ==
  ASSUME NEW f, UNCHANGED <<base, Left(f)>>,
         \A c \in Left(f) : /\ cp'[c].path = cp[c].path /\ cp'[c].before = cp[c].before
                            /\ cp'[c].created = cp[c].created /\ cp'[c].after = cp[c].after
  PROVE  \A v, n : OnTrail(f, v, n) => OnTrail(f, v, n)'
<1> SUFFICES ASSUME NEW v, NEW n, OnTrail(f, v, n) PROVE OnTrail(f, v, n)'
  OBVIOUS
<1>1. \A c : Newest(f, c, n)' => Newest(f, c, n)
  BY DEF Newest
<1> QED BY <1>1 DEF OnTrail, Undoable, Newest

\* The original content is always a start.
LEMMA OriginalOnTrail ==
  ASSUME NEW f, NEW n
  PROVE  OnTrail(f, base[f], n)
BY DEF OnTrail, Undoable, Newest, Left

LEMMA StaysUnaccepted ==
  ASSUME TypeInv, Numbered, \A k \in Clients : RestoreOK(k), [Next]_vars,
         NEW f, f \notin disordered', NoneAccepted(f)'
  PROVE  NoneAccepted(f)
<1> SUFFICES ASSUME NEW c \in Calls, cp[c].path = f, cp[c].status = "accepted" PROVE FALSE
  BY DEF NoneAccepted
<1>1. ~ \E d \in Calls, g \in Files : Prepare(d, g)
  <2>1. ASSUME NEW d \in Calls, NEW g \in Files, Prepare(d, g) PROVE FALSE
    <3>1. c # d /\ cp'[c] = cp[c]
      BY <2>1, PrepareIs
    <3> QED BY <3>1 DEF NoneAccepted
  <2> QED BY <2>1
<1>2. ASSUME NEW d \in Calls, CompleteSave(d) PROVE FALSE
  <2>1. c # d
    BY <1>2, CompleteSaveIs
  <2>2. cp'[c] = cp[c]
    BY <1>2, <2>1, CompleteSaveIs
  <2> QED BY <2>2 DEF NoneAccepted
<1>3. ASSUME NEW k \in Clients, SaveNext(k) PROVE FALSE
  <2>1. PICK p \in client[k].todo :
          /\ client[k].stage = "saving" /\ client[k].as \in {"accepted", "rolled_back"}
          /\ p.path = cp[p.call].path
          /\ cp'[p.call].status = client[k].as /\ cp'[p.call].path = p.path
          /\ disordered' = disordered /\ \A d \in Calls \ {p.call} : cp'[d] = cp[d]
    BY <1>3, SaveNextIs
  <2>2. c = p.call
    BY <2>1 DEF NoneAccepted
  <2>3. client[k].as = "rolled_back"
    BY <2>1, <2>2 DEF NoneAccepted
  <2>4. p.call \in Left(p.path)
    BY <2>1, <2>2, <2>3 DEF RestoreOK
  <2> QED BY <2>2, <2>4 DEF Left
<1>4. CASE UNCHANGED <<cp, clock>>
  BY <1>4 DEF NoneAccepted
<1> QED BY <1>1, <1>2, <1>3, <1>4, CheckpointsMove

\* A step that leaves the file, its checkpoints and their completions alone.
LEMMA TrailKept ==
  ASSUME NEW f \in Files, Trail(f), UNCHANGED <<base, clock, Left(f)>>, file'[f] = file[f],
         \A c \in Left(f) : cp'[c] = cp[c],
         \A c \in Left(f) : stage'[c] = "saving" => stage[c] = "saving" /\ seen'[c] = seen[c]
  PROVE  Trail(f)'
<1>1. PICK v : v = file[f]
  OBVIOUS
<1>2. PICK n : n = clock
  OBVIOUS
<1>3. OnTrail(f, file[f], clock)'
  <2>1. OnTrail(f, v, n)'
    BY <1>1, <1>2, TrailStays DEF Trail
  <2> QED BY <1>1, <1>2, <2>1
<1>4. ASSUME NEW c \in Left(f) PROVE OnTrail(f, cp[c].before, cp[c].created - 1)'
  <2>1. PICK b : b = cp[c].before
    OBVIOUS
  <2>2. PICK m : m = cp[c].created - 1
    OBVIOUS
  <2>3. OnTrail(f, b, m)'
    BY <2>1, <2>2, TrailStays DEF Trail
  <2> QED BY <2>1, <2>2, <2>3
<1> QED BY <1>3, <1>4 DEF Trail, Undoable

LEMMA PrepareTrail ==
  ASSUME TypeInv, TypeInv', Numbered, Numbered', OneInHand, mode = "sequential", NEW f \in Files, Trail(f),
         NEW c \in Calls, NEW g \in Files, Prepare(c, g)
  PROVE  Trail(f)'
<1>0. /\ cp[c].status = "none" /\ cp'[c].status = "prepared" /\ cp'[c].path = g
      /\ cp'[c].created = clock + 1 /\ cp'[c].before = file[g] /\ stage'[c] = "ready"
      /\ \A d \in Calls \ {c} : cp'[d] = cp[d] /\ stage'[d] = stage[d]
      /\ clock' = clock + 1 /\ clock \in Nat /\ UNCHANGED <<base, file, seen>>
      /\ \A d \in Calls : stage[d] # "saving"
  BY PrepareIs DEF InHand
<1>1. c \notin Left(f) /\ \A d \in Left(f) : d \in Calls \ {c}
  BY <1>0 DEF Left
<1>2. \A d \in Left(f) : cp[d].created \in 1 .. clock
  BY DEF Left, Numbered
<1>3. CASE f # g
  <2>1. Left(f)' = Left(f)
    BY <1>0, <1>1, <1>3 DEF Left
  <2>2. \A v, n : OnTrail(f, v, n) => OnTrail(f, v, n)'
    BY <1>0, <1>1, <2>1, TrailStays
  <2>3. OnTrail(f, file[f], clock + 1)
    BY <1>0, <1>2 DEF Trail, OnTrail, Newest
  <2>4. PICK v : v = file[f]
    OBVIOUS
  <2>5. PICK n : n = clock + 1
    OBVIOUS
  <2>6. OnTrail(f, file[f], clock)'
    <3>1. OnTrail(f, v, n)'
      BY <2>2, <2>3, <2>4, <2>5
    <3> QED BY <1>0, <2>4, <2>5, <3>1
  <2>7. ASSUME NEW d \in Left(f) PROVE OnTrail(f, cp[d].before, cp[d].created - 1)'
    <3>1. PICK b : b = cp[d].before
      OBVIOUS
    <3>2. PICK m : m = cp[d].created - 1
      OBVIOUS
    <3>3. OnTrail(f, b, m)'
      BY <2>2, <3>1, <3>2 DEF Trail
    <3> QED BY <1>0, <1>1, <3>1, <3>2, <3>3
  <2> QED BY <1>0, <1>1, <2>1, <2>6, <2>7 DEF Trail
<1>4. CASE f = g
  <2>1. Left(f)' = Left(f) \cup {c}
    BY <1>0, <1>4 DEF Left
  <2>2. ASSUME NEW v, NEW n \in Int, n <= clock, OnTrail(f, v, n) PROVE OnTrail(f, v, n)'
    <3>1. cp'[c].created > n
      BY <1>0, <2>2
    <3>2. \A d : Newest(f, d, n)' => d # c /\ Newest(f, d, n)
      BY <1>0, <1>1, <2>1, <2>2, <3>1 DEF Newest
    <3>3. \A d : Newest(f, d, n) => d \in Calls \ {c}
      BY <1>1 DEF Newest
    <3>4. (\A d \in Left(f)' : cp'[d].created > n) => v = base[f]
      BY <1>0, <1>1, <2>1, <2>2 DEF OnTrail
    <3>5. \A d : Newest(f, d, n) => Undoable(v, d, cp[d].after)
      BY <2>2 DEF OnTrail, Newest
    <3> QED BY <1>0, <3>2, <3>3, <3>4, <3>5 DEF OnTrail, Undoable
  <2>3. OnTrail(f, file[f], clock)'
    <3>1. \A d : Newest(f, d, clock)' => d = c
      BY <1>0, <1>1, <1>2, <2>1 DEF Newest
    <3>2. ~(\A d \in Left(f)' : cp'[d].created > clock + 1)
      BY <1>0, <2>1
    <3>3. \A after : Undoable(file[f], c, after)'
      BY <1>0, <1>4 DEF Undoable
    <3> QED BY <1>0, <3>1, <3>2, <3>3 DEF OnTrail, Newest
  <2>4. ASSUME NEW d \in Left(f) PROVE OnTrail(f, cp[d].before, cp[d].created - 1)'
    <3>1. PICK b : b = cp[d].before
      OBVIOUS
    <3>2. PICK m \in Int : m = cp[d].created - 1 /\ m <= clock
      BY <1>0, <1>2
    <3>3. OnTrail(f, b, m)'
      BY <2>2, <3>1, <3>2 DEF Trail
    <3> QED BY <1>0, <1>1, <3>1, <3>2, <3>3
  <2>5. OnTrail(f, cp[c].before, cp[c].created - 1)'
    <3>1. PICK b : b = file[f]
      OBVIOUS
    <3>2. PICK m \in Int : m = clock /\ m <= clock /\ m = clock + 1 - 1
      BY <1>0
    <3>3. OnTrail(f, b, m)'
      BY <2>2, <3>1, <3>2 DEF Trail
    <3> QED BY <1>0, <1>4, <3>1, <3>2, <3>3
  <2> QED BY <1>0, <1>1, <2>1, <2>3, <2>4, <2>5 DEF Trail
<1> QED BY <1>3, <1>4

\* Only one checkpoint is the newest, and the call in hand made it.
LEMMA OneNewest ==
  ASSUME TypeInv, Numbered, NEW f, NEW c \in Left(f), NEW d \in Left(f), cp[d].created = cp[c].created
  PROVE  d = c
BY DEF Numbered, Left

\* A file that is written: what is written must be on the trail.
LEMMA WrittenTrail ==
  ASSUME NEW f \in Files, Trail(f), UNCHANGED <<base, clock, cp>>, OnTrail(f, file[f], clock)',
         \A c \in Left(f) :
           stage'[c] = "saving" /\ cp[c].status = "prepared" => Undoable(file'[f], c, seen'[c])
  PROVE  Trail(f)'
<1>1. Left(f)' = Left(f)
  BY DEF Left
<1>2. ASSUME NEW c \in Left(f) PROVE OnTrail(f, cp[c].before, cp[c].created - 1)'
  <2>1. PICK b : b = cp[c].before
    OBVIOUS
  <2>2. PICK m : m = cp[c].created - 1
    OBVIOUS
  <2>3. OnTrail(f, b, m)'
    BY <1>1, <2>1, <2>2, TrailStays DEF Trail
  <2> QED BY <2>1, <2>2, <2>3
<1> QED BY <1>1, <1>2 DEF Trail, Undoable

LEMMA ExecuteTrail ==
  ASSUME TypeInv, Numbered, OneInHand, mode = "sequential", NEW f \in Files, Trail(f),
         NEW c \in Calls, NEW v \in State, Execute(c, v)
  PROVE  Trail(f)'
<1>1. /\ stage[c] = "ready" /\ Recoverable(cp[c].before)
      /\ file' = [file EXCEPT ![cp[c].path] = v] /\ stage' = [stage EXCEPT ![c] = "executed"]
      /\ UNCHANGED <<base, cp, clock, seen>>
  BY DEF Execute, MayExecute
<1>2. /\ cp[c].status = "prepared" /\ cp[c].created = clock /\ cp[c].after = Unrecorded
      /\ \A d \in Calls : stage[d] = "saving" => cp[d].created = clock
  BY <1>1 DEF OneInHand, InHand, Numbered
<1>3. Left(f)' = Left(f)
  BY <1>1 DEF Left
<1>4. CASE cp[c].path # f
  <2>1. file'[f] = file[f] /\ \A d \in Left(f) : stage'[d] = "saving" => stage[d] = "saving"
    BY <1>1, <1>4 DEF TypeInv, TypeOK, Left
  <2> QED BY <1>1, <1>3, <2>1, TrailKept
<1>5. CASE cp[c].path = f
  <2>1. c \in Left(f) /\ clock \in Nat /\ \A d \in Left(f) : cp[d].created \in Nat
    BY <1>2, <1>5 DEF Left, TypeInv, TypeOK, Checkpoint
  <2>2. \A d : Newest(f, d, clock) => d = c
    <3> SUFFICES ASSUME NEW d, Newest(f, d, clock) PROVE d = c
      OBVIOUS
    <3>1. d \in Left(f) /\ cp[d].created <= clock /\ cp[c].created <= cp[d].created
      BY <1>2, <2>1 DEF Newest
    <3>2. cp[d].created = cp[c].created
      BY <1>2, <2>1, <3>1
    <3> QED BY <2>1, <3>1, <3>2, OneNewest
  <2>3. Undoable(file'[f], c, cp[c].after)
    BY <1>1, <1>2 DEF Undoable
  <2>4. OnTrail(f, file[f], clock)'
    <3>1. \A d : Newest(f, d, clock)' => d = c
      BY <1>1, <1>3, <2>2 DEF Newest
    <3>2. ~(\A d \in Left(f)' : cp'[d].created > clock')
      BY <1>1, <1>2, <1>3, <2>1
    <3>3. Undoable(file[f], c, cp[c].after)'
      BY <1>1, <2>3 DEF Undoable
    <3> QED BY <3>1, <3>2, <3>3 DEF OnTrail, Newest
  <2>5. \A d \in Left(f) : stage'[d] # "saving"
    <3> SUFFICES ASSUME NEW d \in Left(f), stage'[d] = "saving" PROVE FALSE
      OBVIOUS
    <3>1. d \in Calls /\ d # c /\ stage[d] = "saving"
      BY <1>1 DEF Left, TypeInv, TypeOK
    <3> QED BY <1>2, <2>1, <3>1, OneNewest
  <2> QED BY <1>1, <2>4, <2>5, WrittenTrail
<1> QED BY <1>4, <1>5

LEMMA CompleteLoadTrail ==
  ASSUME TypeInv, Numbered, OneInHand, mode = "sequential", NEW f \in Files, Trail(f),
         NEW c \in Calls, CompleteLoad(c)
  PROVE  Trail(f)'
<1>1. /\ stage[c] = "executed" /\ cp[c].status = "prepared"
      /\ seen' = [seen EXCEPT ![c] = file[cp[c].path]] /\ stage' = [stage EXCEPT ![c] = "saving"]
      /\ UNCHANGED <<base, cp, clock, file>>
  BY DEF CompleteLoad, Captured
<1>2. Left(f)' = Left(f)
  BY <1>1 DEF Left
<1>3. OnTrail(f, file[f], clock)'
  <2>1. OnTrail(f, file[f], clock)
    BY DEF Trail
  <2> QED BY <1>1, <1>2, <2>1 DEF OnTrail, Newest, Undoable
<1>4. ASSUME NEW d \in Left(f), stage'[d] = "saving", cp[d].status = "prepared"
      PROVE  Undoable(file'[f], d, seen'[d])
  <2>1. CASE d # c
    <3>1. stage[d] = "saving" /\ seen'[d] = seen[d]
      BY <1>1, <1>4, <2>1 DEF Left, TypeInv, TypeOK
    <3> QED BY <1>1, <1>4, <3>1 DEF Trail
  <2>2. CASE d = c
    <3>1. seen'[c] = file[f] /\ cp[c].created = clock /\ c \in Left(f)
      BY <1>1, <1>4, <2>2 DEF Left, TypeInv, TypeOK, OneInHand, InHand
    <3>2. Newest(f, c, clock)
      <4>1. clock \in Nat
        BY DEF TypeInv, TypeOK
      <4> QED BY <3>1, <4>1 DEF Newest
    <3>3. Undoable(file[f], c, cp[c].after)
      BY <3>1, <3>2 DEF Trail, OnTrail
    <3> QED BY <1>1, <2>2, <3>1, <3>3 DEF Undoable
  <2> QED BY <2>1, <2>2
<1> QED BY <1>1, <1>3, <1>4, WrittenTrail

LEMMA CompleteSaveTrail ==
  ASSUME TypeInv, Numbered, OneInHand, mode = "sequential", NEW f \in Files, Trail(f),
         f \notin disordered', NEW c \in Calls, CompleteSave(c)
  PROVE  Trail(f)'
<1>1. /\ stage[c] = "saving" /\ stage'[c] = "over" /\ cp[c].created = clock
      /\ cp'[c].status = "applied" /\ cp'[c].after = seen[c]
      /\ cp'[c].path = cp[c].path /\ cp'[c].before = cp[c].before /\ cp'[c].created = cp[c].created
      /\ \A d \in Calls \ {c} : cp'[d] = cp[d] /\ stage'[d] = stage[d] /\ seen'[d] = seen[d]
      /\ cp[c].path = f => cp[c].status = "prepared"
      /\ UNCHANGED <<base, file, clock>>
  BY CompleteSaveIs DEF OneInHand, InHand
<1>2. Left(f)' = Left(f)
  BY <1>1 DEF Left
<1>3. CASE cp[c].path # f
  <2>1. \A d \in Left(f) : d \in Calls \ {c}
    BY <1>3 DEF Left
  <2> QED BY <1>1, <1>2, <2>1, TrailKept
<1>4. CASE cp[c].path = f
  <2>1. c \in Left(f) /\ clock \in Nat /\ \A d \in Left(f) : cp[d].created \in 1 .. clock
    BY <1>1, <1>4 DEF Left, Numbered, TypeInv, TypeOK
  <2>2. ASSUME NEW v, NEW n, OnTrail(f, v, n), Newest(f, c, n) => Undoable(v, c, seen[c])
        PROVE  OnTrail(f, v, n)'
    <3>1. \A d : Newest(f, d, n)' => Newest(f, d, n) /\ d \in Calls
      BY <1>1, <1>2 DEF Newest, Left
    <3>2. \A d \in Calls : Newest(f, d, n) => Undoable(v, d, cp'[d].after)
      BY <1>1, <2>2 DEF OnTrail, Newest
    <3>3. \A d \in Calls : \A after : Undoable(v, d, after) => Undoable(v, d, after)'
      BY <1>1 DEF Undoable
    <3>4. (\A d \in Left(f)' : cp'[d].created > n) => v = base[f]
      BY <1>1, <1>2, <2>2 DEF OnTrail, Left
    <3>5. \A d : Newest(f, d, n)' => Undoable(v, d, cp[d].after)'
      BY <3>1, <3>2, <3>3
    <3> QED BY <1>1, <3>4, <3>5 DEF OnTrail
  <2>3. OnTrail(f, file[f], clock)'
    <3>1. PICK v : v = file[f]
      OBVIOUS
    <3>2. PICK n : n = clock
      OBVIOUS
    <3>3. Undoable(v, c, seen[c])
      BY <1>1, <1>4, <2>1, <3>1 DEF Trail
    <3>4. OnTrail(f, v, n)'
      BY <2>2, <3>1, <3>2, <3>3 DEF Trail
    <3> QED BY <1>1, <3>1, <3>2, <3>4
  <2>4. ASSUME NEW d \in Left(f) PROVE OnTrail(f, cp[d].before, cp[d].created - 1)'
    <3>1. PICK b : b = cp[d].before
      OBVIOUS
    <3>2. PICK m : m = cp[d].created - 1
      OBVIOUS
    <3>3. ~Newest(f, c, m)
      <4>1. ~(clock <= m)
        BY <2>1, <3>2
      <4> QED BY <1>1, <4>1 DEF Newest
    <3>4. OnTrail(f, b, m)'
      BY <2>2, <3>1, <3>2, <3>3 DEF Trail
    <3>5. cp'[d].before = b /\ cp'[d].created = cp[d].created
      BY <1>1, <3>1 DEF Left
    <3> QED BY <3>2, <3>4, <3>5
  <2>5. ASSUME NEW d \in Left(f), stage'[d] = "saving", cp'[d].status = "prepared"
        PROVE  Undoable(file[f], d, seen[d])'
    <3>1. d \in Calls \ {c}
      BY <1>1, <2>5 DEF Left
    <3>2. Undoable(file[f], d, seen[d])
      BY <1>1, <2>5, <3>1 DEF Trail
    <3> QED BY <1>1, <3>1, <3>2 DEF Undoable
  <2> QED BY <1>2, <2>3, <2>4, <2>5 DEF Trail
<1> QED BY <1>3, <1>4

LEMMA RestoreWriteTrail ==
  ASSUME TypeInv, Numbered, OneInHand, mode = "sequential", NEW f \in Files, Trail(f),
         f \notin disordered, NEW k \in Clients, RestoreOK(k), RestoreWrite(k)
  PROVE  Trail(f)'
<1>1. PICK p \in client[k].todo : file' = [file EXCEPT ![p.path] = p.before]
  BY DEF RestoreWrite
<1>2. UNCHANGED <<base, cp, clock, stage, seen>> /\ client[k].stage = "restoring"
  BY DEF RestoreWrite, callVars
<1>3. p \in Checkpoint /\ p.path \in Files /\ p.call \in Calls
  BY DEF TypeInv, TypeOK, Checkpoint
<1>4. CASE p.path # f
  <2>1. file'[f] = file[f] /\ Left(f)' = Left(f)
    BY <1>1, <1>2, <1>4 DEF TypeInv, TypeOK, Left
  <2> QED BY <1>2, <2>1, TrailKept
<1>5. CASE p.path = f
  <2>1. p.call \in Left(f) /\ ~Newer(p.call)
    BY <1>2, <1>5 DEF RestoreOK
  <2>2. PICK c \in Left(f) : c = p.call /\ ~Newer(c)
    BY <2>1
  <2>3. p.before = cp[c].before /\ cp[c].path = f
    BY <2>2 DEF TypeInv, OwnCheckpoints, Faithful, Left
  <2>4. file'[f] = cp[c].before
    BY <1>1, <1>5, <2>3 DEF TypeInv, TypeOK
  <2>5. clock \in Nat /\ \A d \in Left(f) : cp[d].created \in 1 .. clock /\ cp[d].created <= cp[c].created
    BY <2>2, <2>3 DEF Left, Numbered, TypeInv, TypeOK, Newer, Checkpoint
  <2>6. \A d : Newest(f, d, clock) => d = c
    <3> SUFFICES ASSUME NEW d, Newest(f, d, clock) PROVE d = c
      OBVIOUS
    <3>1. d \in Left(f) /\ cp[c].created <= cp[d].created
      BY <2>5 DEF Newest
    <3>2. cp[d].created = cp[c].created
      BY <2>5, <3>1
    <3> QED BY <3>1, <3>2, OneNewest
  <2>7. Left(f)' = Left(f)
    BY <1>2 DEF Left
  <2>8. OnTrail(f, file[f], clock)'
    <3>1. \A d : Newest(f, d, clock)' => d = c
      BY <1>2, <2>6, <2>7 DEF Newest
    <3>2. ~(\A d \in Left(f)' : cp'[d].created > clock')
      BY <1>2, <2>5, <2>7
    <3>3. \A after : Undoable(file[f], c, after)'
      BY <1>2, <2>4 DEF Undoable
    <3> QED BY <3>1, <3>2, <3>3 DEF OnTrail, Newest
  <2>9. ASSUME NEW d \in Left(f), stage'[d] = "saving" PROVE Undoable(file'[f], d, seen'[d])
    <3>1. d \in Calls /\ cp[d].created = clock
      BY <1>2, <2>9 DEF Left, OneInHand, InHand
    <3>2. d = c
      <4>1. cp[d].created = cp[c].created
        BY <2>5, <3>1
      <4> QED BY <4>1, OneNewest
    <3> QED BY <2>4, <3>2 DEF Undoable
  <2> QED BY <1>2, <2>8, <2>9, WrittenTrail
<1> QED BY <1>4, <1>5

LEMMA RollbackFileTrail ==
  ASSUME TypeInv, NEW f \in Files, Trail(f), NEW k \in Clients, NEW g \in Files, RollbackFile(k, g)
  PROVE  Trail(f)'
<1>1. UNCHANGED <<base, cp, clock, stage, seen>> /\ Left(f)' = Left(f)
  BY DEF RollbackFile, callVars, Left
<1>2. CASE f # g
  <2>1. file'[f] = file[f]
    BY <1>2 DEF RollbackFile, TypeInv, TypeOK
  <2> QED BY <1>1, <2>1, TrailKept
<1>3. CASE f = g
  <2>1. file'[f] = base[f]
    BY <1>3 DEF RollbackFile, TypeInv, TypeOK
  <2>2. OnTrail(f, file[f], clock)'
    <3>1. file'[f] = base'[f]
      BY <1>1, <2>1
    <3> QED BY <3>1 DEF OnTrail, Undoable, Newest, Left
  <2>3. \A c \in Left(f) : Undoable(file'[f], c, seen'[c])
    BY <2>1 DEF Undoable, Left
  <2> QED BY <1>1, <2>2, <2>3, WrittenTrail
<1> QED BY <1>2, <1>3

LEMMA SaveNextTrail ==
  ASSUME TypeInv, Numbered, NEW f \in Files, Trail(f), f \notin disordered \cup tampered, NoneAccepted(f)',
         NEW k \in Clients, RestoreOK(k), SaveNext(k)
  PROVE  Trail(f)'
<1>1. PICK p \in client[k].todo :
        /\ client[k].stage = "saving" /\ client[k].as \in {"accepted", "rolled_back"}
        /\ p.call \in Calls /\ p.path = cp[p.call].path /\ p.before = cp[p.call].before
        /\ cp'[p.call].status = client[k].as /\ cp'[p.call].path = p.path
        /\ \A d \in Calls \ {p.call} : cp'[d] = cp[d]
        /\ UNCHANGED <<base, file, clock, stage, seen>>
  BY SaveNextIs
<1>2. CASE p.path # f
  <2>1. Left(f)' = Left(f) /\ \A d \in Left(f) : d \in Calls \ {p.call}
    BY <1>1, <1>2 DEF Left
  <2> QED BY <1>1, <2>1, TrailKept
<1>3. CASE p.path = f
  <2>1. client[k].as = "rolled_back"
    BY <1>1, <1>3 DEF NoneAccepted
  <2>2. p.call \in Left(f) /\ ~Newer(p.call) /\ file[f] = p.before
    BY <1>1, <1>3, <2>1 DEF RestoreOK
  <2>3. PICK c \in Left(f) : c = p.call /\ ~Newer(c) /\ file[f] = cp[c].before
    BY <1>1, <2>2
  <2>4. Left(f)' = Left(f) \ {c}
    BY <1>1, <1>3, <2>1, <2>3 DEF Left
  <2>5. clock \in Nat /\ \A d \in Left(f) : cp[d].created \in 1 .. clock /\ cp[d].created <= cp[c].created
    BY <1>1, <1>3, <2>3 DEF Left, Numbered, TypeInv, TypeOK, Newer, Checkpoint
  <2>6. \A d \in Left(f) \ {c} : cp'[d] = cp[d] /\ cp[d].created <= cp[c].created - 1
    <3> TAKE d \in Left(f) \ {c}
    <3>1. cp[d].created # cp[c].created
      BY OneNewest
    <3> QED BY <1>1, <2>3, <2>5, <3>1 DEF Left
  <2>7. ASSUME NEW v, NEW n \in Int, NEW m \in Int, OnTrail(f, v, m), m < cp[c].created,
               \A d \in Left(f) \ {c} : cp[d].created <= n <=> cp[d].created <= m
        PROVE  OnTrail(f, v, n)'
    <3>1. \A d : Newest(f, d, n)' => Newest(f, d, m) /\ d \in Left(f) \ {c}
      <4>1. ~(cp[c].created <= m)
        BY <2>5, <2>7
      <4> QED BY <2>4, <2>6, <2>7, <4>1 DEF Newest
    <3>2. \A d : Newest(f, d, m) => Undoable(v, d, cp[d].after)
      BY <2>7 DEF OnTrail, Newest
    <3>3. (\A d \in Left(f)' : cp'[d].created > n) => v = base[f]
      <4> SUFFICES ASSUME \A d \in Left(f)' : cp'[d].created > n PROVE v = base[f]
        OBVIOUS
      <4>1. \A d \in Left(f) : cp[d].created > m
        <5> TAKE d \in Left(f)
        <5>1. CASE d = c
          BY <2>5, <2>7, <5>1
        <5>2. CASE d # c
          <6>1. ~(cp[d].created <= n)
            BY <2>4, <2>5, <2>6, <5>2
          <6> QED BY <2>5, <2>7, <5>2, <6>1
        <5> QED BY <5>1, <5>2
      <4> QED BY <2>7, <4>1 DEF OnTrail
    <3> QED BY <1>1, <2>4, <2>6, <3>1, <3>2, <3>3 DEF OnTrail, Undoable
  <2>8. OnTrail(f, file[f], clock)'
    <3>1. PICK v : v = file[f]
      OBVIOUS
    <3>2. PICK n \in Int : n = clock
      BY <2>5
    <3>3. PICK m \in Int : m = cp[c].created - 1
      BY <2>5
    <3>4. \A d \in Left(f) \ {c} : cp[d].created <= n /\ cp[d].created <= m
      BY <2>5, <2>6, <3>2, <3>3
    <3>5. OnTrail(f, v, m) /\ m < cp[c].created
      BY <2>3, <2>5, <3>1, <3>3 DEF Trail
    <3>6. OnTrail(f, v, n)'
      BY <2>7, <3>4, <3>5
    <3> QED BY <1>1, <3>1, <3>2, <3>6
  <2>9. ASSUME NEW d \in Left(f) \ {c} PROVE OnTrail(f, cp[d].before, cp[d].created - 1)'
    <3>1. PICK b : b = cp[d].before
      OBVIOUS
    <3>2. PICK m \in Int : m = cp[d].created - 1 /\ m < cp[c].created
      BY <2>5, <2>6
    <3>3. OnTrail(f, b, m)'
      BY <2>7, <3>1, <3>2 DEF Trail
    <3> QED BY <2>6, <3>1, <3>2, <3>3
  <2>10. ASSUME NEW d \in Left(f) \ {c}, stage'[d] = "saving", cp'[d].status = "prepared"
         PROVE  Undoable(file[f], d, seen[d])'
    BY <1>1, <2>6, <2>10 DEF Trail, Undoable
  <2> QED BY <2>4, <2>8, <2>9, <2>10 DEF Trail
<1> QED BY <1>2, <1>3

LEMMA TrailStep ==
  ASSUME TypeInv, TypeInv', TrailInv, OneClient, [Next]_vars
  PROVE  TrailInv'
<1> SUFFICES ASSUME mode' = "sequential" PROVE TrailInv'
  BY SMTT(30) DEF TrailInv
<1>1. mode = "sequential"
  BY DEF Next, Call, Prepare, PrepareFails, Execute, Block, CompleteLoad, CompleteSave, CompleteFails, CancelCall,
        EndRun, Crash, OutsideWrite, Request, RestoreCheck, RestoreWrite, AcceptAll, RollbackCheck,
        RollbackFile, MarkAllRolledBack, SaveNext, RequestDies, vars
<1>2. Numbered /\ OneInHand /\ (\A k \in Clients : RestoreOK(k)) /\ \A f \in Files : Followed(f)
  BY <1>1 DEF TrailInv
<1>3. Numbered' /\ OneInHand'
  BY <1>1, <1>2, NumberedStep, OneInHandStep
<1>4. \A k \in Clients : RestoreOK(k)'
  BY <1>2, RestoreStep
<1>5. ASSUME NEW f \in Files PROVE Followed(f)'
  <2> SUFFICES ASSUME f \notin tampered' \cup disordered', NoneAccepted(f)' PROVE Trail(f)'
    BY DEF Followed
  <2>1. f \notin tampered /\ f \notin disordered
    BY Untouched
  <2>2. Trail(f)
    BY <1>2, <2>1, StaysUnaccepted DEF Followed
  <2>3. ASSUME UNCHANGED <<base, clock, cp>>, file'[f] = file[f],
               \A c \in Calls : stage'[c] = "saving" => stage[c] = "saving" /\ seen'[c] = seen[c]
        PROVE  Trail(f)'
    <3>1. Left(f)' = Left(f) /\ Left(f) \subseteq Calls
      BY <2>3 DEF Left
    <3> QED BY <2>2, <2>3, <3>1, TrailKept
  <2>4. ASSUME NEW c \in Calls, Call(c) PROVE Trail(f)'
    <3>1. CASE PrepareFails(c) \/ Block(c) \/ CompleteFails(c) \/ CancelCall(c)
      <4>1. /\ UNCHANGED <<base, clock, cp, file>>
            /\ \A d \in Calls : stage'[d] = "saving" => stage[d] = "saving" /\ seen'[d] = seen[d]
        BY <3>1 DEF PrepareFails, Block, CompleteFails, CancelCall, Abandoned, TypeInv, TypeOK
      <4> QED BY <2>3, <4>1
    <3> QED BY <1>1, <1>2, <1>3, <2>2, <2>4, <3>1, PrepareTrail, ExecuteTrail, CompleteLoadTrail,
            CompleteSaveTrail DEF Call
  <2>5. CASE EndRun \/ Crash
    <3>1. /\ UNCHANGED <<base, clock, cp, file>>
          /\ \A d \in Calls : stage'[d] = "saving" => stage[d] = "saving" /\ seen'[d] = seen[d]
      BY <2>5 DEF EndRun, Crash, Abandoned, TypeInv, TypeOK
    <3> QED BY <2>3, <3>1
  <2>6. ASSUME NEW g \in Files, NEW v \in State, OutsideWrite(g, v) PROVE Trail(f)'
    <3>1. f # g /\ UNCHANGED <<base, cp, callVars>>
      BY <2>6 DEF OutsideWrite
    <3>2. file'[f] = file[f]
      BY <2>6, <3>1 DEF OutsideWrite, TypeInv, TypeOK
    <3> QED BY <2>3, <3>1, <3>2 DEF callVars
  <2>7. ASSUME NEW k \in Clients, Request(k) PROVE Trail(f)'
    <3>1. CASE \/ \E c \in Calls : RestoreCheck(k, c)
               \/ AcceptAll(k) \/ RollbackCheck(k) \/ MarkAllRolledBack(k) \/ RequestDies(k)
      <4>1. UNCHANGED <<base, clock, cp, file, stage, seen>>
        BY <3>1 DEF RestoreCheck, AcceptAll, RollbackCheck, MarkAllRolledBack, RequestDies, callVars
      <4> QED BY <2>3, <4>1
    <3> QED BY <1>1, <1>2, <2>1, <2>2, <2>7, <3>1, RestoreWriteTrail, RollbackFileTrail, SaveNextTrail
        DEF Request
  <2>8. CASE UNCHANGED vars
    BY <2>3, <2>8 DEF vars, callVars
  <2> QED BY <2>4, <2>5, <2>6, <2>7, <2>8 DEF Next
<1> QED BY <1>3, <1>4, <1>5 DEF TrailInv

----
(***************************************************************************)
(* Undoing                                                                 *)
(***************************************************************************)
\* What is found after the checkpoint made at a time, if any, is undone.
Here(f, t, now) ==
  {p \in Listed({"prepared", "applied"}) : p.created = t /\ p.path = f /\ Restorable(p, now)}
UndoneAt(f, t, now) ==
  IF Here(f, t, now) = {} THEN now ELSE (CHOOSE p \in Here(f, t, now) : TRUE).before

\* Undone, with the number of checkpoints made explicit.
Undoing(f, n) ==
  CHOOSE undo : undo =
    [i \in 0 .. n |->
       IF i = 0 THEN file[f]
       ELSE LET now == undo[i - 1]
                here == {p \in Listed({"prepared", "applied"}) :
                           p.created = n + 1 - i /\ p.path = f /\ Restorable(p, now)}
            IN IF here = {} THEN now ELSE (CHOOSE p \in here : TRUE).before]

LEMMA UndoneIs == \A f : Undone(f) = Undoing(f, clock)[clock]
BY DEF Undone, Undoing

\* The undoing exists: each value is made from the one before.
LEMMA UndoingIs ==
  ASSUME NEW f, NEW n \in Nat
  PROVE  /\ Undoing(f, n)[0] = file[f]
         /\ \A i \in 1 .. n : Undoing(f, n)[i] = UndoneAt(f, n + 1 - i, Undoing(f, n)[i - 1])
<1> DEFINE Step(undo, i) == IF i = 0 THEN file[f] ELSE UndoneAt(f, n + 1 - i, undo[i - 1])
           Upto(k, undo) == undo = [i \in 0 .. k |-> Step(undo, i)]
           stuck == {k \in 0 .. n : ~ \E undo : Upto(k, undo)}
<1>1. stuck = {}
  <2> SUFFICES ASSUME stuck # {} PROVE FALSE
    OBVIOUS
  <2>0. stuck \subseteq Nat
    OBVIOUS
  <2>1. PICK k \in stuck : \A other \in stuck : ~(<<other, k>> \in OpToRel(<, Nat))
    <3> HIDE DEF stuck
    <3> QED BY <2>0, NatLessThanWellFounded, WFMin
  <2>2. \A other \in stuck : ~(other < k)
    <3> HIDE DEF stuck
    <3> QED BY <2>0, <2>1 DEF OpToRel
  <2>3. k \in 0 .. n /\ ~ \E undo : Upto(k, undo)
    OBVIOUS
  <2>4. CASE k = 0
    <3> DEFINE u == [i \in 0 .. 0 |-> file[f]]
    <3>1. \A i \in 0 .. 0 : Step(u, i) = file[f]
      OBVIOUS
    <3>2. Upto(0, u)
      BY <3>1
    <3> QED BY <2>3, <2>4, <3>2
  <2>5. CASE k # 0
    <3>1. k - 1 \in 0 .. n /\ k - 1 < k
      BY <2>5
    <3>2. k - 1 \notin stuck
      BY <3>1, <2>2
    <3>3. PICK u : Upto(k - 1, u)
      BY <3>1, <3>2
    <3> HIDE DEF Step
    <3> DEFINE w == [i \in 0 .. k |-> IF i = k THEN Step(u, k) ELSE u[i]]
    <3>4. \A i \in 0 .. (k - 1) : w[i] = u[i] /\ i # k /\ i \in 0 .. k
      OBVIOUS
    <3>5. ASSUME NEW i \in 0 .. k PROVE Step(w, i) = Step(u, i)
      <4>1. CASE i = 0
        BY <4>1 DEF Step
      <4>2. CASE i # 0
        <5>1. i - 1 \in 0 .. (k - 1)
          BY <4>2
        <5>2. w[i - 1] = u[i - 1]
          BY <3>4, <5>1
        <5> HIDE DEF w
        <5> QED BY <5>2 DEF Step
      <4> QED BY <4>1, <4>2
    <3>6. \A i \in 0 .. k : w[i] = Step(w, i)
      <4> TAKE i \in 0 .. k
      <4>1. CASE i = k
        BY <3>5, <4>1
      <4>2. CASE i # k
        <5>1. i \in 0 .. (k - 1)
          BY <4>2
        <5>2. u[i] = Step(u, i)
          BY <3>3, <5>1
        <5> QED BY <3>4, <3>5, <5>1, <5>2
      <4> QED BY <4>1, <4>2
    <3>7. w = [i \in 0 .. k |-> w[i]]
      OBVIOUS
    <3> HIDE DEF w
    <3>8. Upto(k, w)
      BY <3>6, <3>7
    <3> QED BY <2>3, <3>8
  <2> QED BY <2>4, <2>5
<1>2. PICK undo : Upto(n, undo)
  <2>1. n \in 0 .. n
    OBVIOUS
  <2> QED BY <1>1, <2>1
<1>3. Undoing(f, n) = CHOOSE u : Upto(n, u)
  BY DEF Undoing, UndoneAt, Here
<1>4. Upto(n, Undoing(f, n))
  BY <1>2, <1>3
<1> DEFINE u == Undoing(f, n)
<1> HIDE DEF u, Step
<1>5. \A i \in 0 .. n : u[i] = Step(u, i)
  BY <1>4 DEF u
<1>6. u[0] = file[f] /\ \A i \in 1 .. n : u[i] = UndoneAt(f, n + 1 - i, u[i - 1])
  BY <1>5 DEF Step
<1> QED BY <1>6 DEF u

\* Undoing what was done at one time goes one step back on the trail.
LEMMA BackOnTrail ==
  ASSUME TypeInv, Numbered, NEW f, Trail(f), NEW t \in 1 .. clock, NEW now, OnTrail(f, now, t)
  PROVE  OnTrail(f, UndoneAt(f, t, now), t - 1)
<1>0. \A c \in Left(f) : c \in Calls /\ cp[c].created \in 1 .. clock /\ cp[c].path = f /\ clock \in Nat
  BY DEF Left, Numbered, TypeInv, TypeOK
<1>1. CASE \A c \in Left(f) : cp[c].created # t
  <2>1. Here(f, t, now) = {}
    BY <1>1 DEF Here, Listed, Left
  <2>2. UndoneAt(f, t, now) = now
    BY <2>1 DEF UndoneAt
  <2>3. \A c \in Left(f) : cp[c].created > t <=> cp[c].created > t - 1
    BY <1>0, <1>1
  <2>4. \A c : Newest(f, c, t - 1) => Newest(f, c, t)
    BY <1>0, <1>1 DEF Newest
  <2> QED BY <2>2, <2>3, <2>4 DEF OnTrail
<1>2. ASSUME NEW c \in Left(f), cp[c].created = t PROVE OnTrail(f, UndoneAt(f, t, now), t - 1)
  <2>1. Newest(f, c, t)
    BY <1>0, <1>2 DEF Newest
  <2>2. Undoable(now, c, cp[c].after)
    BY <2>1 DEF OnTrail
  <2>3. Here(f, t, now) \subseteq {cp[c]}
    <3> SUFFICES ASSUME NEW p \in Here(f, t, now) PROVE p = cp[c]
      OBVIOUS
    <3>1. PICK d \in Calls : p = cp[d] /\ d \in Left(f) /\ cp[d].created = cp[c].created
      BY <1>2 DEF Here, Listed, Left
    <3> QED BY <3>1, OneNewest
  <2>4. UndoneAt(f, t, now) \in {base[f], cp[c].before}
    <3>1. CASE Here(f, t, now) = {}
      <4>1. cp[c] \notin Here(f, t, now)
        BY <3>1
      <4>2. ~Restorable(cp[c], now)
        BY <1>2, <4>1 DEF Here, Listed, Left
      <4>3. ~(Recoverable(cp[c].before) /\ cp[c].after \in {Unrecorded, now})
        BY <4>2 DEF Restorable, NewerContent, Left
      <4> QED BY <1>0, <2>2, <3>1, <4>3 DEF Undoable, UndoneAt
    <3>2. CASE Here(f, t, now) # {}
      <4>1. (CHOOSE p \in Here(f, t, now) : TRUE) = cp[c]
        BY <2>3, <3>2
      <4> QED BY <3>2, <4>1 DEF UndoneAt
    <3> QED BY <3>1, <3>2
  <2>5. OnTrail(f, cp[c].before, t - 1)
    BY <1>2 DEF Trail
  <2> QED BY <2>4, <2>5, OriginalOnTrail
<1> QED BY <1>1, <1>2

LEMMA LeadsBack ==
  ASSUME TypeInv, Numbered, NEW f, Trail(f)
  PROVE  Undone(f) = base[f]
<1>1. PICK n \in Nat : n = clock
  BY DEF TypeInv, TypeOK
<1> DEFINE u == Undoing(f, n)
           off == {i \in 0 .. n : ~OnTrail(f, u[i], n - i)}
<1>2. off = {}
  <2> SUFFICES ASSUME off # {} PROVE FALSE
    OBVIOUS
  <2>0. off \subseteq Nat
    OBVIOUS
  <2>1. PICK k \in off : \A other \in off : ~(<<other, k>> \in OpToRel(<, Nat))
    <3> HIDE DEF off
    <3> QED BY <2>0, NatLessThanWellFounded, WFMin
  <2>2. \A other \in off : ~(other < k)
    <3> HIDE DEF off
    <3> QED BY <2>0, <2>1 DEF OpToRel
  <2>3. k \in 0 .. n /\ ~OnTrail(f, u[k], n - k)
    OBVIOUS
  <2>4. CASE k = 0
    <3>1. u[0] = file[f]
      BY UndoingIs
    <3> QED BY <1>1, <2>3, <2>4, <3>1 DEF Trail
  <2>5. CASE k # 0
    <3>1. k - 1 \in 0 .. n /\ k - 1 < k /\ k \in 1 .. n
      BY <2>3, <2>5
    <3> HIDE DEF u
    <3>2. OnTrail(f, u[k - 1], n - (k - 1))
      BY <2>2, <3>1
    <3>3. u[k] = UndoneAt(f, n + 1 - k, u[k - 1])
      BY <3>1, UndoingIs DEF u
    <3>4. PICK t \in 1 .. clock : t = n + 1 - k /\ t = n - (k - 1) /\ t - 1 = n - k
      BY <1>1, <3>1
    <3>5. OnTrail(f, UndoneAt(f, t, u[k - 1]), t - 1)
      BY <3>2, <3>4, BackOnTrail
    <3> QED BY <2>3, <3>3, <3>4, <3>5
  <2> QED BY <2>4, <2>5
<1>3. OnTrail(f, u[n], 0)
  <2>1. n \in 0 .. n /\ n - n = 0
    OBVIOUS
  <2> HIDE DEF u
  <2> QED BY <1>2, <2>1
<1>4. \A c \in Left(f) : cp[c].created > 0
  BY DEF Left, Numbered, TypeInv, TypeOK
<1>5. u[n] = base[f]
  BY <1>3, <1>4 DEF OnTrail
<1> QED BY <1>1, <1>5, UndoneIs

\* The trail back is never broken: with tools run one after the other and requests
\* served one at a time, undoing the checkpoints of a file newest first gives back
\* what it held when the task began, wherever a run was cancelled, failed or crashed
\* and a request died (checkpoints.py, controller.py).
THEOREM TrailIsKept ==
  ASSUME OneClient
  PROVE  Spec => []TrailLeadsBack
<1>1. TypeInv /\ TrailInv => TrailLeadsBack
  BY LeadsBack DEF TrailInv, Followed, TrailLeadsBack
<1>2. TypeInv /\ TypeInv' /\ TrailInv /\ [Next]_vars => TrailInv'
  BY TrailStep
<1> QED BY TypeInit, TypeStep, TrailInit, <1>1, <1>2, PTL DEF Spec
====
