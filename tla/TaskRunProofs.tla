---- MODULE TaskRunProofs ----
(***************************************************************************)
(* Theorems about TaskRun, for any number of turns and of tool calls.      *)
(***************************************************************************)
EXTENDS TaskRun, TLAPS

Working == {"loading", "head", "decide", "model", "tools", "asking", "waiting", "working",
            "ending", "closing"}
Early == {"new", "cleared", "setup"}

\* The tool calls of a turn are counted down to zero: a turn that is under way
\* has one left.
CallsCounted == pc \in {"tools", "asking", "waiting", "working"} => left > 0
TypeInv == TypeOK /\ CallsCounted

\* The flags, and what is not a flag.
FlagsOK == token \in BOOLEAN /\ cancelFile \in BOOLEAN /\ stopped \in BOOLEAN
OthersOK ==
  /\ pc \in Early \cup Working \cup {"persisting", "clearing"} \cup Gone
  /\ status \in Statuses /\ record \in Statuses \cup {"none"}
  /\ sandbox \in {"idle", "active"} /\ request \in {"idle", "working"}
  /\ turns \in 0 .. MaxTurns /\ left \in 0 .. MaxCalls
  /\ approval \in {"none", "pending", "granted", "denied"}
  /\ stopper \in {"idle", "file", "file_only", "record"}
  /\ CallsCounted

\* What a stop has done, wherever the run stands: the token is set, and where
\* only the status can tell that the run was stopped, it does.
StopInv ==
  stopped =>
    /\ token
    /\ status # "succeeded"
    /\ pc \in {"model", "ending"} => status # "running"

\* Where the sandbox is open, and where no verdict can have been given.
SandboxInv ==
  /\ pc \in Working => sandbox = "active"
  /\ pc \in Early => status \notin Terminal
  /\ request = "working" => sandbox = "idle" /\ pc \in {"persisting", "clearing"} \cup Gone

----
LEMMA TypeParts == TypeInv <=> FlagsOK /\ OthersOK
BY DEF TypeInv, TypeOK, FlagsOK, OthersOK, Early, Working

LEMMA TypeInit == Init => FlagsOK /\ OthersOK
<1>1. Init => FlagsOK
  BY DEF Init, FlagsOK
<1>2. Init => OthersOK
  BY RunAssumption DEF RunAssumption, Init, OthersOK, CallsCounted, Early, Statuses
<1> QED BY <1>1, <1>2

LEMMA FlagsStep == FlagsOK /\ [Next]_vars => FlagsOK'
<1> SUFFICES ASSUME FlagsOK, [Next]_vars PROVE FlagsOK'
  OBVIOUS
<1> USE DEF FlagsOK, loopVars, diskVars
<1>1. CASE UNCHANGED vars
  BY <1>1 DEF vars
<1>2. CASE ClearCancelFirst \/ Start \/ OpenSandbox \/ ResourcesLoaded \/ SetupFails
  BY <1>2 DEF ClearCancelFirst, Start, OpenSandbox, ResourcesLoaded, SetupFails
<1>3. CASE Turn
  BY <1>3 DEF Turn, BeginTurn, MaxTurnsReached, AskModel, Interrupted, AnswerWithoutTools,
              ModelFails, AnswerWithTools
<1>4. CASE ToolCall
  BY <1>4 DEF ToolCall, NextCall, AskUser, Granted, Denied, FinishTool
<1>5. CASE FinishLoop \/ CloseSandbox \/ Persist \/ ClearCancelLast \/ WatcherSeesFile
  BY <1>5 DEF FinishLoop, CloseSandbox, Persist, ClearCancelLast, WatcherSeesFile
<1>6. CASE Interrupt
  <2>1. (record \notin Terminal \/ cancelFile) \in BOOLEAN
    OBVIOUS
  <2> QED BY <1>6, <2>1 DEF Interrupt, RecordCancel
<1>7. CASE Answer \/ BeginRequest \/ EndRequest \/ Stop \/ Exit \/ RecoverStale
  BY <1>7 DEF Answer, ResolveApproval, BeginRequest, EndRequest, Stop, StopRead, StopWriteFile,
              StopWriteRecord, Exit, RecoverStale
<1> QED BY <1>1, <1>2, <1>3, <1>4, <1>5, <1>6, <1>7 DEF Next, Run

LEMMA OthersStep == OthersOK /\ [Next]_vars => OthersOK'
<1> SUFFICES ASSUME OthersOK, [Next]_vars PROVE OthersOK'
  OBVIOUS
<1> USE RunAssumption DEF RunAssumption, OthersOK, CallsCounted, Early, Working, Statuses, Terminal, Gone
<1>1. CASE UNCHANGED vars
  BY <1>1 DEF vars, loopVars, diskVars
<1>2. CASE ClearCancelFirst \/ Start \/ OpenSandbox \/ ResourcesLoaded \/ SetupFails
  BY <1>2 DEF ClearCancelFirst, Start, OpenSandbox, ResourcesLoaded, SetupFails, Verdict, diskVars
<1>3. CASE BeginTurn
  BY <1>3 DEF BeginTurn, TurnsLeft
<1>4. CASE MaxTurnsReached \/ AskModel \/ Interrupted \/ AnswerWithoutTools \/ ModelFails
  BY <1>4 DEF MaxTurnsReached, AskModel, Interrupted, AnswerWithoutTools, ModelFails, Verdict,
              diskVars
<1>5. ASSUME NEW n \in 1 .. MaxCalls, AnswerWithTools(n) PROVE OthersOK'
  BY <1>5 DEF AnswerWithTools, Called, Returned, CallsLeft
<1>6. CASE NextCall
  BY <1>6 DEF NextCall, Called, Returned, CallsLeft
<1>7. CASE AskUser \/ Granted
  BY <1>7 DEF AskUser, Granted
<1>8. CASE Denied \/ FinishTool
  BY <1>8 DEF Denied, FinishTool, Returned, CallsLeft
<1>9. CASE FinishLoop \/ CloseSandbox \/ Persist \/ ClearCancelLast \/ WatcherSeesFile
  BY <1>9 DEF FinishLoop, LoopVerdict, CloseSandbox, Persist, ClearCancelLast, WatcherSeesFile,
              loopVars, diskVars
<1>10. CASE Interrupt \/ Answer \/ BeginRequest \/ EndRequest
  BY <1>10 DEF Interrupt, RecordCancel, Answer, ResolveApproval, BeginRequest, EndRequest,
               loopVars, diskVars
<1>11. CASE Stop \/ Exit \/ RecoverStale
  BY <1>11 DEF Stop, StopRead, StopWriteFile, StopWriteRecord, Exit, RecoverStale,
               loopVars, diskVars
<1> QED
  BY <1>1, <1>2, <1>3, <1>4, <1>5, <1>6, <1>7, <1>8, <1>9, <1>10, <1>11 DEF Next, Run, Turn, ToolCall

\* Every variable keeps its type, with any number of turns and calls.
THEOREM TypeCorrect == Spec => []TypeOK
<1>1. FlagsOK /\ OthersOK => TypeOK
  BY TypeParts DEF TypeInv
<1> QED BY TypeInit, FlagsStep, OthersStep, <1>1, PTL DEF Spec

----
(***************************************************************************)
(* What a stop achieves                                                    *)
(***************************************************************************)
LEMMA StopInit == Init => StopInv
BY DEF Init, StopInv

\* Most steps leave what a stop has done alone; the others are the places
\* where a status is written.
LEMMA StopStep == StopInv /\ [Next]_vars => StopInv'
<1> SUFFICES ASSUME StopInv, [Next]_vars PROVE StopInv'
  OBVIOUS
<1> USE DEF StopInv
<1>1. CASE UNCHANGED vars
  BY <1>1 DEF vars, loopVars, diskVars
<1>2. CASE ClearCancelFirst \/ Start \/ OpenSandbox \/ ResourcesLoaded \/ SetupFails
  BY <1>2 DEF ClearCancelFirst, Start, OpenSandbox, ResourcesLoaded, SetupFails, Verdict, diskVars
<1>3. CASE BeginTurn \/ MaxTurnsReached
  BY <1>3 DEF BeginTurn, MaxTurnsReached
<1>4. CASE AskModel                              \* not with the token set
  BY <1>4 DEF AskModel, SeesCancel, diskVars
<1>5. CASE Interrupted \/ AnswerWithoutTools \/ ModelFails
  BY <1>5 DEF Interrupted, AnswerWithoutTools, ModelFails, Verdict, diskVars
<1>6. ASSUME NEW n \in 1 .. MaxCalls, AnswerWithTools(n) PROVE StopInv'
  BY <1>6 DEF AnswerWithTools, Called, Returned
<1>7. CASE NextCall
  BY <1>7 DEF NextCall, Called, Returned
<1>8. CASE AskUser \/ Granted \/ Denied \/ FinishTool
  BY <1>8 DEF AskUser, Granted, Denied, FinishTool, Returned
<1>9. CASE FinishLoop                            \* the status tells
  BY <1>9 DEF FinishLoop, LoopVerdict
<1>10. CASE CloseSandbox \/ Persist \/ ClearCancelLast \/ WatcherSeesFile
  BY <1>10 DEF CloseSandbox, Persist, ClearCancelLast, WatcherSeesFile, loopVars, diskVars
<1>11. CASE Interrupt
  BY <1>11 DEF Interrupt
<1>12. CASE Answer \/ BeginRequest \/ EndRequest
  BY <1>12 DEF Answer, ResolveApproval, BeginRequest, EndRequest, loopVars, diskVars
<1>13. CASE Stop \/ Exit \/ RecoverStale
  BY <1>13 DEF Stop, StopRead, StopWriteFile, StopWriteRecord, Exit, RecoverStale,
               loopVars, diskVars
<1> QED
  BY <1>1, <1>2, <1>3, <1>4, <1>5, <1>6, <1>7, <1>8, <1>9, <1>10, <1>11, <1>12, <1>13
  DEF Next, Run, Turn, ToolCall

\* A stopped run is never called a success, whenever the stop came
\* (controller.py:182-195, atomic_l1.py:572).
THEOREM StopIsNoSuccess == Spec => []StoppedNeverSucceeds
<1>1. StopInv => StoppedNeverSucceeds
  BY DEF StopInv, StoppedNeverSucceeds
<1> QED BY StopInit, StopStep, <1>1, PTL DEF Spec

\* A stopped run calls the model no more (atomic_l1.py:486-492).
THEOREM StopAsksNoMore == Spec => StoppedAsksNoMore
<1>1. StopInv /\ [Next]_vars => [stopped /\ pc # "model" => pc' # "model"]_vars
  <2> SUFFICES ASSUME StopInv, Next, stopped, pc # "model" PROVE pc' # "model"
    BY DEF vars, loopVars
  <2>1. ~AskModel
    BY DEF AskModel, SeesCancel, StopInv
  <2>2. Run => pc' # "model"
    BY <2>1 DEF Run, Turn, ToolCall, ClearCancelFirst, Start, OpenSandbox, ResourcesLoaded,
       SetupFails, BeginTurn, MaxTurnsReached, Interrupted, AnswerWithoutTools, ModelFails,
       AnswerWithTools, NextCall, Called, Returned, AskUser, Granted, Denied, FinishTool,
       FinishLoop, CloseSandbox, Persist, ClearCancelLast
  <2>3. ~Run => pc' # "model"
    BY DEF Next, WatcherSeesFile, Interrupt, Answer, ResolveApproval, BeginRequest, EndRequest,
       Stop, StopRead, StopWriteFile, StopWriteRecord, Exit, RecoverStale, loopVars
  <2> QED BY <2>2, <2>3
<1> QED BY StopInit, StopStep, <1>1, PTL DEF Spec, StoppedAsksNoMore

----
(***************************************************************************)
(* Requests and the run                                                    *)
(***************************************************************************)
LEMMA SandboxInit == Init => SandboxInv
BY DEF Init, SandboxInv, Working, Early, Terminal, Gone

LEMMA SandboxStep == OthersOK /\ SandboxInv /\ [Next]_vars => SandboxInv'
<1> SUFFICES ASSUME OthersOK, SandboxInv, [Next]_vars PROVE SandboxInv'
  OBVIOUS
<1> USE DEF SandboxInv, Working, Early, Terminal, Gone
<1>1. CASE UNCHANGED vars
  BY <1>1 DEF vars, loopVars, diskVars
<1>2. CASE ClearCancelFirst \/ Start \/ OpenSandbox \/ ResourcesLoaded \/ SetupFails
  BY <1>2 DEF ClearCancelFirst, Start, OpenSandbox, ResourcesLoaded, SetupFails, diskVars
<1>3. CASE BeginTurn \/ MaxTurnsReached \/ AskModel \/ Interrupted \/ AnswerWithoutTools \/ ModelFails
  BY <1>3 DEF BeginTurn, MaxTurnsReached, AskModel, Interrupted, AnswerWithoutTools, ModelFails,
              diskVars
<1>4. ASSUME NEW n \in 1 .. MaxCalls, AnswerWithTools(n) PROVE SandboxInv'
  BY <1>4 DEF AnswerWithTools, Called, Returned
<1>5. CASE NextCall \/ AskUser \/ Granted \/ Denied \/ FinishTool
  BY <1>5 DEF NextCall, Called, AskUser, Granted, Denied, FinishTool, Returned
<1>6. CASE FinishLoop \/ CloseSandbox \/ Persist \/ ClearCancelLast \/ WatcherSeesFile
  BY <1>6 DEF FinishLoop, CloseSandbox, Persist, ClearCancelLast, WatcherSeesFile,
              loopVars, diskVars
<1>7. CASE Interrupt \/ Answer
  BY <1>7 DEF Interrupt, Answer, ResolveApproval, loopVars, diskVars
<1>8. CASE BeginRequest
  <2>1. pc \notin Early \cup Working
    BY <1>8 DEF BeginRequest, MutationIdle
  <2> QED BY <1>8, <2>1 DEF BeginRequest, MutationIdle, OthersOK, loopVars
<1>9. CASE EndRequest \/ Stop \/ Exit \/ RecoverStale
  BY <1>9 DEF EndRequest, Stop, StopRead, StopWriteFile, StopWriteRecord, Exit, RecoverStale,
              loopVars, diskVars
<1> QED
  BY <1>1, <1>2, <1>3, <1>4, <1>5, <1>6, <1>7, <1>8, <1>9 DEF Next, Run, Turn, ToolCall

\* No rollback or accept works while the run may still write
\* (controller.py:161-175).
THEOREM RequestsWait == Spec => []RequestsWaitForTheRun
<1>1. SandboxInv => RequestsWaitForTheRun
  BY DEF SandboxInv, RequestsWaitForTheRun
<1> QED BY TypeInit, OthersStep, SandboxInit, SandboxStep, <1>1, PTL DEF Spec
====
