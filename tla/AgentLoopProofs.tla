---- MODULE AgentLoopProofs ----
(***************************************************************************)
(* Theorems about AgentLoop, for every value of its constants.             *)
(***************************************************************************)
EXTENDS AgentLoop, SequenceTheorems, FiniteSetTheorems, TLAPS

\* The phase at each place of the loop.  TypeOK alone does not exclude that
\* an event finds the machine in a phase that refuses it.
PhaseFollowsControl ==
  /\ pc = "head" => phase \in {"perceive", "re_perceive"}
  /\ pc = "decide" => phase = "decide"
  /\ pc \in {"act", "skip"} => phase = "act"
  /\ pc = "boundary" => phase = "re_perceive"

TypeInv == TypeOK /\ PhaseFollowsControl

----
(***************************************************************************)
(* The building blocks of the transcript are messages                      *)
(***************************************************************************)
LEMMA MessageTypes ==
  /\ \A m \in Inputs : User(m) \in Message
  /\ \A t \in Nat, n \in 0 .. MaxCalls : Assistant(t, n) \in Message
  /\ \A t \in Nat, r \in ResultSet : ToolMessage(t, r) \in Message
  /\ Summary \in Message
BY LoopAssumption DEF User, Assistant, ToolMessage, Summary, Message, ResultSet

\* Turning a queue into messages, and results into messages, keeps the type.
LEMMA TranscriptTypes ==
  /\ \A q \in Seq(Inputs) : UserMessages(q) \in Seq(Message)
  /\ \A t \in Nat, rs \in Seq(ResultSet) :
       [i \in DOMAIN rs |-> ToolMessage(t, rs[i])] \in Seq(Message)
<1>1. ASSUME NEW q \in Seq(Inputs) PROVE UserMessages(q) \in Seq(Message)
  <2>1. \A i \in 1 .. Len(q) : q[i] \in Inputs
    BY ElementOfSeq
  <2>2. UserMessages(q) \in [1 .. Len(q) -> Message]
    BY <2>1, MessageTypes, LenProperties DEF UserMessages
  <2> QED BY <2>2, LenProperties, IsASeq
<1>2. ASSUME NEW t \in Nat, NEW rs \in Seq(ResultSet)
      PROVE [i \in DOMAIN rs |-> ToolMessage(t, rs[i])] \in Seq(Message)
  <2>1. \A i \in 1 .. Len(rs) : rs[i] \in ResultSet
    BY ElementOfSeq
  <2>2. [i \in DOMAIN rs |-> ToolMessage(t, rs[i])] \in [1 .. Len(rs) -> Message]
    BY <2>1, MessageTypes, LenProperties
  <2> QED BY <2>2, LenProperties, IsASeq
<1> QED BY <1>1, <1>2

\* A cut transcript, message by message.
LEMMA CutProperties ==
  ASSUME NEW s \in Seq(Message), NEW k \in 2 .. Len(s) + 1
  PROVE  /\ Cut(s, k) \in Seq(Message)
         /\ Len(Cut(s, k)) = Len(s) - k + 2
         /\ Cut(s, k)[1] = Summary
         /\ \A i \in 2 .. Len(s) - k + 2 : Cut(s, k)[i] = s[i + k - 2]
<1> DEFINE rest == SubSeq(s, k, Len(s))
<1>1. Len(s) \in Nat /\ k \in Nat /\ \A i \in k .. Len(s) : s[i] \in Message
  <2>1. Len(s) \in Nat /\ k \in Nat /\ \A i \in k .. Len(s) : i \in 1 .. Len(s)
    BY LenProperties
  <2> QED BY <2>1, ElementOfSeq
<1>2. /\ rest \in Seq(Message)
      /\ Len(rest) = IF k <= Len(s) THEN Len(s) - k + 1 ELSE 0
      /\ \A i \in 1 .. Len(s) - k + 1 : rest[i] = s[k + i - 1]
  BY <1>1, SubSeqProperties
<1>3. Len(rest) = Len(s) - k + 1
  BY <1>1, <1>2
<1> HIDE DEF rest
<1>4. <<Summary>> \in Seq(Message) /\ Len(<<Summary>>) = 1 /\ <<Summary>>[1] = Summary
  BY MessageTypes
<1>5. /\ <<Summary>> \o rest \in Seq(Message)
      /\ Len(<<Summary>> \o rest) = 1 + (Len(s) - k + 1)
      /\ \A i \in 1 .. 1 + (Len(s) - k + 1) :
           (<<Summary>> \o rest)[i] = IF i <= 1 THEN <<Summary>>[i] ELSE rest[i - 1]
  <2>1. PICK first : first = <<Summary>>
    OBVIOUS
  <2>2. first \in Seq(Message) /\ Len(first) = 1
    BY <1>4, <2>1
  <2>3. /\ first \o rest \in Seq(Message)
        /\ Len(first \o rest) = Len(first) + Len(rest)
        /\ \A i \in 1 .. Len(first) + Len(rest) :
             (first \o rest)[i] = IF i <= Len(first) THEN first[i] ELSE rest[i - Len(first)]
    BY <1>2, <2>2, ConcatProperties
  <2> QED BY <1>3, <2>1, <2>2, <2>3
<1>6. Cut(s, k) = <<Summary>> \o rest
  BY DEF Cut, rest
<1>7. ASSUME NEW i \in 2 .. Len(s) - k + 2 PROVE Cut(s, k)[i] = s[i + k - 2]
  <2>1. /\ i \in 1 .. 1 + (Len(s) - k + 1) /\ ~(i <= 1) /\ i - 1 \in 1 .. Len(s) - k + 1
        /\ k + (i - 1) - 1 = i + k - 2
    BY <1>1
  <2>2. rest[i - 1] = s[k + (i - 1) - 1]
    BY <1>2, <2>1
  <2> QED BY <1>5, <1>6, <2>1, <2>2
<1>8. Len(Cut(s, k)) = Len(s) - k + 2 /\ 1 \in 1 .. 1 + (Len(s) - k + 1)
  BY <1>1, <1>5, <1>6
<1> QED BY <1>4, <1>5, <1>6, <1>7, <1>8

\* What the write-back of a transform may leave.
LEMMA TransformedIs ==
  ASSUME NEW s \in Seq(Message), NEW t \in Transformed(s)
  PROVE  /\ t \in Seq(Message)
         /\ t = s \/ (cfg.persist /\ \E k \in 2 .. Len(s) : s[k].role = "user" /\ t = Cut(s, k))
<1>1. t = s \/ (cfg.persist /\ \E k \in 2 .. Len(s) : s[k].role = "user" /\ t = Cut(s, k))
  BY DEF Transformed, Compressed
<1>2. \A k \in 2 .. Len(s) : k \in 2 .. Len(s) + 1
  BY LenProperties
<1> QED BY <1>1, <1>2, CutProperties

\* Draining a queue yields two queues.
LEMMA DrainTypes ==
  ASSUME NEW S, NEW q \in Seq(S)
  PROVE  Drained(q) \in Seq(S) /\ Left(q) \in Seq(S)
<1>1. CASE q = <<>>
  BY <1>1 DEF Drained, Left
<1>2. CASE q # <<>>
  <2>1. Head(q) \in S /\ Tail(q) \in Seq(S)
    BY <1>2, HeadTailProperties
  <2> QED BY <2>1 DEF Drained, Left
<1> QED BY <1>1, <1>2

----
LEMMA TypeInit == Init => TypeInv
<1> SUFFICES ASSUME Init PROVE TypeInv
  OBVIOUS
<1> USE LoopAssumption DEF Init
<1>1. \A S : <<>> \in Seq(S)
  BY EmptySeq
<1>2. messages \in Seq(Message) /\ context \in Seq(Message)
  BY <1>1
<1>3. /\ pending \in Seq(Inputs) /\ found \in Seq(Inputs)
      /\ steering \in Seq(Inputs) /\ followUp \in Seq(Inputs)
  BY <1>1
<1>4. results \in Seq(ResultSet) /\ arrival \in Seq(1 .. MaxCalls)
  BY <1>1
<1>5. turns \in 0 .. MaxTurns /\ turnId \in Nat /\ nCalls \in 0 .. MaxCalls
  OBVIOUS
<1>6. task \in [1 .. MaxCalls -> TaskStates]
  BY DEF TaskStates
<1>7. sent \in [Inputs -> {"unsent", "prompt", "steer", "follow_up"}]
  OBVIOUS
<1>8. cfg \in [tools : ToolModes, stop : StopRules, queue : QueueModes, persist : PersistModes]
  OBVIOUS
<1> HIDE DEF Init
<1>9. /\ pc = "idle" /\ phase = "perceive" /\ outcome = "none"
      /\ aborted = FALSE /\ executed = {} /\ adrift = {} /\ late = {}
  BY DEF Init
<1> QED
  BY <1>2, <1>3, <1>4, <1>5, <1>6, <1>7, <1>8, <1>9
  DEF TypeInv, TypeOK, PhaseFollowsControl, Phases

----
(***************************************************************************)
(* Every step keeps TypeInv: lemmas for the steps that share a tail, then  *)
(* one step per action                                                     *)
(***************************************************************************)
LEMMA CancelTypes ==
  ASSUME TypeInv
  PROVE  /\ CancelLive \in [1 .. MaxCalls -> TaskStates]
         /\ CutOff \subseteq (Nat \X (1 .. MaxCalls))
BY DEF TypeInv, TypeOK, CancelLive, CutOff, TaskStates

LEMMA CancelInLoopTypes ==
  ASSUME TypeInv, CancelInLoop
  PROVE  /\ task' \in [1 .. MaxCalls -> TaskStates]
         /\ adrift' \subseteq (Nat \X (1 .. MaxCalls))
BY CancelTypes DEF TypeInv, TypeOK, CancelInLoop

\* The end of a run, however it came about.
LEMMA EndRunTypes ==
  ASSUME TypeInv,
         NEW how \in {"ok", "max_turns", "aborted", "raised"}, EndRun(how),
         cfg' = cfg, phase' \in Phases, task' \in [1 .. MaxCalls -> TaskStates],
         adrift' \subseteq (Nat \X (1 .. MaxCalls)), late' \subseteq Inputs,
         UNCHANGED <<steering, followUp, aborted, sent>>
  PROVE  TypeInv'
<1>1. /\ messages' = <<>> /\ pending' = <<>> /\ found' = <<>>
      /\ results' = <<>> /\ arrival' = <<>>
      /\ turns' = 0 /\ nCalls' = 0 /\ pc' = "idle" /\ outcome' = how
      /\ turnId' = turnId /\ executed' = executed
  BY DEF EndRun
<1>2. /\ messages' \in Seq(Message) /\ pending' \in Seq(Inputs) /\ found' \in Seq(Inputs)
      /\ results' \in Seq(ResultSet) /\ arrival' \in Seq(1 .. MaxCalls)
  BY <1>1, EmptySeq
<1>3. turns' \in 0 .. MaxTurns /\ nCalls' \in 0 .. MaxCalls
  BY <1>1, LoopAssumption
<1>4. context' \in Seq(Message)
  BY DEF EndRun, TypeInv, TypeOK
<1> QED
  BY <1>1, <1>2, <1>3, <1>4 DEF TypeInv, TypeOK, PhaseFollowsControl

\* The loop is about to return.
LEMMA ChooseTypes ==
  ASSUME TypeInv, NEW as \in {"done", "spent"}, ChooseToReturn(as), cfg' = cfg, phase' \in Phases
  PROVE  TypeInv'
BY DEF ChooseToReturn, toolVars, clientVars, TypeInv, TypeOK, PhaseFollowsControl

\* The loop goes on with msgs as the next turn's messages.
LEMMA TurnWithTypes ==
  ASSUME TypeInv, pc = "boundary",
         NEW msgs \in Seq(Inputs), TurnWith(msgs),
         steering' \in Seq(Inputs), followUp' \in Seq(Inputs),
         UNCHANGED <<aborted, sent, late>>
  PROVE  TypeInv'
<1>1. found' \in Seq(Inputs)
  BY EmptySeq DEF TurnWith
<1> QED
  BY <1>1 DEF TurnWith, toolVars, TypeInv, TypeOK, PhaseFollowsControl

\* A step of a tool task.
LEMMA ToolTypes ==
  ASSUME TypeInv, NEW c \in 1 .. MaxCalls, Tool(c)
  PROVE  TypeInv'
<1> USE DEF TypeInv, TypeOK, PhaseFollowsControl, runVars, clientVars
<1>1. CASE StartTool(c)
  <2>1. task' \in [1 .. MaxCalls -> TaskStates]
    BY <1>1 DEF StartTool, TaskStates
  <2> QED BY <1>1, <2>1 DEF StartTool
<1>2. CASE RefuseTool(c)
  <2>1. task' \in [1 .. MaxCalls -> TaskStates]
    BY <1>2 DEF RefuseTool, TaskStates
  <2>2. arrival' \in Seq(1 .. MaxCalls)
    BY <1>2, AppendProperties DEF RefuseTool
  <2> QED BY <1>2, <2>1, <2>2 DEF RefuseTool
<1>3. CASE Work(c)
  <2>1. task' \in [1 .. MaxCalls -> TaskStates]
    BY <1>3 DEF Work, TaskStates
  <2>2. executed' \subseteq (Nat \X (1 .. MaxCalls))
    BY <1>3 DEF Work
  <2> QED BY <1>3, <2>1, <2>2 DEF Work
<1>4. CASE FinishTool(c)
  <2>1. task' \in [1 .. MaxCalls -> TaskStates]
    BY <1>4 DEF FinishTool, TaskStates
  <2>2. arrival' \in Seq(1 .. MaxCalls)
    BY <1>4, AppendProperties DEF FinishTool
  <2> QED BY <1>4, <2>1, <2>2 DEF FinishTool
<1> QED BY <1>1, <1>2, <1>3, <1>4 DEF Tool

\* A step of the client.
LEMMA ClientTypes ==
  ASSUME TypeInv, Client
  PROVE  TypeInv'
<1> USE DEF TypeInv, TypeOK, PhaseFollowsControl, runVars, toolVars
<1>1. ASSUME NEW m \in Inputs, Prompt(m) PROVE TypeInv'
  <2>1. messages' \in Seq(Message)
    BY <1>1, MessageTypes, AppendProperties DEF Prompt, FirstMessages
  <2>2. sent' \in [Inputs -> {"unsent", "prompt", "steer", "follow_up"}]
    BY <1>1 DEF Prompt, Send
  <2> QED BY <1>1, <2>1, <2>2 DEF Prompt, Phases
<1>2. ASSUME NEW m \in Inputs, Steer(m) PROVE TypeInv'
  <2>1. steering' \in Seq(Inputs)
    BY <1>2, AppendProperties DEF Steer
  <2>2. /\ sent' \in [Inputs -> {"unsent", "prompt", "steer", "follow_up"}]
        /\ late' \subseteq Inputs
    BY <1>2 DEF Steer, Send, SentLate
  <2> QED BY <1>2, <2>1, <2>2 DEF Steer
<1>3. ASSUME NEW m \in Inputs, FollowUp(m) PROVE TypeInv'
  <2>1. followUp' \in Seq(Inputs)
    BY <1>3, AppendProperties DEF FollowUp
  <2>2. /\ sent' \in [Inputs -> {"unsent", "prompt", "steer", "follow_up"}]
        /\ late' \subseteq Inputs
    BY <1>3 DEF FollowUp, Send, SentLate
  <2> QED BY <1>3, <2>1, <2>2 DEF FollowUp
<1>4. CASE Abort
  BY <1>4 DEF Abort
<1> QED BY <1>1, <1>2, <1>3, <1>4 DEF Client

\* A step that ends the run, or is about to.
LEMMA EndsTypes ==
  ASSUME TypeInv, Ends \/ DeliverCancel \/ TakeRefusal \/ StopAfterTurn \/ EndAtRest
  PROVE  TypeInv'
<1>1. /\ phase \in Phases /\ task \in [1 .. MaxCalls -> TaskStates]
      /\ adrift \subseteq (Nat \X (1 .. MaxCalls)) /\ late \subseteq Inputs
  BY DEF TypeInv, TypeOK
<1> USE DEF clientVars
<1>2. CASE RaiseIfAborted
  BY <1>1, <1>2, EndRunTypes DEF RaiseIfAborted
<1>3. CASE MaxTurnsReached
  <2>1. phase' \in Phases
    BY <1>3, <1>1 DEF MaxTurnsReached, NextPhase, Phases, TypeInv, PhaseFollowsControl
  <2>2. cfg' = cfg
    BY <1>3 DEF MaxTurnsReached, ChooseToReturn
  <2> QED BY <1>3, <2>1, <2>2, ChooseTypes DEF MaxTurnsReached
<1>4. CASE CompleteTurnFails
  BY <1>1, <1>4, EndRunTypes DEF CompleteTurnFails
<1>5. CASE DeliverCancel
  BY <1>1, <1>5, CancelInLoopTypes, EndRunTypes DEF DeliverCancel
<1>6. CASE TakeRefusal
  BY <1>1, <1>6, EndRunTypes DEF TakeRefusal
<1>7. CASE StopAfterTurn \/ EndAtRest
  BY <1>1, <1>7, ChooseTypes DEF StopAfterTurn, EndAtRest, ChooseToReturn
<1>8. CASE Return
  <2>1. PICK how \in {"ok", "max_turns"} : EndRun(how)
    BY <1>8 DEF Return
  <2> QED BY <1>1, <1>8, <2>1, EndRunTypes DEF Return
<1> QED BY <1>2, <1>3, <1>4, <1>5, <1>6, <1>7, <1>8 DEF Ends

\* A turn from its head to the assistant's answer.
LEMMA TurnTypes ==
  ASSUME TypeInv, BeginTurn \/ Answers
  PROVE  TypeInv'
<1> USE DEF TypeInv, TypeOK, PhaseFollowsControl, clientVars
<1>1. CASE BeginTurn
  <2>1. messages' \in Seq(Message)
    <3>1. messages \o UserMessages(pending) \in Seq(Message)
      BY TranscriptTypes, ConcatProperties
    <3> QED BY <1>1, <3>1, TransformedIs DEF BeginTurn
  <2>2. pending' \in Seq(Inputs) /\ found' \in Seq(Inputs)
    BY <1>1, EmptySeq DEF BeginTurn
  <2>3. turns' \in 0 .. MaxTurns /\ turnId' \in Nat
    BY <1>1, LoopAssumption DEF BeginTurn, TurnBudgetLeft
  <2>4. phase' = "decide" /\ pc' = "decide"
    BY <1>1 DEF BeginTurn, NextPhase
  <2> QED BY <1>1, <2>1, <2>2, <2>3, <2>4 DEF BeginTurn, toolVars, Phases
<1>2. CASE AnswerWithoutTools
  <2>1. messages' \in Seq(Message)
    BY <1>2, LoopAssumption, MessageTypes, AppendProperties DEF AnswerWithoutTools
  <2>2. phase' = "re_perceive"
    BY <1>2 DEF AnswerWithoutTools, NextPhase
  <2> QED BY <1>2, <2>1, <2>2, LoopAssumption DEF AnswerWithoutTools, toolVars, Phases
<1>3. ASSUME NEW n \in 1 .. MaxCalls, AnswerWithTools(n) PROVE TypeInv'
  <2>1. messages' \in Seq(Message)
    BY <1>3, LoopAssumption, MessageTypes, AppendProperties DEF AnswerWithTools
  <2>2. phase' = "act"
    BY <1>3 DEF AnswerWithTools, NextPhase
  <2>3. task' \in [1 .. MaxCalls -> TaskStates]
    BY <1>3 DEF AnswerWithTools, TaskStates
  <2>4. results' \in Seq(ResultSet) /\ arrival' \in Seq(1 .. MaxCalls)
    BY <1>3, EmptySeq DEF AnswerWithTools
  <2>5. nCalls' \in 0 .. MaxCalls
    BY <1>3, LoopAssumption DEF AnswerWithTools
  <2> QED BY <1>3, <2>1, <2>2, <2>3, <2>4, <2>5 DEF AnswerWithTools, Phases
<1>4. ASSUME NEW n \in 1 .. MaxCalls, AnswerTruncated(n) PROVE TypeInv'
  <2>1. messages' \in Seq(Message)
    BY <1>4, LoopAssumption, MessageTypes, AppendProperties DEF AnswerTruncated
  <2>2. phase' = "act"
    BY <1>4 DEF AnswerTruncated, NextPhase
  <2>3. task' \in [1 .. MaxCalls -> TaskStates]
    BY <1>4 DEF AnswerTruncated, TaskStates
  <2>4. n \in Nat /\ \A i \in 1 .. n : Result(i, "truncated") \in ResultSet
    BY LoopAssumption DEF Result, ResultSet
  <2>5. results' \in [1 .. n -> ResultSet]
    BY <1>4, <2>4 DEF AnswerTruncated
  <2>6. results' \in Seq(ResultSet)
    BY <2>4, <2>5, IsASeq
  <2>7. arrival' \in Seq(1 .. MaxCalls)
    BY <1>4, EmptySeq DEF AnswerTruncated
  <2>8. nCalls' \in 0 .. MaxCalls
    BY <1>4, LoopAssumption DEF AnswerTruncated
  <2> QED BY <1>4, <2>1, <2>2, <2>3, <2>6, <2>7, <2>8 DEF AnswerTruncated, Phases
<1> QED BY <1>1, <1>2, <1>3, <1>4 DEF Answers

\* The results are gathered and appended.
LEMMA GatherTypes ==
  ASSUME TypeInv, Gather
  PROVE  TypeInv'
<1> USE DEF TypeInv, TypeOK, PhaseFollowsControl, clientVars
<1>1. \A c \in 1 .. MaxCalls, how \in {"executed", "skipped", "truncated"} :
        Result(c, how) \in ResultSet
  BY DEF Result, ResultSet
<1>2. ASSUME arrival # <<>>
      PROVE  Head(arrival) \in 1 .. MaxCalls /\ Tail(arrival) \in Seq(1 .. MaxCalls)
  BY <1>2, HeadTailProperties
<1>3. CASE TakeResult
  <2>1. results' \in Seq(ResultSet)
    BY <1>1, <1>2, <1>3, AppendProperties DEF TakeResult
  <2> QED BY <1>2, <1>3, <2>1 DEF TakeResult, runVars
<1>4. CASE TakeResultSteered
  <2>1. results' \in Seq(ResultSet)
    BY <1>1, <1>2, <1>4, AppendProperties DEF TakeResultSteered
  <2>2. found' \in Seq(Inputs) /\ steering' \in Seq(Inputs)
    BY <1>4, DrainTypes DEF TakeResultSteered
  <2>3. /\ task' \in [1 .. MaxCalls -> TaskStates] /\ arrival' \in Seq(1 .. MaxCalls)
        /\ adrift' \subseteq (Nat \X (1 .. MaxCalls))
    BY <1>4, CancelTypes, EmptySeq DEF TakeResultSteered
  <2> QED BY <1>4, <2>1, <2>2, <2>3 DEF TakeResultSteered
<1>5. CASE TakeRefusal
  BY <1>5, EndsTypes
<1>6. ASSUME NEW c \in Calls, SkipNext(c) PROVE TypeInv'
  <2>1. c \in 1 .. MaxCalls
    BY LoopAssumption DEF Calls
  <2>2. Result(c, "skipped") \in ResultSet
    BY <1>1, <2>1
  <2>3. results' \in Seq(ResultSet)
    BY <1>6, <2>2, AppendProperties DEF SkipNext
  <2>4. UNCHANGED <<cfg, runVars, arrival, task, executed, adrift, clientVars>>
    BY <1>6 DEF SkipNext
  <2> QED BY <2>3, <2>4 DEF runVars, clientVars
<1>7. CASE AppendResults
  <2>1. messages' \in Seq(Message)
    <3>1. PICK more : more = [i \in DOMAIN results |-> ToolMessage(turnId, results[i])]
      OBVIOUS
    <3>2. more \in Seq(Message)
      <4>1. turnId \in Nat /\ results \in Seq(ResultSet)
        OBVIOUS
      <4> QED BY <3>1, <4>1, TranscriptTypes
    <3>3. messages \in Seq(Message) /\ messages' = messages \o more
      BY <1>7, <3>1 DEF AppendResults
    <3> QED BY <3>2, <3>3, ConcatProperties
  <2>2. phase' = "re_perceive"
    BY <1>7 DEF AppendResults, NextPhase
  <2>3. task' \in [1 .. MaxCalls -> TaskStates] /\ results' \in Seq(ResultSet)
    BY <1>7, EmptySeq DEF AppendResults, TaskStates
  <2> QED BY <1>7, <2>1, <2>2, <2>3 DEF AppendResults, Phases
<1> QED BY <1>3, <1>4, <1>5, <1>6, <1>7 DEF Gather

\* The boundary between two turns.
LEMMA BoundaryTypes ==
  ASSUME TypeInv, Boundary
  PROVE  TypeInv'
<1>1. /\ steering \in Seq(Inputs) /\ followUp \in Seq(Inputs) /\ found \in Seq(Inputs)
      /\ <<>> \in Seq(Inputs)
  BY EmptySeq DEF TypeInv, TypeOK
<1>2. /\ Drained(steering) \in Seq(Inputs) /\ Left(steering) \in Seq(Inputs)
      /\ Drained(followUp) \in Seq(Inputs) /\ Left(followUp) \in Seq(Inputs)
  BY <1>1, DrainTypes
<1>3. CASE StopAfterTurn \/ EndAtRest
  BY <1>3, EndsTypes
<1>4. CASE FollowUpAfterStop
  BY <1>1, <1>2, <1>4, TurnWithTypes DEF FollowUpAfterStop
<1>5. CASE SteerNextTurn
  BY <1>1, <1>2, <1>5, TurnWithTypes DEF SteerNextTurn
<1>6. CASE NextTurn
  BY <1>1, <1>6, TurnWithTypes DEF NextTurn, Unsteered, clientVars
<1>7. CASE FollowUpAtRest
  BY <1>1, <1>2, <1>7, TurnWithTypes DEF FollowUpAtRest, Unsteered
<1> QED BY <1>3, <1>4, <1>5, <1>6, <1>7 DEF Boundary

LEMMA TypeStep == TypeInv /\ [Next]_vars => TypeInv'
<1> SUFFICES ASSUME TypeInv, [Next]_vars PROVE TypeInv'
  OBVIOUS
<1>1. CASE Client
  BY <1>1, ClientTypes
<1>2. CASE Ends \/ DeliverCancel
  BY <1>2, EndsTypes
<1>3. CASE BeginTurn \/ Answers
  BY <1>3, TurnTypes
<1>4. CASE Gather
  BY <1>4, GatherTypes
<1>5. CASE Boundary
  BY <1>5, BoundaryTypes
<1>6. ASSUME NEW c \in 1 .. MaxCalls, Tool(c) PROVE TypeInv'
  BY <1>6, ToolTypes
<1>7. ASSUME NEW d \in adrift, EndAdrift(d) PROVE TypeInv'
  BY <1>7 DEF EndAdrift, runVars, clientVars, TypeInv, TypeOK, PhaseFollowsControl
<1>8. CASE UNCHANGED vars
  BY <1>8 DEF vars, runVars, toolVars, clientVars, TypeInv, TypeOK, PhaseFollowsControl
<1> QED BY <1>1, <1>2, <1>3, <1>4, <1>5, <1>6, <1>7, <1>8 DEF Next, Loop

\* Every variable keeps its type in every run of every configuration, and no
\* event ever finds the phase machine in a phase that refuses it: the loop
\* never raises InvalidPhaseTransition (loop.py, fsm.py).
THEOREM TypeCorrect == Spec => []TypeOK
<1>1. TypeInv => TypeOK
  BY DEF TypeInv
<1> QED BY TypeInit, TypeStep, <1>1, PTL DEF Spec

----
(***************************************************************************)
(* InputsKept.  Where the client's messages are at each place of the loop: *)
(* pending is full only at the head of a turn, found only after tools, and *)
(* the messages of a run contain the conversation it was started with,     *)
(* unless a summary has replaced its start.                                *)
(***************************************************************************)
HoldingInv ==
  /\ pc = "idle" => messages = <<>>
  /\ pc \notin {"head", "spent"} => pending = <<>>
  /\ pc \in {"act", "skip"} => nCalls > 0
  /\ found # <<>> => /\ nCalls > 0
                     /\ pc \in {"skip", "boundary"} \/ (pc = "done" /\ cfg.stop = "any")
  /\ pc # "idle" => \/ InputsIn(context) \subseteq InputsIn(messages)
                    \/ cfg.persist /\ StartsWithSummary(messages)

\* A transcript that starts with a summary still does when it is longer.
LEMMA SummaryStays ==
  ASSUME NEW s \in Seq(Message), NEW t \in Seq(Message), StartsWithSummary(s)
  PROVE  StartsWithSummary(s \o t)
<1>1. Len(s) \in Nat /\ Len(s) # 0 /\ Len(t) \in Nat /\ Head(s) = s[1]
  BY LenProperties, EmptySeq, HeadTailProperties DEF StartsWithSummary
<1>2. /\ s \o t \in Seq(Message) /\ Len(s \o t) = Len(s) + Len(t)
      /\ \A i \in 1 .. Len(s) + Len(t) : (s \o t)[i] = IF i <= Len(s) THEN s[i] ELSE t[i - Len(s)]
  BY ConcatProperties
<1>3. s \o t # <<>> /\ (s \o t)[1] = s[1]
  BY <1>1, <1>2, EmptySeq
<1> QED BY <1>1, <1>2, <1>3, HeadTailProperties DEF StartsWithSummary

LEMMA CutStartsWithSummary ==
  ASSUME NEW s \in Seq(Message), NEW k \in 2 .. Len(s)
  PROVE  StartsWithSummary(Cut(s, k))
<1>1. Len(s) \in Nat /\ k \in 2 .. Len(s) + 1
  BY LenProperties
<1>2. /\ Cut(s, k) \in Seq(Message) /\ Len(Cut(s, k)) = Len(s) - k + 2
      /\ Cut(s, k)[1] = Summary
  BY <1>1, CutProperties
<1>3. Cut(s, k) # <<>>
  BY <1>1, <1>2, EmptySeq
<1> QED BY <1>2, <1>3, HeadTailProperties DEF StartsWithSummary

\* What a message says about inputs.
LEMMA InputsOfMessages ==
  /\ \A m \in Inputs : User(m).role = "user" /\ User(m).input = m
  /\ \A t \in Nat, n \in Nat : Assistant(t, n).role = "assistant"
  /\ \A t \in Nat, r \in ResultSet : ToolMessage(t, r).role = "tool"
BY DEF User, Assistant, ToolMessage

LEMMA InputsOfEmpty == ElementsOf(<<>>) = {} /\ InputsIn(<<>>) = {}
BY DEF ElementsOf, InputsIn

LEMMA ElementsOfConcat ==
  ASSUME NEW S, NEW s \in Seq(S), NEW t \in Seq(S)
  PROVE  ElementsOf(s \o t) = ElementsOf(s) \cup ElementsOf(t)
<1>1. /\ s \o t \in Seq(S) /\ Len(s \o t) = Len(s) + Len(t)
      /\ \A i \in 1 .. Len(s) + Len(t) :
           (s \o t)[i] = IF i <= Len(s) THEN s[i] ELSE t[i - Len(s)]
  BY ConcatProperties
<1>2. /\ DOMAIN s = 1 .. Len(s) /\ DOMAIN t = 1 .. Len(t)
      /\ DOMAIN (s \o t) = 1 .. Len(s) + Len(t)
      /\ Len(s) \in Nat /\ Len(t) \in Nat
  BY <1>1, LenProperties
<1>3. ASSUME NEW x \in ElementsOf(s \o t) PROVE x \in ElementsOf(s) \cup ElementsOf(t)
  <2>1. PICK i \in 1 .. Len(s) + Len(t) : x = (s \o t)[i]
    BY <1>2 DEF ElementsOf
  <2>2. CASE i <= Len(s)
    BY <1>1, <1>2, <2>1, <2>2 DEF ElementsOf
  <2>3. CASE ~(i <= Len(s))
    <3>1. i - Len(s) \in 1 .. Len(t) /\ x = t[i - Len(s)]
      BY <1>1, <1>2, <2>1, <2>3
    <3> QED BY <1>2, <3>1 DEF ElementsOf
  <2> QED BY <2>2, <2>3
<1>4. ASSUME NEW x \in ElementsOf(s) PROVE x \in ElementsOf(s \o t)
  <2>1. PICK i \in 1 .. Len(s) : x = s[i]
    BY <1>2 DEF ElementsOf
  <2>2. i \in 1 .. Len(s) + Len(t) /\ (s \o t)[i] = x
    BY <1>1, <1>2, <2>1
  <2> QED BY <1>2, <2>2 DEF ElementsOf
<1>5. ASSUME NEW x \in ElementsOf(t) PROVE x \in ElementsOf(s \o t)
  <2>1. PICK i \in 1 .. Len(t) : x = t[i]
    BY <1>2 DEF ElementsOf
  <2>2. i + Len(s) \in 1 .. Len(s) + Len(t) /\ ~(i + Len(s) <= Len(s))
        /\ (i + Len(s)) - Len(s) = i
    BY <1>2
  <2>3. (s \o t)[i + Len(s)] = x
    BY <1>1, <2>1, <2>2
  <2> QED BY <1>2, <2>2, <2>3 DEF ElementsOf
<1> QED BY <1>3, <1>4, <1>5

LEMMA ElementsAreIn ==
  ASSUME NEW S, NEW q \in Seq(S)
  PROVE  ElementsOf(q) \subseteq S
<1>1. \A i \in DOMAIN q : q[i] \in S
  BY ElementOfSeq, LenProperties
<1> QED BY <1>1 DEF ElementsOf

LEMMA InputsInConcat ==
  ASSUME NEW s \in Seq(Message), NEW t \in Seq(Message)
  PROVE  InputsIn(s \o t) = InputsIn(s) \cup InputsIn(t)
BY ElementsOfConcat DEF InputsIn

LEMMA InputsInAppend ==
  ASSUME NEW s \in Seq(Message), NEW msg \in Message
  PROVE  InputsIn(Append(s, msg)) =
           InputsIn(s) \cup (IF msg.role = "user" THEN {msg.input} ELSE {})
<1>1. <<msg>> \in Seq(Message) /\ Append(s, msg) = s \o <<msg>>
  BY AppendIsConcat
<1>2. ElementsOf(<<msg>>) = {msg}
  BY DEF ElementsOf
<1>3. InputsIn(<<msg>>) = IF msg.role = "user" THEN {msg.input} ELSE {}
  BY <1>2 DEF InputsIn
<1>4. InputsIn(s \o <<msg>>) = InputsIn(s) \cup InputsIn(<<msg>>)
  BY <1>1, InputsInConcat
<1> QED BY <1>1, <1>3, <1>4

LEMMA InputsInUserMessages ==
  ASSUME NEW q \in Seq(Inputs)
  PROVE  InputsIn(UserMessages(q)) = ElementsOf(q)
<1>1. \A i \in DOMAIN q : q[i] \in Inputs
  BY ElementOfSeq, LenProperties
<1> QED BY <1>1, InputsOfMessages DEF InputsIn, UserMessages, ElementsOf

LEMMA InputsInToolMessages ==
  ASSUME NEW t \in Nat, NEW rs \in Seq(ResultSet)
  PROVE  InputsIn([i \in DOMAIN rs |-> ToolMessage(t, rs[i])]) = {}
<1>1. \A i \in DOMAIN rs : rs[i] \in ResultSet
  BY ElementOfSeq, LenProperties
<1> QED BY <1>1, InputsOfMessages DEF InputsIn, ElementsOf

LEMMA ElementsOfHeadTail ==
  ASSUME NEW S, NEW q \in Seq(S), q # <<>>
  PROVE  ElementsOf(q) = {Head(q)} \cup ElementsOf(Tail(q))
<1>1. /\ Tail(q) \in Seq(S) /\ Len(Tail(q)) = Len(q) - 1 /\ Head(q) = q[1]
      /\ \A i \in 1 .. Len(Tail(q)) : Tail(q)[i] = q[i + 1]
  BY HeadTailProperties
<1>2. /\ DOMAIN q = 1 .. Len(q) /\ DOMAIN Tail(q) = 1 .. Len(q) - 1
      /\ Len(q) \in Nat \ {0}
  BY <1>1, LenProperties, EmptySeq
<1>3. ASSUME NEW i \in 1 .. Len(q) PROVE q[i] \in {Head(q)} \cup ElementsOf(Tail(q))
  <2>1. CASE i = 1
    BY <1>1, <2>1
  <2>2. CASE i # 1
    <3>1. i - 1 \in 1 .. Len(q) - 1 /\ (i - 1) + 1 = i
      BY <1>2, <2>2
    <3>2. Tail(q)[i - 1] = q[i]
      BY <1>1, <3>1
    <3> QED BY <1>2, <3>1, <3>2 DEF ElementsOf
  <2> QED BY <2>1, <2>2
<1>4. ASSUME NEW i \in 1 .. Len(q) - 1 PROVE Tail(q)[i] \in ElementsOf(q)
  <2>1. i + 1 \in 1 .. Len(q) /\ Tail(q)[i] = q[i + 1]
    BY <1>1, <1>2
  <2> QED BY <1>2, <2>1 DEF ElementsOf
<1>5. Head(q) \in ElementsOf(q)
  BY <1>1, <1>2 DEF ElementsOf
<1> QED BY <1>2, <1>3, <1>4, <1>5 DEF ElementsOf

\* Draining a queue splits it.
LEMMA DrainSplits ==
  ASSUME NEW S, NEW q \in Seq(S)
  PROVE  ElementsOf(q) = ElementsOf(Drained(q)) \cup ElementsOf(Left(q))
<1>1. CASE q = <<>> \/ cfg.queue = "all"
  BY <1>1, InputsOfEmpty DEF Drained, Left
<1>2. CASE ~(q = <<>> \/ cfg.queue = "all")
  <2>1. ElementsOf(q) = {Head(q)} \cup ElementsOf(Tail(q))
    BY <1>2, ElementsOfHeadTail
  <2>2. ElementsOf(<<Head(q)>>) = {Head(q)}
    BY DEF ElementsOf
  <2> QED BY <1>2, <2>1, <2>2 DEF Drained, Left
<1> QED BY <1>1, <1>2

\* How each step changes what the messages of the run say.
LEMMA InputsOfSteps ==
  ASSUME TypeInv, HoldingInv
  PROVE  /\ \A m \in Inputs : Prompt(m) => InputsIn(messages') = InputsIn(context) \cup {m}
         /\ BeginTurn => \/ /\ messages' = messages \o UserMessages(pending)
                            /\ InputsIn(messages') = InputsIn(messages) \cup ElementsOf(pending)
                         \/ cfg.persist /\ StartsWithSummary(messages')
         /\ Answers => InputsIn(messages') = InputsIn(messages)
         /\ AppendResults => InputsIn(messages') = InputsIn(messages)
<1> USE DEF TypeInv, TypeOK
<1>1. ASSUME NEW m \in Inputs, Prompt(m)
      PROVE  InputsIn(messages') = InputsIn(context) \cup {m}
  <2>1. messages' = Append(context, User(m))
    BY <1>1 DEF Prompt, FirstMessages
  <2>2. User(m) \in Message /\ User(m).role = "user" /\ User(m).input = m
    BY MessageTypes, InputsOfMessages
  <2>3. InputsIn(Append(context, User(m))) =
          InputsIn(context) \cup (IF User(m).role = "user" THEN {User(m).input} ELSE {})
    BY <2>2, InputsInAppend
  <2> QED BY <2>1, <2>2, <2>3
<1>2. ASSUME BeginTurn
      PROVE  \/ /\ messages' = messages \o UserMessages(pending)
                /\ InputsIn(messages') = InputsIn(messages) \cup ElementsOf(pending)
             \/ cfg.persist /\ StartsWithSummary(messages')
  <2>1. PICK all : all = messages \o UserMessages(pending)
    OBVIOUS
  <2>2. all \in Seq(Message) /\ InputsIn(all) = InputsIn(messages) \cup ElementsOf(pending)
    BY <2>1, TranscriptTypes, ConcatProperties, InputsInConcat, InputsInUserMessages
  <2>3. messages' = all
        \/ (cfg.persist /\ \E k \in 2 .. Len(all) : all[k].role = "user" /\ messages' = Cut(all, k))
    BY <1>2, <2>1, <2>2, TransformedIs DEF BeginTurn
  <2>4. CASE messages' = all
    BY <2>1, <2>2, <2>4
  <2>5. ASSUME cfg.persist, NEW k \in 2 .. Len(all), messages' = Cut(all, k)
        PROVE  cfg.persist /\ StartsWithSummary(messages')
    BY <2>2, <2>5, CutStartsWithSummary
  <2> QED BY <2>3, <2>4, <2>5
<1>3. ASSUME Answers PROVE InputsIn(messages') = InputsIn(messages)
  <2>1. PICK n \in 0 .. MaxCalls : messages' = Append(messages, Assistant(turnId, n))
    BY <1>3, LoopAssumption DEF Answers, AnswerWithoutTools, AnswerWithTools, AnswerTruncated
  <2>2. Assistant(turnId, n) \in Message
    BY MessageTypes
  <2>3. Assistant(turnId, n).role = "assistant"
    BY LoopAssumption, InputsOfMessages
  <2>4. InputsIn(Append(messages, Assistant(turnId, n))) =
          InputsIn(messages) \cup
            (IF Assistant(turnId, n).role = "user" THEN {Assistant(turnId, n).input} ELSE {})
    BY <2>2, InputsInAppend
  <2> QED BY <2>1, <2>3, <2>4
<1>4. ASSUME AppendResults PROVE InputsIn(messages') = InputsIn(messages)
  <2> DEFINE tools == [i \in DOMAIN results |-> ToolMessage(turnId, results[i])]
  <2>1. messages' = messages \o tools
    BY <1>4 DEF AppendResults
  <2>2. tools \in Seq(Message) /\ InputsIn(tools) = {}
    BY TranscriptTypes, InputsInToolMessages
  <2> HIDE DEF tools
  <2>3. InputsIn(messages \o tools) = InputsIn(messages) \cup InputsIn(tools)
    BY <2>2, InputsInConcat
  <2> QED BY <2>1, <2>2, <2>3
<1> QED BY <1>1, <1>2, <1>3, <1>4

\* A transcript that starts with a summary goes on doing so.
LEMMA SummaryOfSteps ==
  ASSUME TypeInv, StartsWithSummary(messages), Answers \/ AppendResults
  PROVE  StartsWithSummary(messages')
<1> USE DEF TypeInv, TypeOK
<1>1. CASE Answers
  <2>1. PICK n \in 0 .. MaxCalls : messages' = Append(messages, Assistant(turnId, n))
    BY <1>1, LoopAssumption DEF Answers, AnswerWithoutTools, AnswerWithTools, AnswerTruncated
  <2>2. PICK a \in Message : a = Assistant(turnId, n)
    BY MessageTypes
  <2>3. Append(messages, a) = messages \o <<a>> /\ <<a>> \in Seq(Message)
    BY AppendIsConcat
  <2>4. StartsWithSummary(messages \o <<a>>)
    BY <2>3, SummaryStays
  <2> QED BY <2>1, <2>2, <2>3, <2>4
<1>2. CASE AppendResults
  <2>1. PICK more : more = [i \in DOMAIN results |-> ToolMessage(turnId, results[i])]
    OBVIOUS
  <2>2. more \in Seq(Message) /\ messages' = messages \o more
    BY <1>2, <2>1, TranscriptTypes DEF AppendResults
  <2> QED BY <2>2, SummaryStays
<1> QED BY <1>1, <1>2

LEMMA HoldingInit == Init => HoldingInv
BY DEF Init, HoldingInv

LEMMA HoldingStep == TypeInv /\ HoldingInv /\ [Next]_vars => HoldingInv'
<1> SUFFICES ASSUME TypeInv, HoldingInv, [Next]_vars PROVE HoldingInv'
  OBVIOUS
<1>1. ASSUME NEW m \in Inputs, Prompt(m) PROVE HoldingInv'
  <2>1. InputsIn(context') \subseteq InputsIn(messages')
    BY <1>1, InputsOfSteps DEF Prompt
  <2> QED BY <1>1, <2>1 DEF Prompt, HoldingInv
<1>2. CASE (\E m \in Inputs : Steer(m) \/ FollowUp(m)) \/ Abort
  BY <1>2 DEF Steer, FollowUp, Abort, runVars, HoldingInv
<1>3. ASSUME NEW how, EndRun(how) PROVE HoldingInv'
  BY <1>3 DEF EndRun, HoldingInv
<1>4. CASE Ends \/ DeliverCancel
  <2>1. CASE MaxTurnsReached
    BY <2>1 DEF MaxTurnsReached, ChooseToReturn, HoldingInv
  <2> QED
    BY <1>3, <1>4, <2>1 DEF Ends, RaiseIfAborted, CompleteTurnFails, Return, DeliverCancel
<1>5. CASE BeginTurn
  <2>1. \/ InputsIn(context) \subseteq InputsIn(messages')
        \/ cfg.persist /\ StartsWithSummary(messages')
    <3>1. UserMessages(pending) \in Seq(Message) /\ messages \in Seq(Message) /\ pc # "idle"
      BY <1>5, TranscriptTypes DEF BeginTurn, TypeInv, TypeOK
    <3>2. StartsWithSummary(messages) => StartsWithSummary(messages \o UserMessages(pending))
      BY <3>1, SummaryStays
    <3> QED BY <1>5, <3>1, <3>2, InputsOfSteps DEF HoldingInv
  <2> QED BY <1>5, <2>1 DEF BeginTurn, HoldingInv
<1>6. CASE Answers
  <2>1. /\ InputsIn(messages') = InputsIn(messages)
        /\ StartsWithSummary(messages) => StartsWithSummary(messages')
    BY <1>6, InputsOfSteps, SummaryOfSteps
  <2> QED
    BY <1>6, <2>1 DEF Answers, AnswerWithoutTools, AnswerWithTools, AnswerTruncated, HoldingInv
<1>7. CASE TakeResult
  BY <1>7 DEF TakeResult, runVars, HoldingInv
<1>8. CASE TakeResultSteered
  BY <1>8 DEF TakeResultSteered, HoldingInv
<1>9. CASE TakeRefusal
  BY <1>3, <1>9 DEF TakeRefusal
<1>10. ASSUME NEW c \in Calls, SkipNext(c) PROVE HoldingInv'
  BY <1>10 DEF SkipNext, runVars, HoldingInv
<1>11. CASE AppendResults
  <2>1. /\ InputsIn(messages') = InputsIn(messages)
        /\ StartsWithSummary(messages) => StartsWithSummary(messages')
    BY <1>11, InputsOfSteps, SummaryOfSteps
  <2> QED BY <1>11, <2>1 DEF AppendResults, HoldingInv
<1>12. CASE Boundary
  <2>1. ASSUME NEW msgs, pc = "boundary", TurnWith(msgs) PROVE HoldingInv'
    BY <2>1 DEF TurnWith, HoldingInv
  <2>2. CASE StopAfterTurn \/ EndAtRest
    <3>1. found # <<>> => cfg.stop = "any"
      BY <2>2 DEF StopAfterTurn, MayStop, EndAtRest, Unsteered, HoldingInv
    <3> QED BY <2>2, <3>1 DEF StopAfterTurn, EndAtRest, Unsteered, ChooseToReturn, HoldingInv
  <2> QED
    BY <1>12, <2>1, <2>2 DEF Boundary, FollowUpAfterStop,
       SteerNextTurn, NextTurn, FollowUpAtRest, Unsteered
<1>13. ASSUME NEW c \in 1 .. MaxCalls, Tool(c) PROVE HoldingInv'
  BY <1>13 DEF Tool, StartTool, RefuseTool, Work, FinishTool, runVars, HoldingInv
<1>14. ASSUME NEW d \in adrift, EndAdrift(d) PROVE HoldingInv'
  BY <1>14 DEF EndAdrift, runVars, HoldingInv
<1>15. CASE UNCHANGED vars
  BY <1>15 DEF vars, runVars, HoldingInv
<1> QED
  BY <1>1, <1>2, <1>4, <1>5, <1>6, <1>7, <1>8, <1>9, <1>10, <1>11, <1>12, <1>13, <1>14, <1>15
  DEF Next, Client, Loop, Gather

LEMMA HeldStep ==
  ASSUME TypeInv, HoldingInv, [Next]_vars, cfg.stop # "any",
         ~(outcome' \in {"max_turns", "aborted", "raised"})
  PROVE  Held \subseteq Held' \/ Summarised
<1> USE DEF Held
<1>1. /\ steering \in Seq(Inputs) /\ followUp \in Seq(Inputs) /\ found \in Seq(Inputs)
      /\ cfg.stop \in {"absent", "no_tools"}
  BY LoopAssumption DEF TypeInv, TypeOK
<1>2. ASSUME NEW m \in Inputs, Prompt(m) PROVE Held \subseteq Held'
  <2>1. InputsIn(messages') = InputsIn(context) \cup {m}
    BY <1>2, InputsOfSteps
  <2>2. messages = <<>> /\ InputsIn(messages) = {}
    BY <1>2, InputsOfEmpty DEF Prompt, HoldingInv
  <2> QED BY <1>2, <2>1, <2>2 DEF Prompt
<1>3. ASSUME NEW m \in Inputs, Steer(m) \/ FollowUp(m) PROVE Held \subseteq Held'
  <2>1. \A q \in Seq(Inputs) : ElementsOf(q) \subseteq ElementsOf(Append(q, m))
    <3> SUFFICES ASSUME NEW q \in Seq(Inputs)
                 PROVE  ElementsOf(q) \subseteq ElementsOf(Append(q, m))
      OBVIOUS
    <3>1. Append(q, m) = q \o <<m>> /\ <<m>> \in Seq(Inputs)
      BY AppendIsConcat
    <3>2. ElementsOf(q \o <<m>>) = ElementsOf(q) \cup ElementsOf(<<m>>)
      BY <3>1, ElementsOfConcat, ZenonT(30)
    <3> QED BY <3>1, <3>2
  <2> QED BY <1>1, <1>3, <2>1 DEF Steer, FollowUp, runVars
<1>4. CASE Abort
  BY <1>4 DEF Abort, runVars
<1>5. CASE Return
  <2>1. pc = "done" /\ EndRun("ok") /\ UNCHANGED <<steering, followUp>>
    BY <1>5 DEF Return, EndRun
  <2>2. /\ context' = messages
        /\ \/ InputsIn(context) \subseteq InputsIn(messages)
           \/ cfg.persist /\ StartsWithSummary(messages)
    BY <2>1 DEF EndRun, HoldingInv
  <2>3. ElementsOf(pending) = {} /\ ElementsOf(found) = {}
    BY <1>1, <2>1, InputsOfEmpty DEF HoldingInv
  <2>4. Held \ Held' \subseteq InputsIn(context)
    BY <2>1, <2>2, <2>3
  <2> QED BY <2>1, <2>2, <2>3, <2>4 DEF Summarised
<1>6. CASE (Ends /\ ~Return) \/ DeliverCancel \/ TakeRefusal
  BY <1>6 DEF Ends, RaiseIfAborted, MaxTurnsReached, CompleteTurnFails, DeliverCancel,
     TakeRefusal, EndRun, ChooseToReturn, toolVars, clientVars
<1>7. CASE BeginTurn
  <2>1. ElementsOf(found) = {}
    BY <1>7, InputsOfEmpty DEF BeginTurn, HoldingInv
  <2>2. UNCHANGED <<steering, followUp, context>> /\ pc = "head"
    BY <1>7 DEF BeginTurn, clientVars
  <2>3. CASE InputsIn(messages') = InputsIn(messages) \cup ElementsOf(pending)
    BY <2>1, <2>2, <2>3
  <2>4. CASE cfg.persist /\ StartsWithSummary(messages')
    <3>1. Held \ Held' \subseteq InputsIn(messages) \cup ElementsOf(pending)
      BY <2>1, <2>2
    <3> QED BY <2>2, <2>4, <3>1 DEF Summarised
  <2> QED BY <1>7, <2>3, <2>4, InputsOfSteps
<1>8. CASE Answers
  <2>1. InputsIn(messages') = InputsIn(messages)
    BY <1>8, InputsOfSteps
  <2> QED
    BY <1>8, <2>1 DEF Answers, AnswerWithoutTools, AnswerWithTools, AnswerTruncated, clientVars
<1>9. CASE TakeResult
  BY <1>9 DEF TakeResult, runVars, clientVars
<1>10. CASE TakeResultSteered
  <2>1. ElementsOf(found) = {}
    BY <1>10, InputsOfEmpty DEF TakeResultSteered, HoldingInv
  <2>2. ElementsOf(steering) = ElementsOf(found') \cup ElementsOf(steering')
    BY <1>1, <1>10, DrainSplits DEF TakeResultSteered
  <2> QED BY <1>10, <2>1, <2>2 DEF TakeResultSteered
<1>11. ASSUME NEW c \in Calls, SkipNext(c) PROVE Held \subseteq Held'
  BY <1>11 DEF SkipNext, runVars, clientVars
<1>12. CASE AppendResults
  <2>1. InputsIn(messages') = InputsIn(messages)
    BY <1>12, InputsOfSteps
  <2> QED BY <1>12, <2>1 DEF AppendResults, clientVars
<1>13. CASE Boundary
  <2> USE DEF TurnWith, Unsteered, HoldingInv
  <2>1. pc = "boundary" => ElementsOf(pending) = {}
    BY InputsOfEmpty
  <2> nCalls \in Nat
    BY LoopAssumption DEF TypeInv, TypeOK
  <2>2. CASE StopAfterTurn \/ EndAtRest
    BY <2>2 DEF StopAfterTurn, EndAtRest, ChooseToReturn, clientVars
  <2>3. CASE FollowUpAfterStop
    <3>1. ElementsOf(followUp) = ElementsOf(pending') \cup ElementsOf(followUp')
      BY <1>1, <2>3, DrainSplits DEF FollowUpAfterStop
    <3>2. ElementsOf(found) = {}
      BY <1>1, <2>3, InputsOfEmpty DEF FollowUpAfterStop, MayStop
    <3> QED BY <2>1, <2>3, <3>1, <3>2 DEF FollowUpAfterStop
  <2>4. CASE SteerNextTurn
    <3>1. CASE found # <<>> /\ TurnWith(found) /\ UNCHANGED steering
      BY <2>1, <2>4, <3>1 DEF SteerNextTurn
    <3>2. CASE /\ found = <<>> /\ steering # <<>>
               /\ TurnWith(Drained(steering)) /\ steering' = Left(steering)
      <4>1. ElementsOf(steering) = ElementsOf(pending') \cup ElementsOf(steering')
        BY <1>1, <3>2, DrainSplits
      <4>2. ElementsOf(found) = {}
        BY <3>2, InputsOfEmpty
      <4> QED BY <2>1, <2>4, <3>2, <4>1, <4>2 DEF SteerNextTurn
    <3> QED BY <2>4, <3>1, <3>2 DEF SteerNextTurn
  <2>5. CASE NextTurn
    <3>1. ElementsOf(found) = {}
      BY <2>5, InputsOfEmpty DEF NextTurn
    <3> QED BY <2>1, <2>5, <3>1 DEF NextTurn, clientVars
  <2>6. CASE FollowUpAtRest
    <3>1. ElementsOf(followUp) = ElementsOf(pending') \cup ElementsOf(followUp')
      BY <1>1, <2>6, DrainSplits DEF FollowUpAtRest
    <3>2. ElementsOf(found) = {}
      BY <2>6, InputsOfEmpty DEF FollowUpAtRest
    <3> QED BY <2>1, <2>6, <3>1, <3>2 DEF FollowUpAtRest
  <2> QED BY <1>13, <2>2, <2>3, <2>4, <2>5, <2>6 DEF Boundary
<1>14. ASSUME NEW c \in 1 .. MaxCalls, Tool(c) PROVE Held \subseteq Held'
  BY <1>14 DEF Tool, StartTool, RefuseTool, Work, FinishTool, runVars, clientVars
<1>15. ASSUME NEW d \in adrift, EndAdrift(d) PROVE Held \subseteq Held'
  BY <1>15 DEF EndAdrift, runVars, clientVars
<1>16. CASE UNCHANGED vars
  BY <1>16 DEF vars, runVars, clientVars
<1> QED
  BY <1>2, <1>3, <1>4, <1>5, <1>6, <1>7, <1>8, <1>9, <1>10, <1>11, <1>12, <1>13, <1>14, <1>15, <1>16
  DEF Next, Client, Loop, Gather, Ends

\* No step loses a message of the client, unless it ends the run without
\* success, summarises it, or the rule for stopping is the embedder's own
\* (loop.py, agent.py).
THEOREM InputsAreKept == Spec => InputsKept
<1>1. /\ TypeInv /\ HoldingInv /\ [Next]_vars
      => [\/ cfg.stop = "any"
          \/ outcome' \in {"max_turns", "aborted", "raised"}
          \/ Held \subseteq Held'
          \/ Summarised]_vars
  BY HeldStep
<1> QED
  BY TypeInit, TypeStep, HoldingInit, HoldingStep, <1>1, PTL DEF Spec, InputsKept

----
(***************************************************************************)
(* Coroutines at work.  While the loop waits for tools, a tool at work  *)
(* has no result yet; one that the loop itself runs is the first without a *)
(* result, and so is one that has raised, which ends the run before        *)
(* another can start.                                                      *)
(***************************************************************************)
NobodyAtWork == \A c \in 1 .. MaxCalls : task[c] \notin Live

First(c) == c \in Unanswered /\ \A d \in Unanswered : c <= d

AtWorkInv ==
  /\ cfg.tools = "sequential" =>
       /\ pc # "act" => NobodyAtWork
       /\ pc = "act" => \A c \in 1 .. MaxCalls : task[c] \in Live \cup {"raised"} => First(c)
  /\ cfg.tools # "sequential" /\ ~aborted =>
       /\ pc # "act" => NobodyAtWork
       /\ pc = "act" => \A c \in 1 .. MaxCalls : task[c] \in Live => c \in Unanswered
       /\ \A c \in 1 .. MaxCalls : task[c] # "raised"

LEMMA AtWorkInit == Init => AtWorkInv
BY DEF Init, AtWorkInv, NobodyAtWork, Live

LEMMA FirstIsOne ==
  ASSUME NEW c, NEW d, First(c), First(d)
  PROVE  c = d
<1>1. c \in Int /\ d \in Int /\ c <= d /\ d <= c
  BY DEF First, Unanswered, Calls
<1> QED BY <1>1

\* Nobody is left at work by CancelLive, nor by the start of the next messages.
LEMMA CancelledRest ==
  ASSUME TypeInv, task' = CancelLive
  PROVE  NobodyAtWork' /\ \A c \in 1 .. MaxCalls : task'[c] = "raised" => task[c] = "raised"
BY DEF TypeInv, TypeOK, CancelLive, NobodyAtWork, Live

\* A result more: the calls without one are what they were, less that call.
LEMMA OneAnswerLess ==
  ASSUME TypeInv, NEW c \in 1 .. MaxCalls, NEW how,
         results' = Append(results, Result(c, how)), nCalls' = nCalls
  PROVE  Unanswered' = Unanswered \ {c}
<1>1. /\ DOMAIN results' = DOMAIN results \cup {Len(results) + 1}
      /\ \A k \in DOMAIN results : results'[k] = results[k]
      /\ results'[Len(results) + 1] = Result(c, how)
      /\ Len(results) + 1 \notin DOMAIN results
  BY DEF TypeInv, TypeOK
<1>2. {results'[k].call : k \in DOMAIN results'} = {results[k].call : k \in DOMAIN results} \cup {c}
  BY <1>1 DEF Result
<1> QED BY <1>2 DEF Unanswered, Calls

\* A step of a tool.
LEMMA AtWorkTool ==
  ASSUME TypeInv, AtWorkInv, NEW c \in 1 .. MaxCalls, Tool(c)
  PROVE  AtWorkInv'
<1>1. /\ UNCHANGED <<cfg, pc, aborted, nCalls, results>> /\ Unanswered' = Unanswered
      /\ \A d \in Unanswered : First(d)' <=> First(d)
  BY DEF Tool, StartTool, RefuseTool, Work, FinishTool, runVars, clientVars,
     Unanswered, Calls, First
<1>2. /\ task \in [1 .. MaxCalls -> TaskStates] /\ Unanswered \subseteq Nat
  BY DEF TypeInv, TypeOK, Unanswered, Calls
<1>3. CASE StartsInLoop(c) /\ StartTool(c)
  <2>1. cfg.tools = "sequential" /\ pc = "act" /\ First(c) /\ task[c] = "none"
    BY <1>3 DEF StartsInLoop, First
  <2>2. ASSUME NEW d \in 1 .. MaxCalls, d # c PROVE task[d] \notin Live \cup {"raised"}
    <3>1. ASSUME task[d] \in Live \cup {"raised"} PROVE FALSE
      <4>1. First(d)
        BY <2>1, <3>1 DEF AtWorkInv
      <4> QED BY <1>2, <2>1, <2>2, <4>1 DEF First
    <3> QED BY <3>1
  <2>3. \A d \in 1 .. MaxCalls : d # c => task'[d] = task[d]
    BY <1>2, <1>3 DEF StartTool
  <2> QED BY <1>1, <2>1, <2>2, <2>3 DEF AtWorkInv, First
<1>4. CASE ~(StartsInLoop(c) /\ StartTool(c))
  <2>1. /\ task[c] \in Live
        /\ \A d \in 1 .. MaxCalls : d # c => task'[d] = task[d]
        /\ ~aborted => task'[c] # "raised"
    BY <1>2, <1>4 DEF Tool, StartTool, RefuseTool, Work, FinishTool, Live
  <2> QED BY <1>1, <2>1 DEF AtWorkInv, NobodyAtWork, First
<1> QED BY <1>3, <1>4

LEMMA AtWorkStep == TypeInv /\ AtWorkInv /\ [Next]_vars => AtWorkInv'
<1> SUFFICES ASSUME TypeInv, AtWorkInv, [Next]_vars PROVE AtWorkInv'
  OBVIOUS
<1>1. ASSUME UNCHANGED <<cfg, task>>, pc # "act", pc' # "act", aborted => aborted'
      PROVE  AtWorkInv'
  BY <1>1 DEF AtWorkInv, NobodyAtWork
<1>2. ASSUME UNCHANGED <<cfg, aborted>>, pc' # "act", NobodyAtWork',
             \A c \in 1 .. MaxCalls : task'[c] = "raised" => task[c] = "raised"
      PROVE  AtWorkInv'
  BY <1>2 DEF AtWorkInv
<1>3. CASE Client
  <2>1. ASSUME NEW m \in Inputs, Prompt(m) PROVE AtWorkInv'
    BY <1>1, <2>1 DEF Prompt, toolVars
  <2>2. ASSUME NEW m \in Inputs, Steer(m) \/ FollowUp(m) PROVE AtWorkInv'
    BY <2>2 DEF Steer, FollowUp, runVars, toolVars, AtWorkInv, NobodyAtWork, First, Unanswered, Calls
  <2>3. CASE Abort
    BY <2>3 DEF Abort, runVars, toolVars, AtWorkInv, NobodyAtWork, First, Unanswered, Calls
  <2> QED BY <1>3, <2>1, <2>2, <2>3 DEF Client
<1>4. CASE DeliverCancel
  <2>1. CASE cfg.tools = "sequential"
    BY <1>2, <1>4, <2>1, CancelledRest DEF DeliverCancel, EndRun, CancelInLoop, clientVars
  <2>2. CASE cfg.tools # "sequential"
    BY <1>4, <2>2 DEF DeliverCancel, EndRun, clientVars, AtWorkInv
  <2> QED BY <2>1, <2>2
<1>5. CASE RaiseIfAborted
  <2>1. CASE pc \in {"head", "decide"}
    BY <1>1, <1>5, <2>1 DEF RaiseIfAborted, EndRun, clientVars
  <2>2. CASE pc \notin {"head", "decide"}
    <3>1. PICK c \in Calls : StartsInLoop(c)
      BY <1>5, <2>2 DEF RaiseIfAborted
    <3>2. First(c) /\ task[c] = "none" /\ cfg.tools = "sequential" /\ pc = "act"
      BY <3>1 DEF StartsInLoop, First
    <3>3. ASSUME NEW d \in 1 .. MaxCalls, task[d] \in Live PROVE FALSE
      <4>1. First(d)
        BY <3>2, <3>3 DEF AtWorkInv
      <4>2. d = c
        BY <3>2, <4>1, FirstIsOne
      <4> QED BY <3>2, <3>3, <4>2 DEF Live
    <3>4. NobodyAtWork
      BY <3>3 DEF NobodyAtWork
    <3> QED BY <1>2, <1>5, <3>4 DEF RaiseIfAborted, EndRun, clientVars, NobodyAtWork
  <2> QED BY <2>1, <2>2
<1>6. CASE MaxTurnsReached \/ CompleteTurnFails \/ Return
  BY <1>1, <1>6
  DEF MaxTurnsReached, ChooseToReturn, CompleteTurnFails, Return, EndRun, toolVars, clientVars
<1>7. CASE BeginTurn \/ AnswerWithoutTools
  BY <1>1, <1>7 DEF BeginTurn, AnswerWithoutTools, toolVars, clientVars
<1>8. ASSUME NEW n \in 1 .. MaxCalls, AnswerWithTools(n) PROVE AtWorkInv'
  <2>1. results' = <<>> /\ nCalls' = n /\ pc' = "act" /\ UNCHANGED cfg
    BY <1>8 DEF AnswerWithTools
  <2>2. Unanswered' = 1 .. n
    BY <2>1 DEF Unanswered, Calls
  <2>3. \A c \in 1 .. MaxCalls :
          task'[c] = IF cfg.tools = "parallel" /\ c <= n THEN "ready" ELSE "none"
    BY <1>8 DEF AnswerWithTools
  <2> QED BY <2>1, <2>2, <2>3, LoopAssumption DEF AtWorkInv, Live
<1>9. ASSUME NEW n \in 1 .. MaxCalls, AnswerTruncated(n) PROVE AtWorkInv'
  BY <1>9 DEF AnswerTruncated, AtWorkInv, Live
<1>10. CASE TakeResult
  <2>1. Head(arrival) \in 1 .. MaxCalls /\ task[Head(arrival)] = "done"
    BY <1>10, HeadTailProperties DEF TakeResult, TypeInv, TypeOK
  <2>2. Unanswered' = Unanswered \ {Head(arrival)}
    BY <1>10, <2>1, OneAnswerLess DEF TakeResult, runVars
  <2> QED BY <1>10, <2>1, <2>2
    DEF TakeResult, runVars, clientVars, AtWorkInv, NobodyAtWork, First, Live
<1>11. CASE TakeResultSteered
  BY <1>2, <1>11, CancelledRest DEF TakeResultSteered
<1>12. CASE TakeRefusal
  <2>1. Head(arrival) \in 1 .. MaxCalls /\ task[Head(arrival)] = "raised"
    BY <1>12, HeadTailProperties DEF TakeRefusal, TypeInv, TypeOK
  <2>2. pc = "act" /\ (cfg.tools = "sequential" \/ aborted)
    BY <1>12, <2>1 DEF TakeRefusal, AtWorkInv
  <2>3. ASSUME cfg.tools = "sequential", NEW d \in 1 .. MaxCalls, task[d] \in Live PROVE FALSE
    <3>1. First(d) /\ First(Head(arrival))
      BY <2>1, <2>2, <2>3 DEF AtWorkInv
    <3> QED BY <2>1, <2>3, <3>1, FirstIsOne DEF Live
  <2> QED BY <1>12, <2>2, <2>3 DEF TakeRefusal, EndRun, clientVars, AtWorkInv, NobodyAtWork
<1>13. ASSUME NEW c \in Calls, SkipNext(c) PROVE AtWorkInv'
  BY <1>1, <1>13 DEF SkipNext, runVars, clientVars
<1>14. CASE AppendResults
  <2>1. (cfg.tools = "sequential" \/ ~aborted) => NobodyAtWork
    BY <1>14 DEF AppendResults, Gathered, AtWorkInv, NobodyAtWork, First, Live
  <2>2. \A c \in 1 .. MaxCalls : /\ task'[c] \in Live => task[c] \in Live
                                 /\ task'[c] = "raised" => task[c] = "raised"
    BY <1>14 DEF AppendResults, TypeInv, TypeOK, Live
  <2>3. pc' = "boundary" /\ UNCHANGED <<cfg, aborted>>
    BY <1>14 DEF AppendResults, clientVars
  <2>4. NobodyAtWork => NobodyAtWork'
    BY <2>2 DEF NobodyAtWork, Live
  <2> QED BY <2>1, <2>2, <2>3, <2>4 DEF AtWorkInv, NobodyAtWork, Live
<1>15. CASE Boundary
  BY <1>1, <1>15 DEF Boundary, StopAfterTurn, EndAtRest, FollowUpAfterStop, SteerNextTurn,
     NextTurn, FollowUpAtRest, Unsteered, TurnWith, ChooseToReturn, toolVars, clientVars
<1>16. ASSUME NEW c \in 1 .. MaxCalls, Tool(c) PROVE AtWorkInv'
  BY <1>16, AtWorkTool
<1>17. ASSUME NEW d \in adrift, EndAdrift(d) PROVE AtWorkInv'
  BY <1>17 DEF EndAdrift, runVars, clientVars, AtWorkInv, NobodyAtWork, First, Unanswered, Calls
<1>18. CASE UNCHANGED vars
  BY <1>18 DEF vars, runVars, toolVars, clientVars, AtWorkInv, NobodyAtWork, First, Unanswered, Calls
<1> QED
  BY <1>3, <1>4, <1>5, <1>6, <1>7, <1>8, <1>9, <1>10, <1>11, <1>12, <1>13, <1>14, <1>15, <1>16, <1>17,
     <1>18
  DEF Next, Loop, Ends, Answers, Gather

----
(***************************************************************************)
(* NotRunMeansNotRun.  What the transcript says of a turn is said when the *)
(* turn is over, so a call of it can still run only while its results are  *)
(* gathered; a truncated answer leaves nothing to gather; and a sequential *)
(* loop has at most one tool that was started and not yet answered.        *)
(***************************************************************************)
ToolMessagesIn(s) == {x \in ElementsOf(s) : x.role = "tool"}
Said == ToolMessagesIn(messages) \cup ToolMessagesIn(context)
Gathering == pc \in {"act", "skip"}

\* Calls that had an effect, or still may without a coroutine.
Touched == executed \cup adrift

\* Nothing is said or done of a turn before its time.
InTimeInv ==
  /\ \A t \in Nat, c \in 1 .. MaxCalls :
       <<t, c>> \in Touched => t <= turnId /\ (pc = "decide" => t # turnId)
  /\ \A x \in Said : x.turn <= turnId /\ (pc = "decide" \/ Gathering => x.turn # turnId)
  /\ ~Gathering => results = <<>>
  /\ pc = "decide" => NobodyAtWork

TruncatedInv ==
  /\ \A x \in Said : x.how = "truncated" =>
       <<x.turn, x.call>> \notin Touched /\ (x.turn = turnId => NobodyAtWork)
  /\ \A r \in ElementsOf(results) : r.how = "truncated" =>
       <<turnId, r.call>> \notin Touched /\ NobodyAtWork /\ (pc = "act" => Unanswered = {})

SkippedInv ==
  cfg.tools = "sequential" =>
    /\ \A x \in Said : x.how = "skipped" => <<x.turn, x.call>> \notin Touched
    /\ \A r \in ElementsOf(results) : r.how = "skipped" =>
         <<turnId, r.call>> \notin Touched /\ pc = "skip"
    /\ pc = "skip" => \A c \in Unanswered : <<turnId, c>> \notin Touched
    /\ pc = "act" =>
         /\ \A c \in Unanswered :
              /\ task[c] # "none" => First(c)
              /\ <<turnId, c>> \in Touched => task[c] # "none"
         /\ Len(arrival) <= 1
         /\ \A c \in ElementsOf(arrival) : First(c) /\ task[c] \in {"done", "raised"}

NotRunInv == InTimeInv /\ TruncatedInv /\ SkippedInv

LEMMA NotRunInit == Init => NotRunInv
BY LoopAssumption, InputsOfEmpty
DEF Init, NotRunInv, InTimeInv, TruncatedInv, SkippedInv, Said, ToolMessagesIn, Gathering,
    NobodyAtWork, Touched, Live

\* A cut transcript says nothing new of tools.
LEMMA CutSaysNoMore ==
  ASSUME NEW s \in Seq(Message), NEW k \in 2 .. Len(s)
  PROVE  ToolMessagesIn(Cut(s, k)) \subseteq ToolMessagesIn(s)
<1>1. Len(s) \in Nat /\ k \in Nat /\ k \in 2 .. Len(s) + 1 /\ DOMAIN s = 1 .. Len(s)
  BY LenProperties
<1>2. /\ Cut(s, k) \in Seq(Message) /\ Len(Cut(s, k)) = Len(s) - k + 2
      /\ Cut(s, k)[1] = Summary
      /\ \A i \in 2 .. Len(s) - k + 2 : Cut(s, k)[i] = s[i + k - 2]
  BY <1>1, CutProperties
<1>3. DOMAIN Cut(s, k) = 1 .. Len(s) - k + 2
  BY <1>2, LenProperties
<1>4. ASSUME NEW i \in 1 .. Len(s) - k + 2, Cut(s, k)[i].role = "tool"
      PROVE  Cut(s, k)[i] \in ElementsOf(s)
  <2>1. i # 1
    BY <1>2, <1>4 DEF Summary
  <2>2. i \in 2 .. Len(s) - k + 2 /\ i + k - 2 \in 1 .. Len(s)
    BY <1>1, <2>1
  <2> QED BY <1>1, <1>2, <2>2 DEF ElementsOf
<1> QED BY <1>3, <1>4 DEF ToolMessagesIn, ElementsOf

\* How the steps change what the transcript says of tools.
LEMMA SaidOfSteps ==
  ASSUME TypeInv
  PROVE  /\ \A m \in Inputs : Prompt(m) => Said' \subseteq Said
         /\ \A how : EndRun(how) => Said' \subseteq Said
         /\ BeginTurn \/ Answers => Said' \subseteq Said
         /\ AppendResults => \A x \in Said' \ Said : \E r \in ElementsOf(results) :
                                x.turn = turnId /\ x.call = r.call /\ x.how = r.how
<1> USE DEF TypeInv, TypeOK, Said
<1>1. ASSUME NEW x, NEW s \in Seq(Message), NEW t \in Seq(Message), x \in ToolMessagesIn(s \o t)
      PROVE  x \in ToolMessagesIn(s) \cup ToolMessagesIn(t)
  BY <1>1, ElementsOfConcat DEF ToolMessagesIn
<1>2. ASSUME NEW msg \in Message, msg.role # "tool"
      PROVE  <<msg>> \in Seq(Message) /\ ToolMessagesIn(<<msg>>) = {}
  BY <1>2 DEF ToolMessagesIn, ElementsOf
<1>3. ASSUME NEW s \in Seq(Message), NEW msg \in Message, msg.role # "tool"
      PROVE  ToolMessagesIn(Append(s, msg)) \subseteq ToolMessagesIn(s)
  <2>1. Append(s, msg) = s \o <<msg>>
    BY AppendIsConcat
  <2> QED BY <1>1, <1>2, <1>3, <2>1
<1>4. ASSUME NEW m \in Inputs, Prompt(m) PROVE Said' \subseteq Said
  BY <1>3, <1>4, MessageTypes, InputsOfMessages DEF Prompt, FirstMessages
<1>5. ASSUME NEW how, EndRun(how) PROVE Said' \subseteq Said
  BY <1>5, InputsOfEmpty DEF EndRun, ToolMessagesIn
<1>6. ASSUME BeginTurn PROVE Said' \subseteq Said
  <2>1. \A i \in DOMAIN pending : pending[i] \in Inputs
    BY ElementOfSeq, LenProperties
  <2>2. ToolMessagesIn(UserMessages(pending)) = {}
    BY <2>1, InputsOfMessages DEF UserMessages, ToolMessagesIn, ElementsOf
  <2>3. PICK all : all = messages \o UserMessages(pending)
    OBVIOUS
  <2>4. all \in Seq(Message) /\ ToolMessagesIn(all) \subseteq ToolMessagesIn(messages)
    BY <1>1, <2>2, <2>3, TranscriptTypes, ConcatProperties
  <2>5. messages' = all
        \/ \E k \in 2 .. Len(all) : messages' = Cut(all, k)
    BY <1>6, <2>3, <2>4, TransformedIs DEF BeginTurn
  <2>6. ToolMessagesIn(messages') \subseteq ToolMessagesIn(all)
    BY <2>4, <2>5, CutSaysNoMore
  <2> QED BY <1>6, <2>4, <2>6 DEF BeginTurn
<1>7. ASSUME Answers PROVE Said' \subseteq Said
  <2>1. PICK n \in 0 .. MaxCalls :
          messages' = Append(messages, Assistant(turnId, n)) /\ context' = context
    BY <1>7, LoopAssumption DEF Answers, AnswerWithoutTools, AnswerWithTools, AnswerTruncated
  <2>2. Assistant(turnId, n) \in Message /\ Assistant(turnId, n).role = "assistant"
    BY LoopAssumption, MessageTypes, InputsOfMessages
  <2> QED BY <1>3, <2>1, <2>2
<1>8. ASSUME AppendResults, NEW x \in Said' \ Said
      PROVE  \E r \in ElementsOf(results) : x.turn = turnId /\ x.call = r.call /\ x.how = r.how
  <2> DEFINE tools == [i \in DOMAIN results |-> ToolMessage(turnId, results[i])]
  <2>1. messages' = messages \o tools /\ context' = context /\ tools \in Seq(Message)
    BY <1>8, TranscriptTypes DEF AppendResults
  <2>2. x \in ToolMessagesIn(tools)
    BY <1>1, <1>8, <2>1
  <2>3. PICK i \in DOMAIN results : x = ToolMessage(turnId, results[i])
    BY <2>2 DEF ToolMessagesIn, ElementsOf
  <2> QED BY <2>3 DEF ElementsOf, ToolMessage
<1> QED BY <1>4, <1>5, <1>6, <1>7, <1>8

\* Whom a cancel cuts off from its process or thread.
LEMMA CutOffIs ==
  ASSUME TypeInv
  PROVE  /\ \A p \in CutOff : \E d \in 1 .. MaxCalls : p = <<turnId, d>> /\ task[d] = "running"
         /\ NobodyAtWork => CutOff = {}
BY DEF TypeInv, TypeOK, CutOff, NobodyAtWork, Live

LEMMA NotRunTool ==
  ASSUME TypeInv, AtWorkInv, NotRunInv, NEW c \in 1 .. MaxCalls, Tool(c)
  PROVE  NotRunInv'
<1> USE DEF TypeInv, TypeOK, NotRunInv
<1>0. UNCHANGED <<cfg, pc, turnId, nCalls, messages, context, results>>
  BY DEF Tool, StartTool, RefuseTool, Work, FinishTool, runVars
<1>1. /\ Said' = Said /\ Gathering' = Gathering
      /\ Unanswered' = Unanswered /\ ElementsOf(results)' = ElementsOf(results)
      /\ \A d : First(d)' <=> First(d)
  BY <1>0 DEF Said, Gathering, Unanswered, Calls, First
<1>2. /\ pc' = pc /\ turnId' = turnId /\ cfg' = cfg /\ results' = results
      /\ \A d \in 1 .. MaxCalls : d # c => task'[d] = task[d]
  BY <1>0 DEF Tool, StartTool, RefuseTool, Work, FinishTool
<1>3. /\ ~StartsInLoop(c) => task[c] \in Live
      /\ task'[c] # "none"
      /\ \A p : p \in Touched' => p \in Touched \/ (p = <<turnId, c>> /\ Work(c))
      /\ Work(c) => task[c] \in Live
  BY DEF Tool, StartTool, RefuseTool, Work, FinishTool, Touched, Live
\* Who is not at work stays so, except by a start in the loop.
<1>4. ASSUME NobodyAtWork PROVE StartsInLoop(c) /\ ~Work(c)
  BY <1>3, <1>4 DEF NobodyAtWork
<1>5. ASSUME StartsInLoop(c)
      PROVE  cfg.tools = "sequential" /\ pc = "act" /\ task[c] = "none" /\ First(c)
  BY <1>5 DEF StartsInLoop, First
<1>6. ~Work(c) => Touched' \subseteq Touched
  BY <1>3
<1>7. InTimeInv'
  <2>1. pc = "decide" => FALSE
    BY <1>4, <1>5 DEF InTimeInv
  <2> QED BY <1>1, <1>2, <1>3, <2>1 DEF InTimeInv
<1>8. TruncatedInv'
  <2>1. ASSUME NEW x \in Said, x.how = "truncated"
        PROVE  <<x.turn, x.call>> \notin Touched' /\ (x.turn = turnId => NobodyAtWork')
    <3>1. CASE x.turn = turnId
      <4>1. NobodyAtWork /\ ~Gathering
        BY <2>1, <3>1 DEF TruncatedInv, InTimeInv
      <4> QED BY <1>4, <1>5, <4>1 DEF Gathering
    <3>2. CASE x.turn # turnId
      BY <1>3, <2>1, <3>2, SMTT(30) DEF TruncatedInv
    <3> QED BY <3>1, <3>2
  <2>2. ASSUME NEW r \in ElementsOf(results), r.how = "truncated" PROVE FALSE
    BY <1>4, <1>5, <2>2 DEF TruncatedInv, First
  <2> QED BY <1>1, <1>2, <2>1, <2>2 DEF TruncatedInv
<1>9. SkippedInv'
  <2> SUFFICES ASSUME cfg.tools = "sequential" PROVE SkippedInv'
    BY <1>2 DEF SkippedInv
  <2>1. pc = "act"
    BY <1>4, <1>5 DEF AtWorkInv
  <2>2. First(c)
    BY <1>3, <1>5, <2>1 DEF AtWorkInv
  <2>3. \A x \in Said : x.how = "skipped" => <<x.turn, x.call>> \notin Touched'
    <3>1. ASSUME NEW x \in Said, x.how = "skipped" PROVE <<x.turn, x.call>> \notin Touched'
      <4>1. x.turn # turnId
        BY <2>1 DEF InTimeInv, Gathering
      <4>2. <<x.turn, x.call>> \notin Touched
        BY <3>1 DEF SkippedInv
      <4> QED BY <1>3, <4>1, <4>2
    <3> QED BY <3>1
  <2>4. \A r \in ElementsOf(results) : r.how # "skipped"
    BY <2>1 DEF SkippedInv
  <2>5. ASSUME NEW d \in Unanswered
        PROVE  /\ task'[d] # "none" => First(d)
               /\ <<turnId, d>> \in Touched' => task'[d] # "none"
    <3>1. d \in 1 .. MaxCalls
      BY LoopAssumption DEF Unanswered, Calls
    <3>2. CASE d = c
      BY <1>3, <2>2, <3>2
    <3>3. CASE d # c
      <4>1. task'[d] = task[d] /\ (<<turnId, d>> \in Touched' => <<turnId, d>> \in Touched)
        BY <1>2, <1>3, <3>1, <3>3
      <4> QED BY <2>1, <2>5, <4>1 DEF SkippedInv
    <3> QED BY <3>2, <3>3
  <2>6. ASSUME Len(arrival') <= 1,
               \A d \in ElementsOf(arrival)' : First(d) /\ task'[d] \in {"done", "raised"}
        PROVE  SkippedInv'
    BY <1>1, <1>2, <2>1, <2>3, <2>4, <2>5, <2>6 DEF SkippedInv
  <2>7. CASE arrival' = arrival
    <3>1. c \notin ElementsOf(arrival)
      BY <1>3, <1>5, <2>1 DEF SkippedInv, Live
    <3>2. ElementsOf(arrival)' = ElementsOf(arrival) /\ ElementsOf(arrival) \subseteq 1 .. MaxCalls
      BY <2>7, ElementsAreIn
    <3>3. \A d \in ElementsOf(arrival) : First(d) /\ task'[d] \in {"done", "raised"}
      BY <1>2, <2>1, <3>1, <3>2 DEF SkippedInv
    <3> QED
      BY <2>1, <2>7, <2>6, <3>2, <3>3 DEF SkippedInv
  <2>8. CASE arrival' = Append(arrival, c) /\ task[c] \in Live /\ task'[c] \in {"done", "raised"}
    <3>1. ASSUME arrival # <<>> PROVE FALSE
      <4>1. arrival[1] \in ElementsOf(arrival)
        BY <3>1 DEF ElementsOf
      <4>2. First(arrival[1]) /\ task[arrival[1]] \in {"done", "raised"}
        BY <2>1, <4>1 DEF SkippedInv
      <4> QED BY <2>2, <2>8, <4>2, FirstIsOne DEF Live
    <3>2. Len(arrival') = 1 /\ DOMAIN arrival' = 1 .. 1 /\ arrival'[1] = c
      BY <2>8, <3>1, EmptySeq, AppendProperties
    <3>3. Len(arrival') <= 1 /\ \A d \in ElementsOf(arrival)' : d = c
      BY <3>2 DEF ElementsOf
    <3> QED BY <2>2, <2>8, <2>6, <3>3
  <2>9. (arrival' = arrival)
        \/ (arrival' = Append(arrival, c) /\ task[c] \in Live /\ task'[c] \in {"done", "raised"})
    BY <2>1 DEF Tool, StartTool, RefuseTool, Work, FinishTool, Live
  <2> QED BY <2>7, <2>8, <2>9
<1> QED BY <1>7, <1>8, <1>9

LEMMA HeadIsElement ==
  ASSUME NEW S, NEW q \in Seq(S), q # <<>>
  PROVE  /\ Head(q) \in S /\ Head(q) \in ElementsOf(q)
         /\ Len(q) <= 1 => Tail(q) = <<>>
<1>1. Len(q) \in Nat /\ Len(q) # 0 /\ DOMAIN q = 1 .. Len(q)
  BY LenProperties, EmptySeq
<1>2. Head(q) = q[1] /\ Head(q) \in S /\ Tail(q) \in Seq(S) /\ Len(Tail(q)) = Len(q) - 1
  BY HeadTailProperties
<1>3. Head(q) \in ElementsOf(q)
  BY <1>1, <1>2 DEF ElementsOf
<1>4. ASSUME Len(q) <= 1 PROVE Tail(q) = <<>>
  <2>1. Len(Tail(q)) = 0
    BY <1>1, <1>2, <1>4
  <2> QED BY <1>2, <2>1, EmptySeq
<1> QED BY <1>2, <1>3, <1>4

LEMMA ElementsOfAppend ==
  ASSUME NEW S, NEW q \in Seq(S), NEW e \in S
  PROVE  ElementsOf(Append(q, e)) = ElementsOf(q) \cup {e}
<1>1. Append(q, e) = q \o <<e>> /\ <<e>> \in Seq(S)
  BY AppendIsConcat
<1>2. ElementsOf(<<e>>) = {e}
  BY DEF ElementsOf
<1>3. ElementsOf(q \o <<e>>) = ElementsOf(q) \cup ElementsOf(<<e>>)
  BY <1>1, ElementsOfConcat, ZenonT(30)
<1> QED BY <1>1, <1>2, <1>3

\* The steps that gather the results.
LEMMA NotRunGather ==
  ASSUME TypeInv, AtWorkInv, NotRunInv, TakeResult \/ TakeResultSteered \/ AppendResults
                                        \/ \E c \in Calls : SkipNext(c)
  PROVE  NotRunInv'
<1> USE DEF TypeInv, TypeOK, NotRunInv
<1>1. ASSUME NEW c \in 1 .. MaxCalls, NEW how \in {"executed", "skipped"},
             results' = Append(results, Result(c, how))
      PROVE  \A r \in ElementsOf(results') : r \in ElementsOf(results) \/ r = Result(c, how)
  <2>1. Result(c, how) \in ResultSet
    BY DEF Result, ResultSet
  <2>2. ElementsOf(Append(results, Result(c, how))) = ElementsOf(results) \cup {Result(c, how)}
    BY <2>1, ElementsOfAppend
  <2> QED BY <1>1, <2>2
<1>2. ASSUME NEW c \in 1 .. MaxCalls, NEW how \in {"executed", "skipped"},
             results' = Append(results, Result(c, how)), Gathering, Gathering',
             UNCHANGED <<cfg, turnId, messages, context, nCalls>>,
             Touched' \subseteq Touched \cup CutOff,
             cfg.tools = "sequential" => Touched' \subseteq Touched,
             how = "skipped" /\ cfg.tools = "sequential"
               => <<turnId, c>> \notin Touched /\ pc = "skip",
             pc = "skip" => pc' = "skip" /\ UNCHANGED task,
             NobodyAtWork => NobodyAtWork'
      PROVE  /\ InTimeInv' /\ TruncatedInv' /\ Unanswered' = Unanswered \ {c}
             /\ cfg.tools = "sequential" =>
                  /\ \A x \in Said' : x.how = "skipped" => <<x.turn, x.call>> \notin Touched'
                  /\ \A r \in ElementsOf(results') : r.how = "skipped" =>
                       <<turnId, r.call>> \notin Touched' /\ pc' = "skip"
  <2>1. Said' = Said /\ Unanswered' = Unanswered \ {c} /\ pc # "decide" /\ pc' # "decide"
    BY <1>2, OneAnswerLess DEF Said, Gathering
  <2>2. \A r \in ElementsOf(results') :
          r \in ElementsOf(results) \/ (r.how = how /\ r.call = c)
    <3>1. Result(c, how).how = how /\ Result(c, how).call = c
      BY DEF Result
    <3>2. \A r \in ElementsOf(results') : r \in ElementsOf(results) \/ r = Result(c, how)
      BY <1>1, <1>2
    <3> QED BY <3>1, <3>2
  <2>3. InTimeInv'
    <3>1. ASSUME NEW t \in Nat, NEW d \in 1 .. MaxCalls, <<t, d>> \in Touched' PROVE t <= turnId
      <4>1. CASE <<t, d>> \in Touched
        BY <4>1 DEF InTimeInv
      <4>2. CASE <<t, d>> \in CutOff
        <5>1. PICK e \in 1 .. MaxCalls : <<t, d>> = <<turnId, e>>
          BY <4>2, CutOffIs
        <5> QED BY <5>1
      <4> QED BY <1>2, <3>1, <4>1, <4>2
    <3> QED BY <1>2, <2>1, <3>1 DEF InTimeInv
  <2>4. TruncatedInv'
    <3>1. ASSUME NEW x \in Said, x.how = "truncated"
          PROVE  <<x.turn, x.call>> \notin Touched' /\ x.turn # turnId
      BY <1>2, <2>1, <3>1, CutOffIs DEF TruncatedInv, InTimeInv, Gathering
    <3>2. ASSUME NEW r \in ElementsOf(results'), r.how = "truncated"
          PROVE  /\ <<turnId, r.call>> \notin Touched' /\ NobodyAtWork'
                 /\ pc' = "act" => Unanswered' = {}
      <4>1. /\ r \in ElementsOf(results) /\ <<turnId, r.call>> \notin Touched /\ NobodyAtWork
            /\ pc = "act" => Unanswered = {}
        BY <1>2, <2>2, <3>2 DEF TruncatedInv
      <4>2. Touched' \subseteq Touched
        BY <1>2, <4>1, CutOffIs
      <4>3. pc' = "act" => pc = "act"
        BY <1>2 DEF Gathering
      <4> QED BY <1>2, <2>1, <4>1, <4>2, <4>3
    <3> QED BY <1>2, <2>1, <3>1, <3>2 DEF TruncatedInv
  <2>5. ASSUME cfg.tools = "sequential", NEW r \in ElementsOf(results'), r.how = "skipped"
        PROVE  <<turnId, r.call>> \notin Touched' /\ pc' = "skip"
    BY <1>2, <2>2, <2>5 DEF SkippedInv
  <2> QED BY <1>2, <2>1, <2>3, <2>4, <2>5 DEF SkippedInv
<1>3. ASSUME arrival # <<>>
      PROVE  /\ Head(arrival) \in 1 .. MaxCalls /\ Head(arrival) \in ElementsOf(arrival)
             /\ Len(arrival) <= 1 => Tail(arrival) = <<>>
  BY <1>3, HeadIsElement
<1>4. ASSUME cfg' = cfg, cfg.tools # "sequential" PROVE SkippedInv'
  BY <1>4 DEF SkippedInv
<1>5. CASE TakeResult
  <2> DEFINE h == Head(arrival)
  <2>1. /\ h \in 1 .. MaxCalls /\ h \in ElementsOf(arrival)
        /\ Len(arrival) <= 1 => Tail(arrival) = <<>>
    BY <1>3, <1>5 DEF TakeResult
  <2>2. /\ pc = "act" /\ pc' = pc /\ results' = Append(results, Result(h, "executed"))
        /\ arrival' = Tail(arrival)
        /\ UNCHANGED <<cfg, turnId, messages, context, Touched, nCalls, task>>
    BY <1>5 DEF TakeResult, runVars, Touched
  <2> HIDE DEF h
  <2>3. /\ InTimeInv' /\ TruncatedInv' /\ Unanswered' = Unanswered \ {h}
        /\ cfg.tools = "sequential" =>
             /\ \A x \in Said' : x.how = "skipped" => <<x.turn, x.call>> \notin Touched'
             /\ \A r \in ElementsOf(results') : r.how = "skipped" =>
                  <<turnId, r.call>> \notin Touched' /\ pc' = "skip"
    BY <1>2, <2>1, <2>2 DEF Gathering, NobodyAtWork, Live
  <2>4. CASE cfg.tools = "sequential"
    <3>1. arrival' = <<>>
      BY <2>1, <2>2, <2>4 DEF SkippedInv
    <3>2. Len(arrival') <= 1 /\ ElementsOf(arrival)' = {}
      BY <3>1, InputsOfEmpty, EmptySeq
    <3>3. \A d \in Unanswered' : (task[d] # "none" => First(d)') /\ d \in Unanswered
      BY <2>2, <2>3, <2>4 DEF SkippedInv, First
    <3> QED BY <2>2, <2>3, <2>4, <3>2, <3>3 DEF SkippedInv
  <2>5. CASE cfg.tools # "sequential"
    <3>1. cfg' = cfg
      BY <2>2
    <3> QED BY <1>4, <2>3, <2>5, <3>1
  <2> QED BY <2>3, <2>4, <2>5
<1>6. CASE TakeResultSteered
  <2> DEFINE h == Head(arrival)
  <2>1. /\ h \in 1 .. MaxCalls /\ h \in ElementsOf(arrival)
    BY <1>3, <1>6 DEF TakeResultSteered
  <2>2. /\ pc = "act" /\ pc' = "skip" /\ results' = Append(results, Result(h, "executed"))
        /\ UNCHANGED <<cfg, turnId, messages, context, nCalls>> /\ Touched' = Touched \cup CutOff
        /\ NobodyAtWork'
    BY <1>6, CancelledRest DEF TakeResultSteered, Touched
  <2> HIDE DEF h
\* A loop that runs its tools itself has none at work when it takes a result.
  <2>5. ASSUME cfg.tools = "sequential" PROVE CutOff = {}
    <3>1. First(h) /\ task[h] \in {"done", "raised"}
      BY <2>1, <2>2, <2>5 DEF SkippedInv
    <3>2. NobodyAtWork
      BY <2>2, <2>5, <3>1, FirstIsOne DEF AtWorkInv, NobodyAtWork, Live
    <3> QED BY <3>2, CutOffIs
  <2>3. /\ InTimeInv' /\ TruncatedInv' /\ Unanswered' = Unanswered \ {h}
        /\ cfg.tools = "sequential" =>
             /\ \A x \in Said' : x.how = "skipped" => <<x.turn, x.call>> \notin Touched'
             /\ \A r \in ElementsOf(results') : r.how = "skipped" =>
                  <<turnId, r.call>> \notin Touched' /\ pc' = "skip"
    BY <1>2, <2>1, <2>2, <2>5 DEF Gathering
  <2>4. ASSUME cfg.tools = "sequential", NEW c \in Unanswered' PROVE <<turnId, c>> \notin Touched'
    <3>1. c \in Unanswered /\ c # h
      BY <2>3, <2>4
    <3>2. First(h)
      BY <2>1, <2>2, <2>4 DEF SkippedInv
    <3> QED BY <2>2, <2>4, <2>5, <3>1, <3>2, FirstIsOne DEF SkippedInv
  <2> QED BY <2>2, <2>3, <2>4 DEF SkippedInv
<1>7. ASSUME NEW c \in Calls, SkipNext(c) PROVE NotRunInv'
  <2>1. c \in 1 .. MaxCalls
    BY LoopAssumption DEF Calls
  <2>2. /\ pc = "skip" /\ pc' = pc /\ results' = Append(results, Result(c, "skipped"))
        /\ c \in Unanswered
        /\ UNCHANGED <<cfg, turnId, messages, context, Touched, nCalls, task>>
    BY <1>7 DEF SkipNext, runVars, Touched
  <2>3. /\ InTimeInv' /\ TruncatedInv' /\ Unanswered' = Unanswered \ {c}
        /\ cfg.tools = "sequential" =>
             /\ \A x \in Said' : x.how = "skipped" => <<x.turn, x.call>> \notin Touched'
             /\ \A r \in ElementsOf(results') : r.how = "skipped" =>
                  <<turnId, r.call>> \notin Touched' /\ pc' = "skip"
    BY <1>2, <2>1, <2>2 DEF Gathering, SkippedInv, NobodyAtWork, Live
  <2> QED BY <2>2, <2>3 DEF SkippedInv
<1>8. CASE AppendResults
  <2>1. /\ pc' = "boundary" /\ Gathering /\ results' = <<>> /\ ElementsOf(results)' = {}
        /\ UNCHANGED <<cfg, turnId, Touched>>
        /\ \A c \in 1 .. MaxCalls : task'[c] \in Live => task[c] \in Live
    BY <1>8, InputsOfEmpty DEF AppendResults, Gathering, Live, Touched
  <2>2. NobodyAtWork => NobodyAtWork'
    BY <2>1 DEF NobodyAtWork, Live
  <2>3. ASSUME NEW x \in Said', x \notin Said
        PROVE  \E r \in ElementsOf(results) : x.turn = turnId /\ x.call = r.call /\ x.how = r.how
    BY <1>8, <2>3, SaidOfSteps
  <2>4. InTimeInv'
    BY <2>1, <2>3, SMTT(30) DEF InTimeInv, Gathering
  <2>5. TruncatedInv'
    BY <2>1, <2>2, <2>3 DEF TruncatedInv, InTimeInv, Gathering
  <2>6. SkippedInv'
    <3>1. cfg.tools = "sequential" =>
            \A x \in Said' : x.how = "skipped" => <<x.turn, x.call>> \notin Touched'
      BY <2>1, <2>3 DEF SkippedInv
    <3> QED BY <2>1, <3>1 DEF SkippedInv
  <2> QED BY <2>4, <2>5, <2>6
<1> QED BY <1>5, <1>6, <1>7, <1>8

LEMMA NotRunStep == TypeInv /\ AtWorkInv /\ NotRunInv /\ [Next]_vars => NotRunInv'
<1> SUFFICES ASSUME TypeInv, AtWorkInv, NotRunInv, [Next]_vars PROVE NotRunInv'
  OBVIOUS
<1> USE DEF NotRunInv
\* A step that neither works nor gathers, and says nothing new of tools.
<1>1. ASSUME UNCHANGED <<cfg, turnId>>, Said' \subseteq Said,
             \A p \in Touched' : p \in Touched \/ (p \in CutOff /\ Gathering),
             results' = <<>>, pc' \notin {"act", "skip", "decide"}, NobodyAtWork => NobodyAtWork'
      PROVE  NotRunInv'
  <2>1. ElementsOf(results)' = {} /\ ~Gathering' /\ pc' # "skip" /\ pc' # "act"
    BY <1>1, InputsOfEmpty DEF Gathering
  <2>2. InTimeInv'
    BY <1>1, <2>1, CutOffIs DEF InTimeInv
  <2>5. ASSUME NEW x \in Said, <<x.turn, x.call>> \in Touched' PROVE <<x.turn, x.call>> \in Touched
    BY <1>1, <2>5, CutOffIs DEF InTimeInv
  <2>3. TruncatedInv'
    BY <1>1, <2>1, <2>5 DEF TruncatedInv
  <2>4. SkippedInv'
    BY <1>1, <2>1, <2>5 DEF SkippedInv
  <2> QED BY <2>2, <2>3, <2>4
<1>2. ASSUME UNCHANGED <<cfg, runVars, toolVars>> PROVE NotRunInv'
  BY <1>2 DEF runVars, toolVars, InTimeInv, TruncatedInv, SkippedInv, Said, Gathering,
     NobodyAtWork, Unanswered, Calls, First, Touched
<1>3. ASSUME NEW how, EndRun(how), cfg' = cfg, NobodyAtWork => NobodyAtWork',
             adrift' = adrift \/ (adrift' = adrift \cup CutOff /\ Gathering)
      PROVE  NotRunInv'
  BY <1>1, <1>3, SaidOfSteps DEF EndRun, Touched
<1>4. CASE Client
  <2>1. ASSUME NEW m \in Inputs, Prompt(m) PROVE NotRunInv'
    <3>1. Said' \subseteq Said
      BY <2>1, SaidOfSteps
    <3> QED BY <1>1, <2>1, <3>1
        DEF Prompt, toolVars, InTimeInv, Gathering, NobodyAtWork, Touched
  <2>2. ASSUME NEW m \in Inputs, Steer(m) \/ FollowUp(m) PROVE NotRunInv'
    BY <1>2, <2>2 DEF Steer, FollowUp
  <2>3. CASE Abort
    BY <1>2, <2>3 DEF Abort
  <2> QED BY <1>4, <2>1, <2>2, <2>3 DEF Client
<1>5. CASE Ends \/ DeliverCancel \/ TakeRefusal \/ StopAfterTurn \/ EndAtRest
  <2>1. CASE \E as \in {"done", "spent"} : pc \in {"head", "boundary"} /\ ChooseToReturn(as)
    <3>1. UNCHANGED <<cfg, turnId, Touched, Said, task, results>> /\ ~Gathering
          /\ pc' \notin {"act", "skip", "decide"}
      BY <2>1 DEF ChooseToReturn, toolVars, Said, Touched, Gathering
    <3> QED BY <1>1, <3>1 DEF InTimeInv, NobodyAtWork
  <2>2. CASE RaiseIfAborted \/ CompleteTurnFails \/ TakeRefusal \/ Return
    <3>1. UNCHANGED <<cfg, task, adrift>> /\ \E how : EndRun(how)
      BY <2>2 DEF RaiseIfAborted, CompleteTurnFails, TakeRefusal, Return
    <3> QED BY <1>3, <3>1 DEF NobodyAtWork
  <2>3. CASE DeliverCancel
    <3>1. /\ cfg' = cfg /\ EndRun("aborted")
          /\ (task' = task /\ adrift' = adrift)
             \/ (cfg.tools = "sequential" /\ task' = CancelLive /\ adrift' = adrift \cup CutOff)
      BY <2>3 DEF DeliverCancel, CancelInLoop
    <3>2. NobodyAtWork => NobodyAtWork'
      BY <3>1, CancelledRest DEF NobodyAtWork, Live
    <3>3. cfg.tools = "sequential" /\ ~Gathering => CutOff = {}
      BY CutOffIs DEF AtWorkInv, Gathering
    <3> QED BY <1>3, <3>1, <3>2, <3>3
  <2>4. MaxTurnsReached \/ StopAfterTurn \/ EndAtRest
          => \E as \in {"done", "spent"} : pc \in {"head", "boundary"} /\ ChooseToReturn(as)
    BY DEF MaxTurnsReached, StopAfterTurn, EndAtRest, Unsteered
  <2> QED BY <1>5, <2>1, <2>2, <2>3, <2>4 DEF Ends
<1>6. CASE BeginTurn
  <2>1. /\ pc' = "decide" /\ turnId' = turnId + 1 /\ ~aborted /\ turnId \in Nat
        /\ UNCHANGED <<cfg, Touched, results, task>> /\ results = <<>>
    BY <1>6 DEF BeginTurn, toolVars, InTimeInv, Gathering, TypeInv, TypeOK, Touched
  <2>2. Said' \subseteq Said
    BY <1>6, SaidOfSteps
  <2>3. NobodyAtWork /\ NobodyAtWork'
    BY <1>6, <2>1 DEF BeginTurn, AtWorkInv, NobodyAtWork, Live
  <2>4. ASSUME NEW x \in Said PROVE x.turn \in Nat /\ x.turn <= turnId
    <3>1. x \in Message /\ x.role = "tool"
      BY ElementsAreIn DEF Said, ToolMessagesIn, TypeInv, TypeOK
    <3>2. x.turn \in Nat
      BY <3>1 DEF Message
    <3> QED BY <3>2 DEF InTimeInv
  <2>5. InTimeInv'
    BY <2>1, <2>2, <2>3, <2>4 DEF InTimeInv, Gathering
  <2>6. ElementsOf(results)' = {}
    BY <2>1, InputsOfEmpty
  <2>7. TruncatedInv'
    BY <2>1, <2>2, <2>3, <2>4, <2>6 DEF TruncatedInv
  <2>8. SkippedInv'
    BY <2>1, <2>2, <2>6 DEF SkippedInv
  <2> QED BY <2>5, <2>7, <2>8
<1>7. CASE AnswerWithoutTools
  <2>1. /\ pc' = "boundary" /\ results' = <<>> /\ UNCHANGED <<cfg, turnId, Touched, task>>
    BY <1>7 DEF AnswerWithoutTools, toolVars, InTimeInv, Gathering, Touched
  <2>2. Said' \subseteq Said
    BY <1>7, SaidOfSteps DEF Answers
  <2> QED BY <1>1, <2>1, <2>2 DEF NobodyAtWork
<1>8. ASSUME NEW n \in 1 .. MaxCalls, AnswerWithTools(n) \/ AnswerTruncated(n) PROVE NotRunInv'
  <2>1. /\ pc = "decide" /\ pc' = "act" /\ nCalls' = n /\ arrival' = <<>>
        /\ UNCHANGED <<cfg, turnId, Touched>> /\ turnId \in Nat
    BY <1>8 DEF AnswerWithTools, AnswerTruncated, TypeInv, TypeOK, Touched
  <2>2. Said' \subseteq Said
    BY <1>8, SaidOfSteps DEF Answers
  <2>3. Len(arrival') <= 1 /\ ElementsOf(arrival)' = {}
    BY <2>1, InputsOfEmpty, EmptySeq
  <2>4. \A c \in 1 .. MaxCalls : <<turnId, c>> \notin Touched
    BY <2>1 DEF InTimeInv
  <2>5. InTimeInv'
    BY <2>1, <2>2 DEF InTimeInv, Gathering
  <2>6. Unanswered' \subseteq 1 .. MaxCalls
    BY <2>1, LoopAssumption DEF Unanswered, Calls
  <2>7. cfg.tools = "sequential" => \A c \in 1 .. MaxCalls : task'[c] = "none"
    BY <1>8 DEF AnswerWithTools, AnswerTruncated
  <2>8. ASSUME \A r \in ElementsOf(results)' : /\ r.how = "truncated" /\ r.call \in 1 .. MaxCalls
                                                /\ NobodyAtWork' /\ Unanswered' = {}
        PROVE  NotRunInv'
    <3>1. TruncatedInv'
      BY <2>1, <2>2, <2>4, <2>8 DEF TruncatedInv, InTimeInv
    <3>2. SkippedInv'
      BY <2>1, <2>2, <2>3, <2>4, <2>6, <2>7, <2>8 DEF SkippedInv
    <3> QED BY <2>5, <3>1, <3>2
  <2>9. CASE AnswerWithTools(n)
    <3>1. ElementsOf(results)' = {}
      BY <2>9, InputsOfEmpty DEF AnswerWithTools
    <3> QED BY <2>8, <3>1
  <2>10. CASE AnswerTruncated(n)
    <3>1. results' = [i \in 1 .. n |-> Result(i, "truncated")]
      BY <2>10 DEF AnswerTruncated
    <3>2. \A r \in ElementsOf(results') : r.how = "truncated" /\ r.call \in 1 .. MaxCalls
      BY <3>1, LoopAssumption DEF ElementsOf, Result
    <3>3. Unanswered' = {}
      BY <2>1, <3>1 DEF Unanswered, Calls, Result
    <3>4. NobodyAtWork'
      BY <2>10 DEF AnswerTruncated, NobodyAtWork, Live
    <3> QED BY <2>8, <3>2, <3>3, <3>4
  <2> QED BY <1>8, <2>9, <2>10
<1>9. CASE TakeResult \/ TakeResultSteered \/ AppendResults \/ \E c \in Calls : SkipNext(c)
  BY <1>9, NotRunGather
<1>10. CASE FollowUpAfterStop \/ SteerNextTurn \/ NextTurn \/ FollowUpAtRest
  <2>1. \E msgs : pc = "boundary" /\ TurnWith(msgs)
    BY <1>10 DEF FollowUpAfterStop, SteerNextTurn, NextTurn, FollowUpAtRest, Unsteered
  <2>2. /\ UNCHANGED <<cfg, turnId, Touched, task, messages, context>>
        /\ results' = <<>> /\ pc' = "head"
    BY <2>1 DEF TurnWith, toolVars, InTimeInv, Gathering, Touched
  <2> QED BY <1>1, <2>2 DEF Said, NobodyAtWork
<1>11. ASSUME NEW c \in 1 .. MaxCalls, Tool(c) PROVE NotRunInv'
  BY <1>11, NotRunTool
<1>12. ASSUME NEW d \in adrift, EndAdrift(d) PROVE NotRunInv'
  <2>1. /\ UNCHANGED <<cfg, pc, turnId, results, task, arrival, nCalls, Said>>
        /\ Touched' \subseteq Touched
    BY <1>12 DEF EndAdrift, runVars, Touched, Said
  <2>2. UNCHANGED <<Unanswered, NobodyAtWork, Gathering>> /\ \A c : First(c)' <=> First(c)
    BY <2>1 DEF Unanswered, NobodyAtWork, Gathering, Calls, First
  <2> QED BY <2>1, <2>2 DEF InTimeInv, TruncatedInv, SkippedInv
<1>13. CASE UNCHANGED vars
  BY <1>2, <1>13 DEF vars
<1> QED
  BY <1>4, <1>5, <1>6, <1>7, <1>8, <1>9, <1>10, <1>11, <1>12, <1>13
  DEF Next, Loop, Answers, Gather, Boundary

\* A call that the transcript reports as not run did not run (loop.py:260,
\* 335); skipped calls of parallel tools excepted, which SkippedMeansNotRun
\* is about.
THEOREM ReportsOfNotRun == Spec => []NotRunMeansNotRun
<1>1. ASSUME NotRunInv, NEW how, NEW p \in Reported(how)
      PROVE  \/ \E x \in Said : x.how = how /\ p = <<x.turn, x.call>>
             \/ \E r \in ElementsOf(results) : r.how = how /\ p = <<turnId, r.call>>
  BY <1>1 DEF Reported, Said, ToolMessagesIn, ElementsOf
<1>2. NotRunInv => NotRunMeansNotRun
  BY <1>1 DEF NotRunInv, TruncatedInv, SkippedInv, NotRunMeansNotRun, Touched
<1> QED
  BY TypeInit, TypeStep, AtWorkInit, AtWorkStep, NotRunInit, NotRunStep, <1>2, PTL DEF Spec

----
(***************************************************************************)
(* EveryCallAnsweredOnce.  While results are gathered no call has two: the *)
(* tasks at work and those that have arrived are without a result, and no  *)
(* task arrives twice.  So as many results are appended as there are       *)
(* calls, and a turn leaves a transcript that is as well paired as before. *)
(***************************************************************************)
DistinctCalls ==
  /\ \A k \in DOMAIN results : results[k].call \in Calls
  /\ \A k, l \in DOMAIN results : results[k].call = results[l].call => k = l

ArrivalInv ==
  /\ \A c \in 1 .. MaxCalls : task[c] \in Live => c \in Unanswered
  /\ \A k \in DOMAIN arrival : arrival[k] \in Unanswered /\ task[arrival[k]] \in {"done", "raised"}
  /\ \A k, l \in DOMAIN arrival : arrival[k] = arrival[l] => k = l

\* The transcript of a turn whose answer is in and whose results are not.
OpenTurn(s) == messages = Append(s, Assistant(turnId, nCalls)) /\ Paired(s)

PairedInv ==
  /\ Paired(context)
  /\ pc \in {"head", "decide", "boundary", "done", "spent"} => Paired(messages)
  /\ Gathering => DistinctCalls /\ \E s \in Seq(Message) : OpenTurn(s)
  /\ pc = "act" => ArrivalInv

\* Two well paired transcripts make one.
LEMMA PairedConcat ==
  ASSUME NEW s \in Seq(Message), NEW t \in Seq(Message), Paired(s), Paired(t)
  PROVE  Paired(s \o t)
<1> DEFINE st == s \o t
<1>1. /\ Len(s) \in Nat /\ Len(t) \in Nat /\ Len(st) = Len(s) + Len(t)
      /\ DOMAIN s = 1 .. Len(s) /\ DOMAIN t = 1 .. Len(t) /\ DOMAIN st = 1 .. Len(s) + Len(t)
      /\ \A i \in 1 .. Len(s) : st[i] = s[i]
      /\ \A i \in 1 .. Len(t) : st[Len(s) + i] = t[i]
  <2>1. /\ st \in Seq(Message) /\ Len(st) = Len(s) + Len(t)
        /\ \A i \in 1 .. Len(s) + Len(t) : st[i] = IF i <= Len(s) THEN s[i] ELSE t[i - Len(s)]
    BY ConcatProperties
  <2>2. Len(s) \in Nat /\ Len(t) \in Nat
    BY LenProperties
  <2>3. DOMAIN s = 1 .. Len(s) /\ DOMAIN t = 1 .. Len(t) /\ DOMAIN st = 1 .. Len(st)
    BY <2>1, LenProperties
  <2> HIDE DEF st
  <2>4. ASSUME NEW i \in 1 .. Len(t) PROVE st[Len(s) + i] = t[i]
    <3>1. Len(s) + i \in 1 .. Len(s) + Len(t) /\ ~(Len(s) + i <= Len(s)) /\ (Len(s) + i) - Len(s) = i
      BY <2>2
    <3> QED BY <2>1, <3>1
  <2> QED BY <2>1, <2>2, <2>3, <2>4
<1>2. /\ \A i \in DOMAIN s : s[i].role = "assistant" => s[i].calls \in Nat
      /\ \A i \in DOMAIN t : t[i].role = "assistant" => t[i].calls \in Nat
  <2>1. \A x \in Message : x.role = "assistant" => x.calls \in Nat
    BY LoopAssumption DEF Message
  <2>2. (\A i \in DOMAIN s : s[i] \in Message) /\ (\A i \in DOMAIN t : t[i] \in Message)
    BY ElementOfSeq, LenProperties
  <2> QED BY <2>1, <2>2
<1> HIDE DEF st
<1>3. ASSUME NEW i \in DOMAIN st, st[i].role = "assistant"
      PROVE  /\ i + st[i].calls <= Len(st)
             /\ \A k \in i + 1 .. i + st[i].calls : st[k].role = "tool" /\ st[k].turn = st[i].turn
             /\ {st[k].call : k \in i + 1 .. i + st[i].calls} = 1 .. st[i].calls
  <2>1. CASE i <= Len(s)
    <3>1. i \in DOMAIN s /\ st[i] = s[i] /\ s[i].calls \in Nat
      BY <1>1, <1>2, <1>3, <2>1
    <3>2. /\ i + s[i].calls <= Len(s)
          /\ \A k \in i + 1 .. i + s[i].calls : s[k].role = "tool" /\ s[k].turn = s[i].turn
          /\ {s[k].call : k \in i + 1 .. i + s[i].calls} = 1 .. s[i].calls
      BY <1>3, <3>1 DEF Paired
    <3>3. \A k \in i + 1 .. i + s[i].calls : st[k] = s[k]
      BY <1>1, <3>1, <3>2
    <3>4. {st[k].call : k \in i + 1 .. i + s[i].calls} = {s[k].call : k \in i + 1 .. i + s[i].calls}
      BY <3>3
    <3>5. st[i].calls = s[i].calls /\ st[i].turn = s[i].turn
      BY <3>1
    <3>6. i + st[i].calls <= Len(st)
      BY <1>1, <3>1, <3>2, <3>5
    <3>7. {st[k].call : k \in i + 1 .. i + st[i].calls} = 1 .. st[i].calls
      BY <3>2, <3>4, <3>5
    <3> QED BY <3>2, <3>3, <3>5, <3>6, <3>7
  <2>2. CASE ~(i <= Len(s))
    <3>1. PICK j \in DOMAIN t : i = Len(s) + j /\ st[i] = t[j] /\ t[j].calls \in Nat
      <4>1. i - Len(s) \in DOMAIN t /\ i = Len(s) + (i - Len(s))
        BY <1>1, <2>2
      <4>2. st[i] = t[i - Len(s)]
        BY <1>1, <4>1
      <4> QED BY <1>2, <1>3, <4>1, <4>2
    <3>2. /\ j + t[j].calls <= Len(t)
          /\ \A k \in j + 1 .. j + t[j].calls : t[k].role = "tool" /\ t[k].turn = t[j].turn
          /\ {t[k].call : k \in j + 1 .. j + t[j].calls} = 1 .. t[j].calls
      BY <1>3, <3>1 DEF Paired
    <3>3. \A k \in j + 1 .. j + t[j].calls :
            Len(s) + k \in i + 1 .. i + t[j].calls /\ st[Len(s) + k] = t[k]
      <4>1. /\ Len(s) \in Nat /\ Len(t) \in Nat /\ j \in 1 .. Len(t) /\ i = Len(s) + j
            /\ t[j].calls \in Nat /\ j + t[j].calls <= Len(t)
        BY <1>1, <3>1, <3>2
      <4>2. ASSUME NEW k \in j + 1 .. j + t[j].calls
            PROVE  k \in 1 .. Len(t) /\ Len(s) + k \in i + 1 .. i + t[j].calls
        BY <4>1
      <4>3. \A k \in 1 .. Len(t) : st[Len(s) + k] = t[k]
        BY <1>1
      <4> QED BY <4>2, <4>3
    <3>4. \A k \in i + 1 .. i + t[j].calls :
            k - Len(s) \in j + 1 .. j + t[j].calls /\ st[k] = t[k - Len(s)]
      <4>1. \A k \in i + 1 .. i + t[j].calls :
              k - Len(s) \in j + 1 .. j + t[j].calls /\ Len(s) + (k - Len(s)) = k
        BY <1>1, <3>1
      <4> QED BY <3>3, <4>1
    <3>5. {st[k].call : k \in i + 1 .. i + t[j].calls} = {t[k].call : k \in j + 1 .. j + t[j].calls}
      BY <3>3, <3>4
    <3>6. st[i].calls = t[j].calls /\ st[i].turn = t[j].turn
      BY <3>1
    <3>7. i + st[i].calls <= Len(st)
      BY <1>1, <3>1, <3>2, <3>6
    <3>8. {st[k].call : k \in i + 1 .. i + st[i].calls} = 1 .. st[i].calls
      BY <3>2, <3>5, <3>6
    <3> QED BY <3>2, <3>4, <3>6, <3>7, <3>8, SMTT(30)
  <2> QED BY <2>1, <2>2
<1>4. ASSUME NEW k \in DOMAIN st, st[k].role = "tool"
      PROVE  \E i \in 1 .. k - 1 : st[i].role = "assistant" /\ k <= i + st[i].calls
  <2>1. CASE k <= Len(s)
    <3>1. k \in DOMAIN s /\ st[k] = s[k]
      BY <1>1, <2>1
    <3>2. PICK i \in 1 .. k - 1 : s[i].role = "assistant" /\ k <= i + s[i].calls
      BY <1>4, <3>1 DEF Paired
    <3> QED BY <1>1, <3>1, <3>2
  <2>2. CASE ~(k <= Len(s))
    <3>1. PICK l \in DOMAIN t : k = Len(s) + l /\ st[k] = t[l]
      <4>1. k - Len(s) \in DOMAIN t /\ k = Len(s) + (k - Len(s))
        BY <1>1, <2>2
      <4> QED BY <1>1, <4>1
    <3>2. PICK i \in 1 .. l - 1 : t[i].role = "assistant" /\ l <= i + t[i].calls
      BY <1>4, <3>1 DEF Paired
    <3>3. /\ i \in DOMAIN t /\ Len(s) + i \in 1 .. k - 1 /\ st[Len(s) + i] = t[i]
          /\ t[i].calls \in Nat
      BY <1>1, <1>2, <3>1, <3>2
    <3>4. k <= (Len(s) + i) + t[i].calls
      BY <1>1, <3>1, <3>2, <3>3
    <3> QED BY <3>2, <3>3, <3>4
  <2> QED BY <2>1, <2>2
<1>5. Paired(st)
  BY <1>3, <1>4 DEF Paired
<1> QED BY <1>5 DEF st

\* Messages of users, and an answer without calls, are well paired.
LEMMA PairedOthers ==
  /\ Paired(<<>>)
  /\ \A q \in Seq(Inputs) : Paired(UserMessages(q))
  /\ \A m \in Inputs : Paired(<<User(m)>>)
  /\ \A t \in Nat : Paired(<<Assistant(t, 0)>>)
<1>1. ASSUME NEW q \in Seq(Inputs) PROVE Paired(UserMessages(q))
  <2>1. \A i \in DOMAIN UserMessages(q) : UserMessages(q)[i].role = "user"
    BY DEF UserMessages, User
  <2> QED BY <2>1 DEF Paired
<1>2. ASSUME NEW m \in Inputs PROVE Paired(<<User(m)>>)
  BY DEF User, Paired
<1>3. ASSUME NEW t \in Nat PROVE Paired(<<Assistant(t, 0)>>)
  <2> DEFINE s == <<Assistant(t, 0)>>
  <2>1. DOMAIN s = {1} /\ Len(s) = 1 /\ s[1].role = "assistant" /\ s[1].calls = 0
    BY DEF Assistant
  <2> HIDE DEF s
  <2>2. {s[k].call : k \in 1 + 1 .. 1 + 0} = 1 .. 0
    OBVIOUS
  <2>3. Paired(s)
    BY <2>1, <2>2 DEF Paired
  <2> QED BY <2>3 DEF s
<1>4. Paired(<<>>)
  BY DEF Paired
<1> QED BY <1>1, <1>2, <1>3, <1>4

\* What a summary and a tail from a user message on leave of it is well paired.
LEMMA PairedCut ==
  ASSUME NEW s \in Seq(Message), NEW j \in 2 .. Len(s), s[j].role = "user", Paired(s)
  PROVE  Paired(Cut(s, j))
<1> DEFINE t == Cut(s, j)
           n == Len(s) - j + 2
<1>1. Len(s) \in Nat /\ j \in Nat /\ j \in 2 .. Len(s) + 1 /\ DOMAIN s = 1 .. Len(s)
  BY LenProperties
<1>2. /\ t \in Seq(Message) /\ Len(t) = n /\ t[1] = Summary
      /\ \A i \in 2 .. n : t[i] = s[i + j - 2]
  BY <1>1, CutProperties
<1>3. DOMAIN t = 1 .. n /\ n \in Nat
  BY <1>1, <1>2, LenProperties
<1>4. \A i \in DOMAIN s : s[i].role = "assistant" => s[i].calls \in Nat
  <2>1. \A x \in Message : x.role = "assistant" => x.calls \in Nat
    BY LoopAssumption DEF Message
  <2> QED BY <1>1, <2>1, ElementOfSeq
<1> HIDE DEF t
<1>5. ASSUME NEW i \in 1 .. n, t[i].role \in {"assistant", "tool"}
      PROVE  i \in 2 .. n /\ i + j - 2 \in DOMAIN s /\ t[i] = s[i + j - 2]
  <2>1. i # 1
    BY <1>2, <1>5 DEF Summary
  <2>2. i \in 2 .. n /\ i + j - 2 \in 1 .. Len(s)
    BY <1>1, <2>1
  <2> QED BY <1>1, <1>2, <2>2
<1>6. ASSUME NEW i \in DOMAIN t, t[i].role = "assistant"
      PROVE  /\ i + t[i].calls <= Len(t)
             /\ \A k \in i + 1 .. i + t[i].calls : t[k].role = "tool" /\ t[k].turn = t[i].turn
             /\ {t[k].call : k \in i + 1 .. i + t[i].calls} = 1 .. t[i].calls
  <2>1. PICK p : p = i + j - 2
    OBVIOUS
  <2>2. i \in 2 .. n /\ p \in DOMAIN s /\ t[i] = s[p]
    BY <1>3, <1>5, <1>6, <2>1
  <2>3. PICK c \in Nat : c = s[p].calls
    BY <1>4, <1>6, <2>2
  <2>4. /\ p + c <= Len(s)
        /\ \A k \in p + 1 .. p + c : s[k].role = "tool" /\ s[k].turn = s[p].turn
        /\ {s[k].call : k \in p + 1 .. p + c} = 1 .. c
    BY <1>6, <2>2, <2>3 DEF Paired
  <2>5. p \in Nat /\ i \in Nat /\ p - i = j - 2 /\ i + c <= n
    BY <1>1, <2>1, <2>2, <2>4
  <2>6. \A k \in i + 1 .. i + c : k + j - 2 \in p + 1 .. p + c /\ t[k] = s[k + j - 2]
    <3>1. \A k \in i + 1 .. i + c : k + j - 2 \in p + 1 .. p + c /\ k \in 2 .. n
      BY <1>1, <1>3, <2>1, <2>2, <2>5
    <3> QED BY <1>2, <3>1
  <2>7. \A k \in p + 1 .. p + c : k - j + 2 \in i + 1 .. i + c /\ t[k - j + 2] = s[k]
    <3>1. p \in Int /\ i \in Int /\ j \in Int /\ c \in Int /\ p = i + j - 2
      BY <1>1, <2>1, <2>5
    <3>2. ASSUME NEW k \in p + 1 .. p + c
          PROVE  k - j + 2 \in i + 1 .. i + c /\ (k - j + 2) + j - 2 = k
      BY ONLY <3>1, k \in p + 1 .. p + c
    <3> QED BY <2>6, <3>2
  <2>8. {t[k].call : k \in i + 1 .. i + c} = {s[k].call : k \in p + 1 .. p + c}
    BY <2>6, <2>7
  <2>9. \A k \in i + 1 .. i + c : t[k].role = "tool" /\ t[k].turn = t[i].turn
    BY <2>2, <2>4, <2>6
  <2>10. t[i].calls = c
    BY <2>2, <2>3
  <2> QED BY <1>2, <2>4, <2>5, <2>8, <2>9, <2>10
<1>7. ASSUME NEW k \in DOMAIN t, t[k].role = "tool"
      PROVE  \E i \in 1 .. k - 1 : t[i].role = "assistant" /\ k <= i + t[i].calls
  <2>1. PICK p : p = k + j - 2
    OBVIOUS
  <2>2. k \in 2 .. n /\ p \in DOMAIN s /\ t[k] = s[p]
    BY <1>3, <1>5, <1>7, <2>1
  <2>3. PICK q \in 1 .. p - 1 : s[q].role = "assistant" /\ p <= q + s[q].calls
    BY <1>7, <2>2 DEF Paired
  <2>4. q \in DOMAIN s /\ s[q].calls \in Nat /\ q \in Nat /\ p \in Nat
    BY <1>1, <1>4, <2>2, <2>3
\* Its answer is not before the cut: the cut would be one of its tool messages.
  <2>5. ASSUME q <= j PROVE FALSE
    <3>1. q # j
      BY <2>3
    <3>2. j <= p
      BY <1>1, <2>1, <2>2
    <3>3. j \in q + 1 .. q + s[q].calls
      BY <1>1, <2>3, <2>4, <2>5, <3>1, <3>2
    <3>4. s[j].role = "tool"
      BY <2>3, <2>4, <3>3 DEF Paired
    <3> QED BY <3>4
  <2>6. PICK i : i = q - j + 2
    OBVIOUS
  <2>10. PICK c \in Nat : c = s[q].calls
    BY <2>4
  <2>11. /\ k \in Int /\ j \in Int /\ q \in Int /\ p \in Int /\ Len(s) \in Int
         /\ p = k + j - 2 /\ i = q - j + 2 /\ q <= p - 1 /\ p <= Len(s) /\ q > j /\ p <= q + c
    BY <1>1, <2>1, <2>2, <2>3, <2>4, <2>5, <2>6, <2>10
  <2>7. i \in 2 .. n /\ i + j - 2 = q /\ i \in 1 .. k - 1
    BY ONLY <2>11
  <2>8. t[i] = s[q]
    BY <1>2, <2>7
  <2>9. k <= i + s[q].calls
    <3>1. c \in Int /\ k <= i + c
      BY ONLY c \in Nat, <2>11
    <3> QED BY <2>10, <3>1
  <2> QED BY <2>3, <2>7, <2>8, <2>9
<1>8. Paired(t)
  BY <1>6, <1>7 DEF Paired
<1> QED BY <1>8 DEF t

\* As many distinct calls as there are, and no others, are all calls.
LEMMA AsManyAsCalls ==
  ASSUME TypeInv, DistinctCalls, Gathered
  PROVE  Len(results) = nCalls /\ {results[k].call : k \in 1 .. Len(results)} = 1 .. nCalls
<1>1. Len(results) \in Nat /\ DOMAIN results = 1 .. Len(results) /\ nCalls \in Nat
  BY LoopAssumption, LenProperties DEF TypeInv, TypeOK
<1> DEFINE f == [k \in 1 .. Len(results) |-> results[k].call]
<1>2. /\ \A k \in 1 .. Len(results) : results[k].call \in 1 .. nCalls
      /\ \A k, l \in 1 .. Len(results) : results[k].call = results[l].call => k = l
      /\ \A c \in 1 .. nCalls : \E k \in 1 .. Len(results) : results[k].call = c
  BY <1>1 DEF DistinctCalls, Gathered, Unanswered, Calls
<1>3. f \in Injection(1 .. Len(results), 1 .. nCalls)
  BY <1>2 DEF Injection, IsInjective
<1>4. f \in Surjection(1 .. Len(results), 1 .. nCalls)
  BY <1>2 DEF Surjection
<1> HIDE DEF f
<1>5. \A n \in Nat : IsFiniteSet(1 .. n) /\ Cardinality(1 .. n) = n
  <2> SUFFICES ASSUME NEW n \in Nat PROVE IsFiniteSet(1 .. n) /\ Cardinality(1 .. n) = n
    OBVIOUS
  <2>1. /\ IsFiniteSet(1 .. n)
        /\ Cardinality(1 .. n) = IF 1 > n THEN 0 ELSE n - 1 + 1
    BY FS_Interval
  <2> QED BY <2>1
<1>6. Cardinality(1 .. Len(results)) = Cardinality(1 .. nCalls)
  BY <1>1, <1>3, <1>4, <1>5, FS_Injection, SMTT(30)
<1>7. Len(results) = nCalls
  BY <1>1, <1>5, <1>6
<1>8. {results[k].call : k \in 1 .. Len(results)} = 1 .. nCalls
  BY <1>2
<1> QED BY <1>7, <1>8

LEMMA AppendThenConcat ==
  ASSUME NEW S, NEW s \in Seq(S), NEW a \in S, NEW t \in Seq(S)
  PROVE  Append(s, a) \o t = s \o (<<a>> \o t)
<1>1. Append(s, a) = s \o <<a>> /\ <<a>> \in Seq(S)
  BY AppendIsConcat
<1>2. (s \o <<a>>) \o t = s \o (<<a>> \o t)
  BY <1>1, ConcatAssociative
<1> QED BY <1>1, <1>2

\* The tool messages of a turn pair its answer.
LEMMA PairedTurn ==
  ASSUME TypeInv, DistinctCalls, Gathered, NEW s \in Seq(Message), OpenTurn(s)
  PROVE  Paired(messages \o [i \in DOMAIN results |-> ToolMessage(turnId, results[i])])
<1> DEFINE a == Assistant(turnId, nCalls)
           tools == [i \in DOMAIN results |-> ToolMessage(turnId, results[i])]
           turn == <<a>> \o tools
<1> USE DEF TypeInv, TypeOK
<1>1. /\ Len(results) = nCalls /\ DOMAIN results = 1 .. nCalls /\ nCalls \in Nat
      /\ {results[k].call : k \in 1 .. nCalls} = 1 .. nCalls
  BY AsManyAsCalls, LoopAssumption, LenProperties
<1>2. a \in Message /\ <<a>> \in Seq(Message) /\ tools \in Seq(Message)
  <2>1. turnId \in Nat /\ nCalls \in 0 .. MaxCalls /\ results \in Seq(ResultSet)
    OBVIOUS
  <2>2. a \in Message
    BY <2>1, MessageTypes
  <2>3. tools \in Seq(Message)
    BY <2>1, TranscriptTypes
  <2> QED BY <2>2, <2>3
<1>3. /\ a.role = "assistant" /\ a.calls = nCalls /\ a.turn = turnId
      /\ \A i \in 1 .. nCalls : /\ tools[i].role = "tool" /\ tools[i].turn = turnId
                                /\ tools[i].call = results[i].call
      /\ Len(tools) = nCalls
  BY <1>1 DEF Assistant, ToolMessage
<1> HIDE DEF a, tools
<1>4. /\ turn \in Seq(Message) /\ Len(turn) = nCalls + 1 /\ DOMAIN turn = 1 .. nCalls + 1
      /\ turn[1] = a /\ \A i \in 1 .. nCalls : turn[i + 1] = tools[i]
  <2>1. /\ turn \in Seq(Message) /\ Len(turn) = 1 + nCalls
        /\ \A i \in 1 .. 1 + nCalls : turn[i] = IF i <= 1 THEN <<a>>[i] ELSE tools[i - 1]
    BY <1>2, <1>3, ConcatProperties
  <2>2. DOMAIN turn = 1 .. Len(turn)
    BY <2>1, LenProperties
  <2>5. turn[1] = <<a>>[1] /\ <<a>>[1] = a
    BY <1>1, <2>1
  <2> HIDE DEF turn
  <2>3. ASSUME NEW i \in 1 .. nCalls PROVE turn[i + 1] = tools[i]
    <3>1. i + 1 \in 1 .. 1 + nCalls /\ ~(i + 1 <= 1) /\ (i + 1) - 1 = i
      BY <1>1
    <3> QED BY <2>1, <3>1
  <2>4. Len(turn) = nCalls + 1 /\ 1 .. Len(turn) = 1 .. nCalls + 1
    BY <1>1, <2>1
  <2> QED BY <2>1, <2>2, <2>3, <2>4, <2>5
<1> HIDE DEF turn
<1>5. \A k \in 2 .. nCalls + 1 : /\ k - 1 \in 1 .. nCalls /\ turn[k] = tools[k - 1]
                                 /\ turn[k].role = "tool" /\ turn[k].turn = turnId
                                 /\ turn[k].call = results[k - 1].call
  <2> SUFFICES ASSUME NEW k \in 2 .. nCalls + 1
               PROVE  /\ k - 1 \in 1 .. nCalls /\ turn[k] = tools[k - 1]
                      /\ turn[k].role = "tool" /\ turn[k].turn = turnId
                      /\ turn[k].call = results[k - 1].call
    OBVIOUS
  <2>1. k - 1 \in 1 .. nCalls /\ (k - 1) + 1 = k
    BY <1>1
  <2>2. turn[(k - 1) + 1] = tools[k - 1]
    BY <1>4, <2>1
  <2>3. turn[k] = tools[k - 1]
    BY <2>1, <2>2
  <2> QED BY <1>3, <2>1, <2>3
<1>6. {turn[k].call : k \in 1 + 1 .. 1 + nCalls} = 1 .. nCalls
  <2>1. \A k \in 1 + 1 .. 1 + nCalls : k \in 2 .. nCalls + 1
    BY <1>1
  <2>2. \A i \in 1 .. nCalls : i + 1 \in 1 + 1 .. 1 + nCalls /\ turn[i + 1].call = results[i].call
    BY <1>1, <1>3, <1>4
  <2>3. \A k \in 1 + 1 .. 1 + nCalls : turn[k].call \in 1 .. nCalls
    <3>1. \A k \in 1 .. nCalls : results[k].call \in 1 .. nCalls
      BY <1>1
    <3> QED BY <1>5, <2>1, <3>1
  <2>4. \A c \in 1 .. nCalls : \E k \in 1 + 1 .. 1 + nCalls : turn[k].call = c
    <3>1. \A c \in 1 .. nCalls : \E i \in 1 .. nCalls : results[i].call = c
      BY <1>1
    <3> QED BY <2>2, <3>1
  <2> QED BY ONLY <2>3, <2>4
<1>7. Paired(turn)
  <2>1. ASSUME NEW i \in DOMAIN turn, turn[i].role = "assistant"
        PROVE  /\ i + turn[i].calls <= Len(turn)
               /\ \A k \in i + 1 .. i + turn[i].calls :
                    turn[k].role = "tool" /\ turn[k].turn = turn[i].turn
               /\ {turn[k].call : k \in i + 1 .. i + turn[i].calls} = 1 .. turn[i].calls
    <3>1. i = 1 \/ i \in 2 .. nCalls + 1
      BY <1>1, <1>4
    <3>2. i = 1 /\ turn[i] = a
      BY <1>4, <1>5, <2>1, <3>1
    <3>3. \A k \in 1 + 1 .. 1 + nCalls : turn[k].role = "tool" /\ turn[k].turn = turnId
      BY <1>1, <1>5, SMTT(30)
    <3>4. turn[i].calls = nCalls /\ turn[i].turn = turnId
      BY <1>3, <3>2
    <3>5. {turn[k].call : k \in i + 1 .. i + turn[i].calls} = 1 .. turn[i].calls
      BY <1>6, <3>2, <3>4
    <3>6. i + turn[i].calls <= Len(turn)
      BY <1>1, <1>4, <3>2, <3>4
    <3> QED BY <3>2, <3>3, <3>4, <3>5, <3>6
  <2>2. ASSUME NEW k \in DOMAIN turn, turn[k].role = "tool"
        PROVE  \E i \in 1 .. k - 1 : turn[i].role = "assistant" /\ k <= i + turn[i].calls
    <3>1. k # 1
      BY <1>3, <1>4, <2>2
    <3>2. 1 \in 1 .. k - 1 /\ k <= 1 + nCalls
      BY <1>1, <1>4, <3>1
    <3> QED BY <1>3, <1>4, <3>2
  <2> QED BY <2>1, <2>2 DEF Paired
<1>8. messages \o tools = s \o turn
  <2>1. messages = Append(s, a)
    BY DEF OpenTurn, a
  <2>2. Append(s, a) \o tools = s \o (<<a>> \o tools)
    <3>1. s \in Seq(Message)
      OBVIOUS
    <3> QED BY ONLY <1>2, <3>1, AppendThenConcat
  <2> QED BY <2>1, <2>2 DEF turn
<1>9. Paired(s \o turn)
  BY <1>4, <1>7, PairedConcat DEF OpenTurn
<1> QED BY <1>8, <1>9 DEF tools

LEMMA PairedInit == Init => PairedInv
BY PairedOthers DEF Init, PairedInv, Gathering

\* A call that had no result gets one.
LEMMA AnswerKeepsDistinct ==
  ASSUME TypeInv, DistinctCalls, NEW c \in Unanswered, NEW how,
         results' = Append(results, Result(c, how)), nCalls' = nCalls
  PROVE  DistinctCalls'
<1>1. /\ DOMAIN results' = DOMAIN results \cup {Len(results) + 1}
      /\ \A k \in DOMAIN results : results'[k] = results[k]
      /\ results'[Len(results) + 1] = Result(c, how)
      /\ Len(results) + 1 \notin DOMAIN results
  BY DEF TypeInv, TypeOK
<1>2. Result(c, how).call = c /\ c \in Calls /\ \A k \in DOMAIN results : results[k].call # c
  BY DEF Result, Unanswered
<1>3. Calls' = Calls
  BY DEF Calls
<1>4. \A k \in DOMAIN results' : results'[k].call \in Calls
  BY <1>1, <1>2 DEF DistinctCalls
<1>5. ASSUME NEW k \in DOMAIN results', NEW l \in DOMAIN results', results'[k].call = results'[l].call
      PROVE  k = l
  BY <1>1, <1>2, <1>5 DEF DistinctCalls
<1> QED BY <1>3, <1>4, <1>5 DEF DistinctCalls

LEMMA PairedTool ==
  ASSUME TypeInv, PairedInv, NEW c \in 1 .. MaxCalls, Tool(c)
  PROVE  PairedInv'
<1> USE DEF TypeInv, TypeOK
<1>1. UNCHANGED <<pc, nCalls, turnId, messages, context, results>>
  BY DEF Tool, StartTool, RefuseTool, Work, FinishTool, runVars
<1>2. /\ Gathering' = Gathering /\ Unanswered' = Unanswered /\ DistinctCalls' = DistinctCalls
      /\ \A s : OpenTurn(s)' <=> OpenTurn(s)
  BY <1>1 DEF Gathering, Unanswered, Calls, DistinctCalls, OpenTurn
<1>3. ASSUME pc = "act" PROVE ArrivalInv'
  <2>1. ArrivalInv
    BY <1>3 DEF PairedInv
  <2>2. c \in Unanswered /\ (task[c] \in Live \/ task[c] = "none")
    BY <2>1 DEF Tool, StartTool, RefuseTool, Work, FinishTool, StartsInLoop, ArrivalInv, Live
  <2>3. \A d \in 1 .. MaxCalls : d # c => task'[d] = task[d]
    BY DEF Tool, StartTool, RefuseTool, Work, FinishTool
  <2>4. \A k \in DOMAIN arrival : arrival[k] \in 1 .. MaxCalls /\ arrival[k] # c
    <3>1. \A k \in DOMAIN arrival : arrival[k] \in 1 .. MaxCalls
      <4>1. ElementsOf(arrival) \subseteq 1 .. MaxCalls
        BY ElementsAreIn
      <4> QED BY <4>1 DEF ElementsOf
    <3> QED BY <2>1, <2>2, <3>1 DEF ArrivalInv, Live
  <2>5. \A d \in 1 .. MaxCalls : task'[d] \in Live => d \in Unanswered
    BY <2>1, <2>2, <2>3 DEF ArrivalInv
  <2>6. CASE arrival' = arrival
    BY <1>2, <2>1, <2>3, <2>4, <2>5, <2>6 DEF ArrivalInv, Live
  <2>7. CASE arrival' = Append(arrival, c) /\ task'[c] \in {"done", "raised"}
    <3>1. /\ DOMAIN arrival' = DOMAIN arrival \cup {Len(arrival) + 1}
          /\ \A k \in DOMAIN arrival : arrival'[k] = arrival[k]
          /\ arrival'[Len(arrival) + 1] = c
      BY <2>7
    <3>2. \A k \in DOMAIN arrival' : arrival'[k] \in Unanswered /\ task'[arrival'[k]] \in {"done", "raised"}
      BY <2>1, <2>2, <2>3, <2>4, <2>7, <3>1, SMTT(30) DEF ArrivalInv
    <3>3. \A k, l \in DOMAIN arrival' : arrival'[k] = arrival'[l] => k = l
      BY <2>1, <2>4, <3>1 DEF ArrivalInv
    <3> QED BY <1>2, <2>5, <3>2, <3>3 DEF ArrivalInv, Live
  <2>8. (arrival' = arrival) \/ (arrival' = Append(arrival, c) /\ task'[c] \in {"done", "raised"})
    BY <1>3 DEF Tool, StartTool, RefuseTool, Work, FinishTool
  <2> QED BY <2>6, <2>7, <2>8
<1> QED BY <1>1, <1>2, <1>3 DEF PairedInv

LEMMA PairedGather ==
  ASSUME TypeInv, PairedInv, TakeResult \/ TakeResultSteered \/ AppendResults
                             \/ \E c \in Calls : SkipNext(c)
  PROVE  PairedInv'
<1> USE DEF TypeInv, TypeOK
<1>1. ASSUME NEW c \in Unanswered, NEW how, results' = Append(results, Result(c, how)),
             Gathering, Gathering', UNCHANGED <<nCalls, turnId, messages, context>>,
             pc' = "act" => ArrivalInv'
      PROVE  PairedInv'
  <2>1. DistinctCalls'
    BY <1>1, AnswerKeepsDistinct DEF PairedInv
  <2>2. \A s : OpenTurn(s)' <=> OpenTurn(s)
    BY <1>1 DEF OpenTurn
  <2> QED BY <1>1, <2>1, <2>2 DEF PairedInv, Gathering
<1>2. ASSUME pc = "act", arrival # <<>>
      PROVE  Head(arrival) \in Unanswered /\ Head(arrival) \in 1 .. MaxCalls
  <2>1. Head(arrival) \in ElementsOf(arrival) /\ Head(arrival) \in 1 .. MaxCalls
    BY <1>2, HeadIsElement
  <2> QED BY <1>2, <2>1 DEF PairedInv, ArrivalInv, ElementsOf
<1>3. CASE TakeResult
  <2> DEFINE h == Head(arrival)
  <2>1. /\ pc = "act" /\ pc' = "act" /\ arrival # <<>> /\ task[h] = "done" /\ ArrivalInv
        /\ results' = Append(results, Result(h, "executed")) /\ arrival' = Tail(arrival)
        /\ UNCHANGED <<nCalls, turnId, messages, context, task>>
    BY <1>3 DEF TakeResult, runVars, PairedInv
  <2>2. h \in Unanswered /\ h \in 1 .. MaxCalls
    BY <1>2, <2>1
  <2>3. /\ DOMAIN arrival' = 1 .. Len(arrival) - 1 /\ DOMAIN arrival = 1 .. Len(arrival)
        /\ \A k \in 1 .. Len(arrival) - 1 : arrival'[k] = arrival[k + 1]
        /\ h = arrival[1] /\ Len(arrival) \in Nat \ {0}
    <3>1. Len(arrival) \in Nat \ {0} /\ DOMAIN arrival = 1 .. Len(arrival)
      BY <2>1, LenProperties, EmptySeq
    <3>2. /\ Tail(arrival) \in Seq(1 .. MaxCalls) /\ Len(Tail(arrival)) = Len(arrival) - 1
          /\ \A k \in 1 .. Len(Tail(arrival)) : Tail(arrival)[k] = arrival[k + 1]
          /\ h = arrival[1]
      BY <2>1, HeadTailProperties
    <3>3. DOMAIN Tail(arrival) = 1 .. Len(Tail(arrival))
      BY <3>2, LenProperties
    <3> QED BY <2>1, <3>1, <3>2, <3>3
  <2> HIDE DEF h
  <2>4. Unanswered' = Unanswered \ {h}
    BY <2>1, <2>2, OneAnswerLess
  <2>5. ASSUME NEW k \in DOMAIN arrival'
        PROVE  /\ k \in Nat /\ k + 1 \in DOMAIN arrival /\ arrival'[k] = arrival[k + 1]
               /\ arrival[k + 1] # h
    <3>1. k \in Nat /\ k + 1 \in DOMAIN arrival /\ 1 \in DOMAIN arrival /\ k + 1 # 1
          /\ arrival'[k] = arrival[k + 1]
      BY <2>3, <2>5
    <3> QED BY <2>1, <2>3, <3>1 DEF ArrivalInv
  <2>6. \A c \in 1 .. MaxCalls : task[c] \in Live => c \in Unanswered'
    BY <2>1, <2>4 DEF ArrivalInv, Live
  <2>7. \A k \in DOMAIN arrival' : arrival'[k] \in Unanswered' /\ task[arrival'[k]] \in {"done", "raised"}
    BY <2>1, <2>4, <2>5 DEF ArrivalInv
  <2>8. ASSUME NEW k \in DOMAIN arrival', NEW l \in DOMAIN arrival', arrival'[k] = arrival'[l]
        PROVE  k = l
    <3>1. k + 1 = l + 1
      BY <2>1, <2>5, <2>8 DEF ArrivalInv
    <3> QED BY <2>5, <3>1
  <2>9. ArrivalInv'
    BY <2>1, <2>6, <2>7, <2>8 DEF ArrivalInv, Live
  <2> QED BY <1>1, <2>1, <2>2, <2>9 DEF Gathering
<1>4. CASE TakeResultSteered
  <2>1. /\ pc = "act" /\ pc' = "skip" /\ arrival # <<>>
        /\ results' = Append(results, Result(Head(arrival), "executed"))
        /\ UNCHANGED <<nCalls, turnId, messages, context>>
    BY <1>4 DEF TakeResultSteered
  <2>2. Head(arrival) \in Unanswered
    BY <1>2, <2>1
  <2> QED BY <1>1, <2>1, <2>2 DEF Gathering
<1>5. ASSUME NEW c \in Calls, SkipNext(c) PROVE PairedInv'
  <2>1. /\ pc = "skip" /\ pc' = "skip" /\ c \in Unanswered
        /\ results' = Append(results, Result(c, "skipped"))
        /\ UNCHANGED <<nCalls, turnId, messages, context>>
    BY <1>5 DEF SkipNext, runVars
  <2> QED BY <1>1, <2>1 DEF Gathering
<1>6. CASE AppendResults
  <2>1. Gathering /\ Gathered /\ DistinctCalls
    BY <1>6 DEF AppendResults, Gathering, PairedInv
  <2>2. PICK s \in Seq(Message) : OpenTurn(s)
    BY <2>1 DEF PairedInv
  <2>3. Paired(messages \o [i \in DOMAIN results |-> ToolMessage(turnId, results[i])])
    BY <2>1, <2>2, PairedTurn
  <2> QED BY <1>6, <2>3 DEF AppendResults, PairedInv, Gathering
<1> QED BY <1>3, <1>4, <1>5, <1>6

LEMMA PairedStep == TypeInv /\ PairedInv /\ [Next]_vars => PairedInv'
<1> SUFFICES ASSUME TypeInv, PairedInv, [Next]_vars PROVE PairedInv'
  OBVIOUS
<1> USE DEF TypeInv, TypeOK
\* A step to a place where the transcript is whole.
<1>1. ASSUME pc' \in {"head", "decide", "boundary", "done", "spent"}, context' = context, Paired(messages')
      PROVE  PairedInv'
  BY <1>1 DEF PairedInv, Gathering
<1>2. ASSUME NEW s \in Seq(Message), NEW m \in Message, Paired(s), Paired(<<m>>)
      PROVE  Paired(Append(s, m))
  <2>1. Append(s, m) = s \o <<m>> /\ <<m>> \in Seq(Message)
    BY AppendIsConcat
  <2> QED BY <1>2, <2>1, PairedConcat
<1>3. ASSUME NEW how, EndRun(how), how \in {"ok", "max_turns"} => pc \in {"done", "spent"}
      PROVE  PairedInv'
  BY <1>3 DEF EndRun, PairedInv, Gathering
<1>4. CASE Client
  <2>1. ASSUME NEW m \in Inputs, Prompt(m) PROVE PairedInv'
    <3>1. User(m) \in Message /\ Paired(<<User(m)>>) /\ Paired(context)
      BY MessageTypes, PairedOthers DEF PairedInv
    <3>2. Paired(Append(context, User(m)))
      BY <1>2, <3>1
    <3> QED BY <1>1, <2>1, <3>2 DEF Prompt, FirstMessages
  <2>2. ASSUME UNCHANGED <<runVars, toolVars>> PROVE PairedInv'
    BY <2>2 DEF runVars, toolVars, PairedInv, ArrivalInv, DistinctCalls, Unanswered, Calls,
       OpenTurn, Gathering
  <2> QED BY <1>4, <2>1, <2>2 DEF Client, Steer, FollowUp, Abort
<1>5. CASE Ends \/ DeliverCancel \/ TakeRefusal \/ StopAfterTurn \/ EndAtRest
  <2>1. ASSUME NEW as \in {"done", "spent"}, pc \in {"head", "boundary"}, ChooseToReturn(as)
        PROVE  PairedInv'
    BY <1>1, <2>1 DEF ChooseToReturn, PairedInv
  <2>2. CASE RaiseIfAborted \/ CompleteTurnFails \/ DeliverCancel \/ TakeRefusal
    BY <1>3, <2>2 DEF RaiseIfAborted, CompleteTurnFails, DeliverCancel, TakeRefusal
  <2>3. CASE Return
    BY <1>3, <2>3 DEF Return
  <2> QED BY <1>5, <2>1, <2>2, <2>3 DEF Ends, MaxTurnsReached, StopAfterTurn, EndAtRest, Unsteered
<1>6. CASE BeginTurn
  <2>1. Paired(messages) /\ Paired(UserMessages(pending)) /\ UserMessages(pending) \in Seq(Message)
    BY <1>6, PairedOthers, TranscriptTypes DEF BeginTurn, PairedInv
  <2>2. PICK all : all = messages \o UserMessages(pending)
    OBVIOUS
  <2>3. all \in Seq(Message) /\ Paired(all)
    BY <2>1, <2>2, PairedConcat, ConcatProperties
  <2>4. messages' = all
        \/ \E k \in 2 .. Len(all) : all[k].role = "user" /\ messages' = Cut(all, k)
    BY <1>6, <2>2, <2>3, TransformedIs DEF BeginTurn
  <2>5. Paired(messages')
    BY <2>3, <2>4, PairedCut
  <2> QED BY <1>1, <1>6, <2>5 DEF BeginTurn
<1>7. CASE AnswerWithoutTools
  <2>1. /\ Paired(messages) /\ Paired(<<Assistant(turnId, 0)>>)
        /\ Assistant(turnId, 0) \in Message
    BY <1>7, PairedOthers, MessageTypes, LoopAssumption DEF AnswerWithoutTools, PairedInv
  <2>2. Paired(Append(messages, Assistant(turnId, 0)))
    BY <1>2, <2>1
  <2> QED BY <1>1, <1>7, <2>2 DEF AnswerWithoutTools
<1>8. ASSUME NEW n \in 1 .. MaxCalls, AnswerWithTools(n) \/ AnswerTruncated(n) PROVE PairedInv'
  <2>1. /\ pc = "decide" /\ pc' = "act" /\ nCalls' = n /\ arrival' = <<>>
        /\ UNCHANGED <<turnId, context>>
        /\ messages' = Append(messages, Assistant(turnId, n))
    BY <1>8 DEF AnswerWithTools, AnswerTruncated
  <2>2. (\E s \in Seq(Message) : OpenTurn(s))'
    <3>1. PICK s \in Seq(Message) : s = messages /\ Paired(s)
      BY <2>1 DEF PairedInv
    <3>2. OpenTurn(s)'
      BY <2>1, <3>1 DEF OpenTurn
    <3> QED BY <3>2
  <2>3. DOMAIN arrival' = {}
    BY <2>1
  <2>4. CASE AnswerWithTools(n)
    <3>1. results' = <<>> /\ Unanswered' = 1 .. n
      BY <2>1, <2>4 DEF AnswerWithTools, Unanswered, Calls
    <3>2. \A c \in 1 .. MaxCalls : task'[c] \in Live => c \in 1 .. n
      BY <2>4, LoopAssumption DEF AnswerWithTools, Live
    <3> QED BY <2>1, <2>2, <2>3, <3>1, <3>2 DEF PairedInv, ArrivalInv, DistinctCalls, Gathering, Live
  <2>5. CASE AnswerTruncated(n)
    <3>1. results' = [i \in 1 .. n |-> Result(i, "truncated")]
      BY <2>5 DEF AnswerTruncated
    <3>2. DistinctCalls'
      BY <2>1, <3>1 DEF DistinctCalls, Result, Calls
    <3>3. \A c \in 1 .. MaxCalls : task'[c] \notin Live
      BY <2>5 DEF AnswerTruncated, Live
    <3> QED BY <2>1, <2>2, <2>3, <3>2, <3>3 DEF PairedInv, ArrivalInv, Gathering, Live
  <2> QED BY <1>8, <2>4, <2>5
<1>9. CASE TakeResult \/ TakeResultSteered \/ AppendResults \/ \E c \in Calls : SkipNext(c)
  BY <1>9, PairedGather
<1>10. CASE FollowUpAfterStop \/ SteerNextTurn \/ NextTurn \/ FollowUpAtRest
  <2>1. pc = "boundary" /\ pc' = "head" /\ UNCHANGED <<messages, context>>
    BY <1>10 DEF FollowUpAfterStop, SteerNextTurn, NextTurn, FollowUpAtRest, Unsteered, TurnWith
  <2> QED BY <1>1, <2>1 DEF PairedInv
<1>11. ASSUME NEW c \in 1 .. MaxCalls, Tool(c) PROVE PairedInv'
  BY <1>11, PairedTool
<1>12. ASSUME NEW d \in adrift, EndAdrift(d) PROVE PairedInv'
  BY <1>12 DEF EndAdrift, runVars, PairedInv, ArrivalInv, DistinctCalls, Unanswered, Calls,
     OpenTurn, Gathering
<1>13. CASE UNCHANGED vars
  BY <1>13 DEF vars, runVars, toolVars, PairedInv, ArrivalInv, DistinctCalls, Unanswered, Calls,
     OpenTurn, Gathering
<1> QED
  BY <1>4, <1>5, <1>6, <1>7, <1>8, <1>9, <1>10, <1>11, <1>12, <1>13
  DEF Next, Loop, Answers, Gather, Boundary

\* Every tool call of the conversation is answered exactly once, in its own
\* turn, whenever the model is called and in what a run leaves behind
\* (loop.py:148-185).
THEOREM CallsAnsweredOnce == Spec => []EveryCallAnsweredOnce
<1>1. PairedInv => EveryCallAnsweredOnce
  BY DEF PairedInv, EveryCallAnsweredOnce
<1> QED BY TypeInit, TypeStep, PairedInit, PairedStep, <1>1, PTL DEF Spec

----
(***************************************************************************)
(* OnlyCutOffToolsGoOn.  Tools are cut off while their turn gathers its    *)
(* results, when none of them has one; what is said of the turn is said    *)
(* later, and never that one of them was executed.  A sequential loop has  *)
(* no tool at work when it takes a result, so only an abort cuts one off.  *)
(***************************************************************************)
AdriftInv ==
  /\ cfg.tools = "sequential" /\ adrift # {} => aborted
  /\ pc = "act" => \A c \in 1 .. MaxCalls : <<turnId, c>> \notin adrift
  /\ \A x \in Said : x.how = "executed" => <<x.turn, x.call>> \notin adrift
  /\ \A r \in ElementsOf(results) : r.how = "executed" => <<turnId, r.call>> \notin adrift

LEMMA AdriftInit == Init => AdriftInv
BY DEF Init, AdriftInv

\* A call with a result has no coroutine at work, nor has the one whose result
\* is taken.
LEMMA ResultsAreCutOffFrom ==
  ASSUME TypeInv, PairedInv, pc = "act"
  PROVE  /\ \A r \in ElementsOf(results) : <<turnId, r.call>> \notin CutOff
         /\ \A c \in 1 .. MaxCalls : task[c] = "done" => <<turnId, c>> \notin CutOff
<1>1. \A r \in ElementsOf(results) : r.call \notin Unanswered
  BY DEF ElementsOf, Unanswered
<1>2. \A c \in 1 .. MaxCalls : task[c] = "running" => c \in Unanswered
  BY DEF PairedInv, ArrivalInv, Live
<1> QED BY <1>1, <1>2, CutOffIs

\* A sequential loop cuts nobody off by a result, nor outside of a turn's tools.
LEMMA NobodyToCutOff ==
  ASSUME TypeInv, AtWorkInv, NotRunInv, cfg.tools = "sequential"
  PROVE  /\ pc # "act" => CutOff = {}
         /\ TakeResultSteered => CutOff = {}
<1>1. pc # "act" => CutOff = {}
  BY CutOffIs DEF AtWorkInv
<1>2. ASSUME TakeResultSteered PROVE CutOff = {}
  <2>1. pc = "act" /\ Head(arrival) \in ElementsOf(arrival) /\ task[Head(arrival)] = "done"
    BY <1>2, HeadIsElement DEF TakeResultSteered, TypeInv, TypeOK
  <2>2. First(Head(arrival))
    BY <2>1 DEF NotRunInv, SkippedInv
  <2>3. NobodyAtWork
    BY <2>1, <2>2, FirstIsOne DEF AtWorkInv, NobodyAtWork, Live
  <2> QED BY <2>3, CutOffIs
<1> QED BY <1>1, <1>2

LEMMA AdriftGather ==
  ASSUME TypeInv, AtWorkInv, NotRunInv, PairedInv, AdriftInv,
         TakeResult \/ TakeResultSteered \/ AppendResults \/ \E c \in Calls : SkipNext(c)
  PROVE  AdriftInv'
<1> USE DEF TypeInv, TypeOK, AdriftInv
<1>1. ASSUME NEW c \in 1 .. MaxCalls, NEW how \in {"executed", "skipped"},
             results' = Append(results, Result(c, how))
      PROVE  \A r \in ElementsOf(results') : \/ r \in ElementsOf(results)
                                             \/ r.how = how /\ r.call = c
  <2>1. Result(c, how) \in ResultSet /\ Result(c, how).how = how /\ Result(c, how).call = c
    BY DEF Result, ResultSet
  <2>2. ElementsOf(Append(results, Result(c, how))) = ElementsOf(results) \cup {Result(c, how)}
    BY <2>1, ElementsOfAppend
  <2> QED BY <1>1, <2>1, <2>2
<1>2. CASE TakeResult
  <2>1. Head(arrival) \in 1 .. MaxCalls
    BY <1>2, HeadIsElement DEF TakeResult
  <2>2. /\ results' = Append(results, Result(Head(arrival), "executed")) /\ pc = "act"
        /\ UNCHANGED <<cfg, pc, turnId, adrift, aborted, Said>>
    BY <1>2 DEF TakeResult, runVars, clientVars, Said
  <2>3. \A r \in ElementsOf(results') : r \in ElementsOf(results) \/ r.call = Head(arrival)
    BY <1>1, <2>1, <2>2
  <2> QED BY <2>1, <2>2, <2>3
<1>3. CASE TakeResultSteered
  <2>1. Head(arrival) \in 1 .. MaxCalls /\ task[Head(arrival)] = "done"
    BY <1>3, HeadIsElement DEF TakeResultSteered
  <2>2. /\ results' = Append(results, Result(Head(arrival), "executed"))
        /\ pc = "act" /\ pc' = "skip" /\ adrift' = adrift \cup CutOff
        /\ UNCHANGED <<cfg, turnId, aborted, Said>>
    BY <1>3 DEF TakeResultSteered, Said
  <2>3. \A r \in ElementsOf(results') : r \in ElementsOf(results) \/ r.call = Head(arrival)
    BY <1>1, <2>1, <2>2
  <2>4. \A r \in ElementsOf(results') : r.how = "executed" => <<turnId, r.call>> \notin adrift'
    BY <2>1, <2>2, <2>3, ResultsAreCutOffFrom
  <2>5. \A x \in Said : x.turn # turnId
    BY <2>2 DEF NotRunInv, InTimeInv, Gathering
  <2>6. \A x \in Said : x.how = "executed" => <<x.turn, x.call>> \notin adrift'
    BY <2>2, <2>5, CutOffIs
  <2>7. cfg.tools = "sequential" => adrift' = adrift
    BY <1>3, <2>2, NobodyToCutOff
  <2> QED BY <2>2, <2>4, <2>6, <2>7
<1>4. ASSUME NEW c \in Calls, SkipNext(c) PROVE AdriftInv'
  <2>1. c \in 1 .. MaxCalls
    BY LoopAssumption DEF Calls
  <2>2. /\ results' = Append(results, Result(c, "skipped"))
        /\ UNCHANGED <<cfg, pc, turnId, adrift, aborted, Said>>
    BY <1>4 DEF SkipNext, runVars, clientVars, Said
  <2>3. \A r \in ElementsOf(results') : r \in ElementsOf(results) \/ r.how = "skipped"
    BY <1>1, <2>1, <2>2
  <2> QED BY <2>2, <2>3
<1>5. CASE AppendResults
  <2>1. /\ pc' = "boundary" /\ ElementsOf(results)' = {} /\ UNCHANGED <<cfg, turnId, adrift, aborted>>
    BY <1>5, InputsOfEmpty DEF AppendResults, clientVars
  <2>2. \A x \in Said' \ Said : \E r \in ElementsOf(results) :
          x.turn = turnId /\ x.call = r.call /\ x.how = r.how
    BY <1>5, SaidOfSteps
  <2>3. \A x \in Said' : x.how = "executed" => <<x.turn, x.call>> \notin adrift
    BY <2>2
  <2> QED BY <2>1, <2>3
<1> QED BY <1>2, <1>3, <1>4, <1>5

LEMMA AdriftStep ==
  TypeInv /\ AtWorkInv /\ NotRunInv /\ PairedInv /\ AdriftInv /\ [Next]_vars => AdriftInv'
<1> SUFFICES ASSUME TypeInv, AtWorkInv, NotRunInv, PairedInv, AdriftInv, [Next]_vars
             PROVE  AdriftInv'
  OBVIOUS
<1> USE DEF AdriftInv
\* A step that cuts nobody off and says nothing new of tools.
<1>1. ASSUME adrift' \subseteq adrift, cfg' = cfg, aborted => aborted', Said' \subseteq Said,
             results' = <<>> \/ (results' = results /\ turnId' = turnId), pc' # "act"
      PROVE  AdriftInv'
  BY <1>1, InputsOfEmpty
<1>2. ASSUME UNCHANGED <<cfg, runVars, results>>, adrift' \subseteq adrift, aborted => aborted'
      PROVE  AdriftInv'
  BY <1>2 DEF runVars, Said
<1>3. CASE Client
  <2>1. ASSUME NEW m \in Inputs, Prompt(m) PROVE AdriftInv'
    <3>1. Said' \subseteq Said
      BY <2>1, SaidOfSteps
    <3> QED BY <1>1, <2>1, <3>1 DEF Prompt, toolVars
  <2>2. CASE (\E m \in Inputs : Steer(m) \/ FollowUp(m)) \/ Abort
    BY <1>2, <2>2 DEF Steer, FollowUp, Abort, toolVars
  <2> QED BY <1>3, <2>1, <2>2 DEF Client
<1>4. CASE Ends \/ TakeRefusal \/ StopAfterTurn \/ EndAtRest
  <2>1. ASSUME NEW as \in {"done", "spent"}, ChooseToReturn(as) PROVE AdriftInv'
    BY <1>1, <2>1 DEF ChooseToReturn, toolVars, clientVars, Said
  <2>2. ASSUME NEW how, EndRun(how), UNCHANGED <<cfg, adrift, aborted>> PROVE AdriftInv'
    <3>1. Said' \subseteq Said
      BY <2>2, SaidOfSteps
    <3> QED BY <1>1, <2>2, <3>1 DEF EndRun
  <2>3. MaxTurnsReached \/ StopAfterTurn \/ EndAtRest => \E as \in {"done", "spent"} : ChooseToReturn(as)
    BY DEF MaxTurnsReached, StopAfterTurn, EndAtRest
  <2>4. RaiseIfAborted \/ CompleteTurnFails \/ TakeRefusal \/ Return
          => UNCHANGED <<cfg, adrift, aborted>> /\ \E how : EndRun(how)
    BY DEF RaiseIfAborted, CompleteTurnFails, TakeRefusal, Return, clientVars
  <2> QED BY <1>4, <2>1, <2>2, <2>3, <2>4 DEF Ends
<1>5. CASE DeliverCancel
  <2>1. /\ EndRun("aborted") /\ UNCHANGED <<cfg, aborted>> /\ aborted
        /\ adrift' = adrift \/ (cfg.tools = "sequential" /\ adrift' = adrift \cup CutOff)
    BY <1>5 DEF DeliverCancel, CancelInLoop, clientVars
  <2>2. Said' \subseteq Said /\ results' = <<>> /\ pc' = "idle" /\ ElementsOf(results)' = {}
    BY <2>1, SaidOfSteps, InputsOfEmpty DEF EndRun
  <2>3. CASE adrift' = adrift
    BY <1>1, <2>1, <2>2, <2>3
  <2>4. CASE cfg.tools = "sequential" /\ pc # "act"
    BY <1>1, <2>1, <2>2, <2>4, NobodyToCutOff
  <2>5. CASE pc = "act" /\ adrift' = adrift \cup CutOff
    <3>1. \A x \in Said : x.turn # turnId
      BY <2>5 DEF NotRunInv, InTimeInv, Gathering
    <3>2. \A x \in Said : x.how = "executed" => <<x.turn, x.call>> \notin adrift'
      BY <2>5, <3>1, CutOffIs
    <3> QED BY <2>1, <2>2, <3>2
  <2> QED BY <2>1, <2>3, <2>4, <2>5
<1>6. CASE BeginTurn
  <2>1. Said' \subseteq Said /\ results = <<>>
    BY <1>6, SaidOfSteps DEF BeginTurn, NotRunInv, InTimeInv, Gathering
  <2> QED BY <1>1, <1>6, <2>1 DEF BeginTurn, toolVars, clientVars
<1>7. CASE Answers
  <2>1. Said' \subseteq Said /\ pc = "decide" /\ UNCHANGED <<cfg, turnId, adrift, aborted>>
    BY <1>7, SaidOfSteps
    DEF Answers, AnswerWithoutTools, AnswerWithTools, AnswerTruncated, toolVars, clientVars
  <2>2. \A c \in 1 .. MaxCalls : <<turnId, c>> \notin adrift
    BY <2>1 DEF NotRunInv, InTimeInv, Touched, TypeInv, TypeOK
  <2>3. \A r \in ElementsOf(results') : r.how # "executed"
    <3>1. CASE results' = <<>>
      BY <3>1, InputsOfEmpty
    <3>2. ASSUME NEW n \in 1 .. MaxCalls, AnswerTruncated(n)
          PROVE  \A r \in ElementsOf(results') : r.how # "executed"
      BY <3>2 DEF AnswerTruncated, ElementsOf, Result
    <3> QED BY <1>7, <2>1, <3>1, <3>2
        DEF Answers, AnswerWithoutTools, AnswerWithTools, toolVars, NotRunInv, InTimeInv, Gathering
  <2> QED BY <2>1, <2>2, <2>3
<1>8. CASE TakeResult \/ TakeResultSteered \/ AppendResults \/ \E c \in Calls : SkipNext(c)
  BY <1>8, AdriftGather
<1>9. CASE FollowUpAfterStop \/ SteerNextTurn \/ NextTurn \/ FollowUpAtRest
  <2>1. /\ \E msgs : TurnWith(msgs)
        /\ aborted' = aborted
    BY <1>9 DEF FollowUpAfterStop, SteerNextTurn, NextTurn, FollowUpAtRest, clientVars
  <2> QED BY <1>1, <2>1 DEF TurnWith, toolVars, Said
<1>10. ASSUME NEW c \in 1 .. MaxCalls, Tool(c) PROVE AdriftInv'
  BY <1>2, <1>10 DEF Tool, StartTool, RefuseTool, Work, FinishTool, clientVars
<1>11. ASSUME NEW d \in adrift, EndAdrift(d) PROVE AdriftInv'
  BY <1>2, <1>11 DEF EndAdrift, clientVars
<1>12. CASE UNCHANGED vars
  BY <1>2, <1>12 DEF vars, toolVars, clientVars
<1> QED
  BY <1>3, <1>4, <1>5, <1>6, <1>7, <1>8, <1>9, <1>10, <1>11, <1>12
  DEF Next, Loop, Gather, Boundary

\* No coroutine of a tool outlives the part of the turn that waits for it,
\* parallel tasks of an aborted run excepted.  What steering or an abort cut
\* off may go on, in sequential mode only after an abort, and no report ever
\* says that it was executed or that it was never tried (loop.py:278-317).
THEOREM OnlyTheCutOffGoOn == Spec => []OnlyCutOffToolsGoOn
<1>1. ASSUME NEW how, NEW p \in Reported(how)
      PROVE  \/ \E x \in Said : x.how = how /\ p = <<x.turn, x.call>>
             \/ \E r \in ElementsOf(results) : r.how = how /\ p = <<turnId, r.call>>
  BY <1>1 DEF Reported, Said, ToolMessagesIn, ElementsOf
<1>2. ASSUME AdriftInv, NotRunInv PROVE adrift \cap (Reported("executed") \cup Reported("truncated")) = {}
  <2>1. \A p \in Reported("executed") : p \notin adrift
    BY <1>1, <1>2 DEF AdriftInv
  <2>2. \A p \in Reported("truncated") : p \notin adrift
    BY <1>1, <1>2 DEF NotRunInv, TruncatedInv, Touched
  <2> QED BY <2>1, <2>2
<1>3. TypeInv /\ AtWorkInv /\ NotRunInv /\ AdriftInv => OnlyCutOffToolsGoOn
  BY <1>2 DEF OnlyCutOffToolsGoOn, AtWorkInv, NobodyAtWork, AdriftInv
<1> QED
  BY TypeInit, TypeStep, AtWorkInit, AtWorkStep, NotRunInit, NotRunStep, PairedInit, PairedStep,
     AdriftInit, AdriftStep, <1>3, PTL DEF Spec

----
(***************************************************************************)
(* ContextGrowsOrIsCut.  The messages of a run begin with the conversation *)
(* it was started with, or with what a summary has left of it, whatever    *)
(* the run has appended and however often its start was summarised.        *)
(***************************************************************************)
Continues(s, t) ==
  \/ BeginsWith(s, t)
  \/ cfg.persist /\ \E k \in 2 .. Len(t) + 1 : BeginsWith(s, Cut(t, k))

GrownInv == pc # "idle" => Continues(messages, context)

LEMMA BeginsWithSelf == \A s \in Seq(Message) : BeginsWith(s, s)
BY LenProperties DEF BeginsWith

LEMMA BeginsWithMore ==
  ASSUME NEW s \in Seq(Message), NEW t \in Seq(Message), NEW u \in Seq(Message), BeginsWith(s, t)
  PROVE  BeginsWith(s \o u, t)
<1>1. /\ Len(s \o u) = Len(s) + Len(u)
      /\ \A i \in 1 .. Len(s) + Len(u) : (s \o u)[i] = IF i <= Len(s) THEN s[i] ELSE u[i - Len(s)]
      /\ Len(s) \in Nat /\ Len(t) \in Nat /\ Len(u) \in Nat
  BY ConcatProperties, LenProperties
<1>2. ASSUME NEW i \in 1 .. Len(t) PROVE (s \o u)[i] = t[i]
  <2>1. i \in 1 .. Len(s) + Len(u) /\ i <= Len(s) /\ s[i] = t[i]
    BY <1>1 DEF BeginsWith
  <2> QED BY <1>1, <2>1
<1>3. Len(t) <= Len(s \o u)
  BY <1>1 DEF BeginsWith
<1> QED BY <1>2, <1>3 DEF BeginsWith

LEMMA ContinuesWithMore ==
  ASSUME NEW s \in Seq(Message), NEW t \in Seq(Message), NEW u \in Seq(Message), Continues(s, t)
  PROVE  Continues(s \o u, t)
<1>1. CASE BeginsWith(s, t)
  BY <1>1, BeginsWithMore DEF Continues
<1>2. ASSUME cfg.persist, NEW k \in 2 .. Len(t) + 1, BeginsWith(s, Cut(t, k))
      PROVE  Continues(s \o u, t)
  <2>1. Cut(t, k) \in Seq(Message)
    BY CutProperties
  <2>2. BeginsWith(s \o u, Cut(t, k))
    BY <1>2, <2>1, BeginsWithMore
  <2> QED BY <1>2, <2>2 DEF Continues
<1> QED BY <1>1, <1>2 DEF Continues

LEMMA ContinuesAppended ==
  ASSUME NEW s \in Seq(Message), NEW t \in Seq(Message), NEW m \in Message, Continues(s, t)
  PROVE  Continues(Append(s, m), t)
<1>1. Append(s, m) = s \o <<m>> /\ <<m>> \in Seq(Message)
  BY AppendIsConcat
<1>2. Continues(s \o <<m>>, t)
  BY <1>1, ContinuesWithMore
<1> QED BY <1>1, <1>2

\* The cut of a transcript begins with the cut of its beginning, at the same
\* place, or with a summary of all of it.
LEMMA CutOfBeginning ==
  ASSUME NEW s \in Seq(Message), NEW t \in Seq(Message), BeginsWith(s, t), t # <<>>,
         NEW j \in 2 .. Len(s)
  PROVE  \E k \in 2 .. Len(t) + 1 : /\ BeginsWith(Cut(s, j), Cut(t, k))
                                    /\ k = IF j <= Len(t) THEN j ELSE Len(t) + 1
<1>1. PICK k : k = IF j <= Len(t) THEN j ELSE Len(t) + 1
  OBVIOUS
<1>2. /\ Len(s) \in Nat /\ Len(t) \in Nat /\ Len(t) # 0 /\ j \in Nat /\ Len(t) <= Len(s)
      /\ \A i \in 1 .. Len(t) : s[i] = t[i]
  BY LenProperties, EmptySeq DEF BeginsWith
<1>3. k \in 2 .. Len(t) + 1 /\ j \in 2 .. Len(s) + 1
  BY <1>1, <1>2
<1>4. /\ Len(Cut(s, j)) = Len(s) - j + 2 /\ Cut(s, j)[1] = Summary
      /\ \A i \in 2 .. Len(s) - j + 2 : Cut(s, j)[i] = s[i + j - 2]
      /\ Len(Cut(t, k)) = Len(t) - k + 2 /\ Cut(t, k)[1] = Summary
      /\ \A i \in 2 .. Len(t) - k + 2 : Cut(t, k)[i] = t[i + k - 2]
  BY <1>3, CutProperties
<1>5. ASSUME NEW i \in 1 .. Len(t) - k + 2 PROVE Cut(s, j)[i] = Cut(t, k)[i]
  <2>1. CASE i = 1
    BY <1>4, <2>1
  <2>2. CASE i # 1
    <3>1. j <= Len(t) /\ k = j /\ i \in 2 .. Len(t) - k + 2 /\ i \in 2 .. Len(s) - j + 2
          /\ i + j - 2 \in 1 .. Len(t)
      BY <1>1, <1>2, <1>3, <2>2
    <3> QED BY <1>2, <1>4, <3>1
  <2> QED BY <2>1, <2>2
<1>6. Len(Cut(t, k)) <= Len(Cut(s, j))
  <2>1. Len(t) - k + 2 <= Len(s) - j + 2
    <3>1. CASE j <= Len(t)
      BY <1>1, <1>2, <3>1
    <3>2. CASE ~(j <= Len(t))
      BY <1>1, <1>2, <1>3, <3>2
    <3> QED BY <3>1, <3>2
  <2> QED BY <1>4, <2>1
<1> QED BY <1>1, <1>3, <1>4, <1>5, <1>6 DEF BeginsWith

\* The cut of a cut is a cut.
LEMMA CutOfCut ==
  ASSUME NEW t \in Seq(Message), NEW k \in 2 .. Len(t) + 1, NEW l \in 2 .. Len(Cut(t, k)) + 1
  PROVE  k + l - 2 \in 2 .. Len(t) + 1 /\ Cut(Cut(t, k), l) = Cut(t, k + l - 2)
<1>1. PICK c : c = Cut(t, k)
  OBVIOUS
<1>2. /\ c \in Seq(Message) /\ Len(c) = Len(t) - k + 2
      /\ \A i \in 2 .. Len(t) - k + 2 : c[i] = t[i + k - 2]
  BY <1>1, CutProperties
<1>3. /\ Len(t) \in Nat /\ k \in Nat /\ l \in Nat /\ l \in 2 .. Len(c) + 1 /\ k >= 2 /\ l >= 2
      /\ l <= Len(t) - k + 3
  BY <1>1, <1>2, LenProperties
<1>4. PICK p : p = k + l - 2
  OBVIOUS
<1>5. p \in 2 .. Len(t) + 1 /\ Len(t) - p + 2 = Len(c) - l + 2 /\ Len(c) - l + 2 \in Nat
  BY <1>2, <1>3, <1>4
<1>6. /\ Cut(c, l) \in Seq(Message) /\ Len(Cut(c, l)) = Len(c) - l + 2 /\ Cut(c, l)[1] = Summary
      /\ \A i \in 2 .. Len(c) - l + 2 : Cut(c, l)[i] = c[i + l - 2]
  BY <1>2, <1>3, CutProperties
<1>7. /\ Cut(t, p) \in Seq(Message) /\ Len(Cut(t, p)) = Len(t) - p + 2 /\ Cut(t, p)[1] = Summary
      /\ \A i \in 2 .. Len(t) - p + 2 : Cut(t, p)[i] = t[i + p - 2]
  BY <1>5, CutProperties
<1>8. ASSUME NEW i \in 1 .. Len(c) - l + 2 PROVE Cut(c, l)[i] = Cut(t, p)[i]
  <2>1. CASE i = 1
    BY <1>6, <1>7, <2>1
  <2>2. CASE i # 1
    <3>1. /\ i \in 2 .. Len(c) - l + 2 /\ i \in 2 .. Len(t) - p + 2
          /\ i + l - 2 \in 2 .. Len(t) - k + 2 /\ (i + l - 2) + k - 2 = i + p - 2
      BY <1>2, <1>3, <1>4, <1>5, <2>2
    <3> QED BY <1>2, <1>6, <1>7, <3>1
  <2> QED BY <2>1, <2>2
<1>9. Cut(c, l) = Cut(t, p)
  BY <1>5, <1>6, <1>7, <1>8, SeqEqual
<1> QED BY <1>1, <1>4, <1>5, <1>9

LEMMA ContinuesCut ==
  ASSUME NEW s \in Seq(Message), NEW t \in Seq(Message), Continues(s, t), cfg.persist,
         NEW j \in 2 .. Len(s)
  PROVE  Continues(Cut(s, j), t)
<1>1. Cut(s, j) \in Seq(Message)
  <2>1. j \in 2 .. Len(s) + 1
    BY LenProperties
  <2> QED BY <2>1, CutProperties
<1>2. CASE t = <<>>
  <2>1. BeginsWith(Cut(s, j), t)
    BY <1>1, <1>2, LenProperties, EmptySeq DEF BeginsWith
  <2> QED BY <2>1 DEF Continues
<1>3. CASE t # <<>> /\ BeginsWith(s, t)
  BY <1>3, CutOfBeginning DEF Continues
<1>4. ASSUME NEW k \in 2 .. Len(t) + 1, BeginsWith(s, Cut(t, k)) PROVE Continues(Cut(s, j), t)
  <2>1. Len(t) \in Nat /\ k \in Nat /\ k <= Len(t) + 1
    BY LenProperties
  <2>2. Cut(t, k) \in Seq(Message) /\ Len(Cut(t, k)) = Len(t) - k + 2
    BY CutProperties
  <2>3. Cut(t, k) # <<>>
    BY <2>1, <2>2, EmptySeq
  <2>4. PICK l \in 2 .. Len(Cut(t, k)) + 1 : BeginsWith(Cut(s, j), Cut(Cut(t, k), l))
    BY <1>4, <2>2, <2>3, CutOfBeginning
  <2>5. k + l - 2 \in 2 .. Len(t) + 1 /\ BeginsWith(Cut(s, j), Cut(t, k + l - 2))
    BY <2>4, CutOfCut
  <2> QED BY <2>5 DEF Continues
<1> QED BY <1>2, <1>3, <1>4 DEF Continues

LEMMA GrownInit == Init => GrownInv
BY DEF Init, GrownInv

LEMMA GrownStep == TypeInv /\ GrownInv /\ [Next]_vars => GrownInv'
<1> SUFFICES ASSUME TypeInv, GrownInv, [Next]_vars PROVE GrownInv'
  OBVIOUS
<1> USE DEF TypeInv, TypeOK
<1>1. ASSUME pc # "idle", context' = context, cfg' = cfg, Continues(messages', context)
      PROVE  GrownInv'
  BY <1>1 DEF GrownInv, Continues
<1>2. ASSUME pc # "idle", UNCHANGED <<cfg, messages, context>> PROVE GrownInv'
  BY <1>1, <1>2 DEF GrownInv
<1>3. ASSUME NEW how, EndRun(how) PROVE GrownInv'
  BY <1>3 DEF EndRun, GrownInv
<1>4. ASSUME UNCHANGED <<cfg, pc, messages, context>> PROVE GrownInv'
  BY <1>4 DEF GrownInv, Continues
<1>5. CASE Client
  <2>1. ASSUME NEW m \in Inputs, Prompt(m) PROVE GrownInv'
    <3>1. User(m) \in Message /\ BeginsWith(context, context)
      BY MessageTypes, BeginsWithSelf
    <3>2. Append(context, User(m)) = context \o <<User(m)>> /\ <<User(m)>> \in Seq(Message)
      BY <3>1, AppendIsConcat
    <3>3. BeginsWith(context \o <<User(m)>>, context)
      BY <3>1, <3>2, BeginsWithMore
    <3> QED BY <2>1, <3>2, <3>3 DEF Prompt, FirstMessages, GrownInv, Continues
  <2>2. CASE (\E m \in Inputs : Steer(m) \/ FollowUp(m)) \/ Abort
    BY <1>4, <2>2 DEF Steer, FollowUp, Abort, runVars
  <2> QED BY <1>5, <2>1, <2>2 DEF Client
<1>6. CASE BeginTurn
  <2>1. /\ UserMessages(pending) \in Seq(Message) /\ Continues(messages, context)
        /\ pc # "idle" /\ UNCHANGED <<cfg, context>>
    BY <1>6, TranscriptTypes DEF BeginTurn, GrownInv
  <2>2. PICK all : all = messages \o UserMessages(pending)
    OBVIOUS
  <2>3. all \in Seq(Message) /\ Continues(all, context)
    BY <2>1, <2>2, ContinuesWithMore, ConcatProperties
  <2>4. messages' = all \/ (cfg.persist /\ \E k \in 2 .. Len(all) : messages' = Cut(all, k))
    BY <1>6, <2>2, <2>3, TransformedIs DEF BeginTurn
  <2>5. Continues(messages', context)
    BY <2>3, <2>4, ContinuesCut
  <2> QED BY <1>1, <2>1, <2>5
<1>7. CASE Answers
  <2>1. PICK n \in 0 .. MaxCalls : /\ messages' = Append(messages, Assistant(turnId, n))
                                  /\ pc = "decide" /\ UNCHANGED <<cfg, context>>
    BY <1>7, LoopAssumption DEF Answers, AnswerWithoutTools, AnswerWithTools, AnswerTruncated
  <2>2. Assistant(turnId, n) \in Message /\ Continues(messages, context)
    BY <2>1, MessageTypes DEF GrownInv
  <2>3. Continues(Append(messages, Assistant(turnId, n)), context)
    BY <2>2, ContinuesAppended
  <2> QED BY <1>1, <2>1, <2>3
<1>8. CASE TakeResult \/ TakeResultSteered \/ \E c \in Calls : SkipNext(c)
  BY <1>2, <1>8 DEF TakeResult, TakeResultSteered, SkipNext, runVars
<1>9. CASE AppendResults
  <2>1. PICK tools : tools = [i \in DOMAIN results |-> ToolMessage(turnId, results[i])]
    OBVIOUS
  <2>2. /\ tools \in Seq(Message) /\ Continues(messages, context) /\ pc # "idle"
        /\ messages' = messages \o tools /\ UNCHANGED <<cfg, context>>
    BY <1>9, <2>1, TranscriptTypes DEF AppendResults, GrownInv
  <2>3. Continues(messages \o tools, context)
    BY <2>2, ContinuesWithMore
  <2> QED BY <1>1, <2>2, <2>3
<1>10. CASE Ends \/ DeliverCancel \/ TakeRefusal \/ Boundary
  <2>1. ASSUME NEW msgs, pc = "boundary", TurnWith(msgs) PROVE GrownInv'
    BY <1>2, <2>1 DEF TurnWith
  <2>2. ASSUME NEW as, pc # "idle", ChooseToReturn(as) PROVE GrownInv'
    BY <1>2, <2>2 DEF ChooseToReturn
  <2>3. CASE Ends \/ DeliverCancel \/ TakeRefusal
    BY <1>3, <2>2, <2>3 DEF Ends, RaiseIfAborted, MaxTurnsReached, CompleteTurnFails, Return,
       DeliverCancel, TakeRefusal
  <2>4. CASE Boundary
    BY <2>1, <2>2, <2>4 DEF Boundary, StopAfterTurn, EndAtRest, FollowUpAfterStop,
       SteerNextTurn, NextTurn, FollowUpAtRest, Unsteered
  <2> QED BY <1>10, <2>3, <2>4
<1>11. CASE (\E c \in 1 .. MaxCalls : Tool(c)) \/ (\E d \in adrift : EndAdrift(d))
  BY <1>4, <1>11 DEF Tool, StartTool, RefuseTool, Work, FinishTool, EndAdrift, runVars
<1>12. CASE UNCHANGED vars
  BY <1>4, <1>12 DEF vars, runVars
<1> QED
  BY <1>5, <1>6, <1>7, <1>8, <1>9, <1>10, <1>11, <1>12
  DEF Next, Loop, Gather

\* A run adds to the committed conversation or leaves it alone: aborted and
\* failed runs leave no trace in it (agent.py:140), and a written-back
\* transform (loop.py:121) can only put a summary for its start.
THEOREM ContextGrows == Spec => ContextGrowsOrIsCut
<1>1. ASSUME TypeInv, GrownInv, [Next]_vars
      PROVE  \/ BeginsWith(context', context)
             \/ cfg.persist /\ \E k \in 2 .. Len(context) + 1 : BeginsWith(context', Cut(context, k))
  <2>1. context \in Seq(Message) /\ messages \in Seq(Message)
    BY <1>1 DEF TypeInv, TypeOK
  <2>2. context' = context \/ (context' = messages /\ pc # "idle")
    <3>1. ASSUME NEW how, EndRun(how), pc # "idle"
          PROVE  context' = context \/ (context' = messages /\ pc # "idle")
      BY <3>1 DEF EndRun
    <3> USE DEF runVars
    <3>2. CASE Client
      BY <3>2 DEF Client, Prompt, Steer, FollowUp, Abort
    <3>3. CASE Ends \/ DeliverCancel
      BY <3>1, <3>3 DEF Ends, RaiseIfAborted, MaxTurnsReached, CompleteTurnFails, Return,
         ChooseToReturn, DeliverCancel, StartsInLoop
    <3>4. CASE BeginTurn \/ Answers
      BY <3>4 DEF BeginTurn, Answers, AnswerWithoutTools, AnswerWithTools, AnswerTruncated
    <3>5. CASE Gather
      BY <3>1, <3>5 DEF Gather, TakeResult, TakeResultSteered, TakeRefusal, SkipNext, AppendResults
    <3>6. CASE Boundary
      BY <3>6 DEF Boundary, StopAfterTurn, EndAtRest, FollowUpAfterStop, SteerNextTurn,
         NextTurn, FollowUpAtRest, TurnWith, ChooseToReturn
    <3>7. CASE (\E c \in 1 .. MaxCalls : Tool(c)) \/ (\E d \in adrift : EndAdrift(d))
      BY <3>7 DEF Tool, StartTool, RefuseTool, Work, FinishTool, EndAdrift
    <3>8. CASE UNCHANGED vars
      BY <3>8 DEF vars
    <3> QED BY <1>1, <3>2, <3>3, <3>4, <3>5, <3>6, <3>7, <3>8 DEF Next, Loop
  <2>3. CASE context' = context
    BY <2>1, <2>3, BeginsWithSelf
  <2>4. CASE context' = messages /\ pc # "idle"
    BY <1>1, <2>4 DEF GrownInv, Continues
  <2> QED BY <2>2, <2>3, <2>4
<1>2. TypeInv /\ GrownInv /\ [Next]_vars
      => [\/ BeginsWith(context', context)
          \/ /\ cfg.persist
             /\ \E k \in 2 .. Len(context) + 1 : BeginsWith(context', Cut(context, k))]_vars
  BY <1>1
<1> QED BY TypeInit, TypeStep, GrownInit, GrownStep, <1>2, PTL DEF Spec, ContextGrowsOrIsCut

----
(***************************************************************************)
(* OnlyLateInputsWait.  Between the last look at the queues and the return *)
(* the run still reports its end, and a client may send.                   *)
(***************************************************************************)
Waiting == ElementsOf(followUp) \cup (IF cfg.stop = "absent" THEN ElementsOf(steering) ELSE {})

LateInv == pc = "done" => Waiting \subseteq late

LEMMA LateStep == TypeInv /\ LateInv /\ [Next]_vars => LateInv'
<1> SUFFICES ASSUME TypeInv, LateInv, [Next]_vars, pc' = "done" PROVE Waiting' \subseteq late'
  BY DEF LateInv
<1> USE DEF TypeInv, TypeOK
<1>1. ASSUME pc = "done", UNCHANGED <<cfg, followUp, steering, late>> PROVE Waiting' \subseteq late'
  BY <1>1 DEF LateInv, Waiting
<1>2. ASSUME NEW m \in Inputs, Steer(m) \/ FollowUp(m) PROVE Waiting' \subseteq late'
  <2>1. pc = "done" /\ cfg' = cfg /\ late' = late \cup {m}
    BY <1>2 DEF Steer, FollowUp, SentLate, runVars
  <2>2. /\ ElementsOf(Append(followUp, m)) = ElementsOf(followUp) \cup {m}
        /\ ElementsOf(Append(steering, m)) = ElementsOf(steering) \cup {m}
    BY ElementsOfAppend
  <2>3. Waiting' \subseteq Waiting \cup {m}
    BY <1>2, <2>1, <2>2 DEF Steer, FollowUp, Waiting
  <2> QED BY <2>1, <2>3 DEF LateInv
<1>3. CASE StopAfterTurn \/ EndAtRest
  <2>1. followUp' = <<>> /\ cfg' = cfg /\ (cfg.stop = "absent" => steering' = <<>>)
    BY <1>3 DEF StopAfterTurn, EndAtRest, MayStop, Unsteered, ChooseToReturn, clientVars
  <2> QED BY <2>1, InputsOfEmpty DEF Waiting
<1>4. ASSUME NEW how, EndRun(how) PROVE FALSE
  BY <1>4 DEF EndRun
<1>5. CASE \E m \in Inputs : Prompt(m)
  BY <1>5 DEF Prompt
<1>6. CASE Abort \/ (\E c \in 1 .. MaxCalls : Tool(c)) \/ (\E d \in adrift : EndAdrift(d))
           \/ UNCHANGED vars
  BY <1>1, <1>6 DEF Abort, Tool, StartTool, RefuseTool, Work, FinishTool, EndAdrift,
     vars, runVars, clientVars
<1>7. CASE Ends \/ DeliverCancel
  BY <1>4, <1>7 DEF Ends, RaiseIfAborted, MaxTurnsReached, ChooseToReturn, CompleteTurnFails,
     Return, DeliverCancel
<1>8. CASE BeginTurn \/ Answers
  BY <1>8 DEF BeginTurn, Answers, AnswerWithoutTools, AnswerWithTools, AnswerTruncated
<1>9. CASE Gather
  BY <1>4, <1>9 DEF Gather, TakeResult, TakeResultSteered, TakeRefusal, SkipNext, AppendResults,
     runVars
<1>10. CASE FollowUpAfterStop \/ SteerNextTurn \/ NextTurn \/ FollowUpAtRest
  BY <1>10 DEF FollowUpAfterStop, SteerNextTurn, NextTurn, FollowUpAtRest, TurnWith
<1> QED
  BY <1>2, <1>3, <1>5, <1>6, <1>7, <1>8, <1>9, <1>10 DEF Next, Client, Loop, Boundary

\* A run that reports success leaves only inputs behind that came while it was
\* reporting its end: it has asked the follow-up queue, and the steering queue
\* where no stop rule passes it by (loop.py:191-222).
THEOREM OnlyLateInputsAreLeft == Spec => OnlyLateInputsWait
<1>1. Init => LateInv
  BY DEF Init, LateInv
<1>2. ASSUME LateInv, [Next]_vars, outcome = "running", outcome' = "ok"
      PROVE  Waiting \subseteq late
  <2>1. ASSUME NEW how, EndRun(how), how # "ok" PROVE FALSE
    BY <1>2, <2>1 DEF EndRun
  <2>2. ASSUME outcome' = outcome PROVE FALSE
    BY <1>2, <2>2
  <2>3. CASE Client
    BY <1>2, <2>3 DEF Client, Prompt, Steer, FollowUp, Abort, runVars
  <2>4. CASE Return
    BY <1>2, <2>1, <2>4 DEF Return, LateInv
  <2>5. CASE RaiseIfAborted \/ MaxTurnsReached \/ CompleteTurnFails \/ DeliverCancel
    BY <2>1, <2>2, <2>5
    DEF RaiseIfAborted, MaxTurnsReached, ChooseToReturn, CompleteTurnFails, DeliverCancel
  <2>6. CASE BeginTurn \/ Answers
    BY <2>2, <2>6 DEF BeginTurn, Answers, AnswerWithoutTools, AnswerWithTools, AnswerTruncated
  <2>7. CASE Gather
    BY <2>1, <2>2, <2>7
    DEF Gather, TakeResult, TakeResultSteered, TakeRefusal, SkipNext, AppendResults, runVars
  <2>8. CASE Boundary
    BY <2>2, <2>8 DEF Boundary, StopAfterTurn, EndAtRest, ChooseToReturn, FollowUpAfterStop,
       SteerNextTurn, NextTurn, FollowUpAtRest, TurnWith
  <2>9. CASE (\E c \in 1 .. MaxCalls : Tool(c)) \/ (\E d \in adrift : EndAdrift(d))
             \/ UNCHANGED vars
    BY <2>2, <2>9 DEF Tool, StartTool, RefuseTool, Work, FinishTool, EndAdrift, vars, runVars
  <2> QED BY <1>2, <2>3, <2>4, <2>5, <2>6, <2>7, <2>8, <2>9 DEF Next, Loop, Ends
<1>3. LateInv /\ [Next]_vars
      => [outcome = "running" /\ outcome' = "ok"
            => /\ ElementsOf(followUp) \subseteq late
               /\ cfg.stop = "absent" => ElementsOf(steering) \subseteq late]_vars
  BY <1>2 DEF Waiting
<1> QED BY TypeInit, TypeStep, LateStep, <1>1, <1>3, PTL DEF Spec, OnlyLateInputsWait

====
