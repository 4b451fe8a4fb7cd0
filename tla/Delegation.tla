---- MODULE Delegation ----
(***************************************************************************)
(* One turn of an orchestrating run (runtime/subagent.py): its calls of    *)
(* the agent tool run in parallel, each a loop of its own that uses one    *)
(* tool after the other.  The tools of all of them (wrap_phase1_tool)      *)
(* share the parent's status, its stop, and the one approval slot of the   *)
(* controller, in which each question puts a future of its own.            *)
(*                                                                         *)
(* Abstracted: what tools do, prompts and replies; checkpoints             *)
(* (Checkpoints); the policy: any tool call may be one that has to ask.    *)
(***************************************************************************)
EXTENDS Integers, Sequences, FiniteSets, SequencesExt

CONSTANTS
  Agents,         \* the parallel calls of the agent tool
  SubagentTurns,  \* subagent_max_turns
  MaxQuestions    \* bound of the model: questions put in the turn

ASSUME DelegationAssumption == SubagentTurns \in Nat /\ MaxQuestions \in Nat

VARIABLES
  agent,      \* per agent: where it is, its turns, the question it waits on
  question,   \* the futures, in the order the questions were shown
  approval,   \* ManagedTask.approval: the question whose future is in the slot
  status,     \* the parent's
  cancelled,  \* the parent's cancellation token
  steering,   \* a steering message is in the queue
  parent,     \* "delegates", "ended"
  latest,     \* history: per question, the one shown last when its future was resolved
  allowed     \* history: the questions whose tools ran

delVars == <<agent, question, approval, status, cancelled, steering, parent, latest, allowed>>

DelInit ==
  /\ agent = [a \in Agents |-> [at |-> "thinks", turns |-> 0, asked |-> 0]]
  /\ question = <<>> /\ approval = 0 /\ status = "running"
  /\ cancelled = FALSE /\ steering = FALSE /\ parent = "delegates"
  /\ latest = <<>> /\ allowed = {}

At(a, place) == agent' = [agent EXCEPT ![a].at = place]
Quiet == UNCHANGED <<question, approval, latest>>

----
(***************************************************************************)
(* A subagent                                                              *)
(***************************************************************************)
\* complete_turn: a stop ends the loop, and so does the last turn or an answer.
SubagentEnds(a) ==
  /\ agent[a].at = "thinks"
  /\ At(a, "done")
  /\ Quiet /\ UNCHANGED <<status, cancelled, steering, parent, allowed>>

Think(a) ==
  /\ agent[a].at = "thinks" /\ ~cancelled /\ agent[a].turns < SubagentTurns
  /\ agent' = [agent EXCEPT ![a].at = "acts", ![a].turns = @ + 1]
  /\ Quiet /\ UNCHANGED <<status, cancelled, steering, parent, allowed>>

\* A tool that need not ask.
Act(a) ==
  /\ agent[a].at = "acts"
  /\ At(a, "thinks")
  /\ Quiet /\ UNCHANGED <<status, cancelled, steering, parent, allowed>>

SlotIfFree ==                                          \* mutant: an open question keeps the slot
  IF approval # 0 /\ question[approval] = "open" THEN approval ELSE Len(question) + 1
SlotAfter == Len(question) + 1

\* The question is shown, and its future takes the slot, whoever waits on the one there.
PutQuestion(a) ==
  /\ agent[a].at = "acts" /\ Len(question) < MaxQuestions
  /\ agent' = [agent EXCEPT ![a].at = "asks", ![a].asked = Len(question) + 1]
  /\ question' = Append(question, "open") /\ latest' = Append(latest, 0)
  /\ approval' = SlotAfter
  /\ status' = "waiting"
  /\ UNCHANGED <<cancelled, steering, parent, allowed>>

\* The future is resolved: the status is set back, and the tool runs or does not.
HearAnswer(a) ==
  /\ agent[a].at = "asks" /\ question[agent[a].asked] \in {"yes", "no"}
  /\ At(a, "thinks")
  /\ allowed' = IF question[agent[a].asked] = "yes" THEN allowed \union {agent[a].asked} ELSE allowed
  /\ status' = "running"
  /\ Quiet /\ UNCHANGED <<cancelled, steering, parent>>

----
(***************************************************************************)
(* The user                                                                *)
(***************************************************************************)
SlotOpen == approval # 0 /\ question[approval] = "open"
Resolve(answer) ==
  IF SlotOpen
  THEN /\ question' = [question EXCEPT ![approval] = answer]
       /\ latest' = [latest EXCEPT ![approval] = Len(question)]
  ELSE UNCHANGED <<question, latest>>

\* resolve_approval: there is no telling which question is meant.
AnswerSlot ==
  /\ SlotOpen
  /\ \E answer \in {"yes", "no"} : Resolve(answer)
  /\ UNCHANGED <<agent, approval, status, cancelled, steering, parent, allowed>>

\* interrupt: the token, and the question in the slot denied.
InterruptAll ==
  /\ parent = "delegates" /\ ~cancelled
  /\ status' = "cancelling" /\ cancelled' = TRUE
  /\ Resolve("no")
  /\ UNCHANGED <<agent, approval, steering, parent, allowed>>

SteerRun ==
  /\ parent = "delegates" /\ ~steering
  /\ steering' = TRUE
  /\ UNCHANGED <<agent, question, approval, status, cancelled, parent, latest, allowed>>

----
(***************************************************************************)
(* The parent                                                              *)
(***************************************************************************)
\* When a call is done and a steering message waits, the other calls are cancelled
\* wherever they are, with their futures; nobody sets the status back.
SteeredAway ==
  /\ parent = "delegates" /\ steering /\ \E a \in Agents : agent[a].at = "done"
  /\ LET cut == {a \in Agents : agent[a].at # "done"} IN
     /\ agent' = [a \in Agents |-> [agent[a] EXCEPT !.at = "done"]]
     /\ question' = [q \in DOMAIN question |->
          IF question[q] = "open" /\ \E a \in cut : agent[a].asked = q THEN "cancelled" ELSE question[q]]
  /\ steering' = FALSE
  /\ UNCHANGED <<approval, status, cancelled, parent, latest, allowed>>

\* The next turn of the parent: interrupted, or its last answer.
RunEnds ==
  /\ parent = "delegates" /\ \A a \in Agents : agent[a].at = "done"
  /\ parent' = "ended"
  /\ status' = IF cancelled THEN "interrupted"
               ELSE IF status = "running" THEN "succeeded" ELSE status
  /\ UNCHANGED <<agent, question, approval, cancelled, steering, latest, allowed>>

DelNext ==
  \/ AnswerSlot \/ InterruptAll \/ SteerRun \/ SteeredAway \/ RunEnds
  \/ \E a \in Agents : SubagentEnds(a) \/ Think(a) \/ Act(a) \/ PutQuestion(a) \/ HearAnswer(a)

DelSpec == DelInit /\ [][DelNext]_delVars

----
(***************************************************************************)
(* Properties                                                              *)
(***************************************************************************)
\* A tool that asked runs only on a yes that was given when its own question was the
\* last one shown, however many subagents ask at the same time (controller.py:97, 177).
YesIsForTheShownQuestion == \A q \in allowed : latest[q] = q
====
