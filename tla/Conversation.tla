---- MODULE Conversation ----
(***************************************************************************)
(* What the model is sent: the transcript of a session from run to run     *)
(* (atomic_l1.py), the skills and project instructions put into it         *)
(* (context/skills.py, project_docs.py), and its compression before each   *)
(* call (context/transform.py, micro.py, compress.py, budget.py).          *)
(*                                                                         *)
(* Abstracted: texts.  A message has a size: big is a tool result that     *)
(* micro-compaction may shorten.  The system prompt is left out.           *)
(***************************************************************************)
EXTENDS Integers, Sequences, FiniteSets, SequencesExt

CONSTANTS
  Skills,           \* SkillRegistry.manifests(), by name
  MicroAt,          \* tokens from which tool results are shortened
  CompressAt,       \* TokenBudget.max_prompt_tokens
  KeepRecent,       \* compression_keep_recent_messages
  KeepToolResults,  \* micro_compaction_keep_recent_tool_results
  BigSize,          \* tokens of a big tool result; any other message has one
  MaxCalls,         \* bound of the model: tool calls of a turn
  MaxMessages       \* bound of the model: messages in all runs

ASSUME ConversationAssumption ==
  /\ {MicroAt, CompressAt, KeepRecent, KeepToolResults, MaxCalls, MaxMessages} \subseteq Nat
  /\ BigSize \in Nat \ {0} /\ KeepRecent > 0
  /\ IsFiniteSet(Skills)
  /\ Skills \intersect {"words", "instructions", "reply", "result", "summary"} = {}

VARIABLES
  history,    \* AgentState.messages: what the last run that came to its end left
  context,    \* ctx.messages of the run
  turn,       \* "idle", "starts", "sends", "acts"
  document,   \* AGENTS.md exists
  made        \* messages made so far; a tool call's number is its id

convVars == <<history, context, turn, document, made>>

ConvInit ==
  /\ history = <<>> /\ context = <<>> /\ turn = "idle" /\ document \in BOOLEAN /\ made = 0

\* What tells messages apart: the words of a user, the skill, the calls, the call answered.
Message(role, what) == [role |-> role, what |-> what, calls |-> <<>>, answers |-> 0, size |-> 1]
Words == Message("user", "words")
Instructions == Message("user", "instructions")
Assistant(calls) == [Message("assistant", "reply") EXCEPT !.calls = calls]
Result(call, size) == [Message("tool", "result") EXCEPT !.answers = call, !.size = size]

----
(***************************************************************************)
(* The start of a run                                                      *)
(***************************************************************************)
SkillMessages(names) == [i \in DOMAIN names |-> Message("user", names[i])]

ActivatedInHistory(messages) == {history[i].what : i \in DOMAIN history} \intersect Skills  \* mutant: not the named ones
\* activated_skill_names: those whose message is still there.
Activated(messages) == {messages[i].what : i \in DOMAIN messages} \intersect Skills

\* The skills of names that are not there yet, in the order of the registry.
Missing(names, messages) == SetToSeq(names \ Activated(messages))

\* A new session begins with the project's instructions; a later run takes up the
\* transcript.  Named skills come before the prompt, then those whose triggers match.
BeginRun ==
  /\ turn = "idle" /\ made < MaxMessages
  /\ \E named, matching \in SUBSET Skills :
       LET seed == IF history # <<>> THEN history
                   ELSE IF document THEN <<Instructions>> ELSE <<>>
           withNamed == seed \o SkillMessages(Missing(named, seed))
           withAll == withNamed \o SkillMessages(Missing(matching, withNamed))
       IN  context' = Append(withAll, Words)
  /\ turn' = "starts" /\ made' = made + 1
  /\ UNCHANGED <<history, document>>

----
(***************************************************************************)
(* Compression                                                             *)
(***************************************************************************)
Tokens(messages) == FoldSeq(LAMBDA m, sum : m.size + sum, 0, messages)

\* micro_compact_tool_outputs: all big results but the most recent ones.
MicroCompacted(messages) ==
  [i \in DOMAIN messages |->
     IF /\ messages[i].role = "tool"
        /\ Cardinality({j \in DOMAIN messages : j > i /\ messages[j].role = "tool"}) >= KeepToolResults
     THEN [messages[i] EXCEPT !.size = 1]
     ELSE messages[i]]

UserAt(messages) == {i \in DOMAIN messages : messages[i].role = "user"}

CutAtCount(messages) == Len(messages) - KeepRecent + 1       \* mutant: groups may be split

\* phase_a_compress: the tail to keep begins with the user's words.
KeepFrom(messages) ==
  LET turns == {i \in UserAt(messages) : i <= Len(messages) - KeepRecent + 1}
  IN  IF turns = {} THEN 1 ELSE CHOOSE i \in turns : \A j \in turns : j <= i

PhaseA(messages) ==
  IF Len(messages) <= KeepRecent \/ KeepFrom(messages) = 1 THEN messages
  ELSE <<Message("system", "summary")>> \o SubSeq(messages, KeepFrom(messages), Len(messages))

\* ContextCompressor.transform
Transformed(messages) ==
  LET working == IF Tokens(messages) >= MicroAt THEN MicroCompacted(messages) ELSE messages
  IN  IF Tokens(working) > CompressAt THEN PhaseA(working) ELSE working

----
(***************************************************************************)
(* Turns (AgentLoop)                                                       *)
(***************************************************************************)
\* The transcript is transformed, kept so, and sent.
SendTurn ==
  /\ turn = "starts"
  /\ context' = Transformed(context)
  /\ turn' = "sends"
  /\ UNCHANGED <<history, document, made>>

ReplyWithCalls ==
  /\ turn = "sends"
  /\ \E n \in 1 .. MaxCalls :
       /\ made + n < MaxMessages
       /\ context' = Append(context, Assistant([i \in 1 .. n |-> made + 1 + i]))
       /\ made' = made + 1 + n
  /\ turn' = "acts"
  /\ UNCHANGED <<history, document>>

\* The last answer, unless a follow-up message waits.
LastReply ==
  /\ turn = "sends"
  /\ history' = Append(context, Assistant(<<>>))
  /\ turn' = "idle" /\ context' = <<>>
  /\ UNCHANGED <<document, made>>

ReplyBeforeFollowUp ==
  /\ turn = "sends" /\ made < MaxMessages
  /\ context' = context \o <<Assistant(<<>>), Words>>
  /\ made' = made + 1 /\ turn' = "starts"
  /\ UNCHANGED <<history, document>>

\* The results of the turn in the order of their end, and a steering message that came.
Results ==
  /\ turn = "acts"
  /\ LET calls == Last(context).calls IN
     \E order \in SetToSeqs(ToSet(calls)), sizes \in [ToSet(calls) -> {1, BigSize}], steered \in BOOLEAN :
       context' = context \o [i \in DOMAIN order |-> Result(order[i], sizes[order[i]])]
                          \o (IF steered THEN <<Words>> ELSE <<>>)
  /\ turn' = "starts"
  /\ UNCHANGED <<history, document, made>>

\* max_turns: the transcript is kept although the run failed.
TurnsUsedUp ==
  /\ turn = "starts"
  /\ history' = context /\ turn' = "idle" /\ context' = <<>>
  /\ UNCHANGED <<document, made>>

\* An error or a stop ends the run with an exception: its transcript is lost.
RunFails ==
  /\ turn \in {"starts", "sends", "acts"}
  /\ turn' = "idle" /\ context' = <<>>
  /\ UNCHANGED <<history, document, made>>

----
(***************************************************************************)
(* Between runs: the commands of the chat loop                             *)
(***************************************************************************)
\* `/compact` compresses whatever the budget says, and gives up if nothing is won.
Compact ==
  /\ turn = "idle"
  /\ Tokens(PhaseA(history)) < Tokens(history)
  /\ history' = PhaseA(history)
  /\ UNCHANGED <<context, turn, document, made>>

\* `/new`
ForgetHistory ==
  /\ turn = "idle" /\ history # <<>>
  /\ history' = <<>>
  /\ UNCHANGED <<context, turn, document, made>>

----
ConvNext ==
  \/ Compact \/ ForgetHistory
  \/ BeginRun \/ SendTurn \/ ReplyWithCalls \/ LastReply \/ ReplyBeforeFollowUp
  \/ Results \/ TurnsUsedUp \/ RunFails

ConvSpec == ConvInit /\ [][ConvNext]_convVars

----
(***************************************************************************)
(* Properties                                                              *)
(***************************************************************************)
Group(i) == LET calls == context[i].calls IN
  /\ i + Len(calls) <= Len(context)
  /\ {context[i + k].answers : k \in 1 .. Len(calls)} = ToSet(calls)

\* What is sent to the model has no tool result without the call before it and no call
\* without its results, whatever was compressed, and it holds the user's last words
\* (compress.py:99).
SentIsWellFormed ==
  turn = "sends" =>
    /\ \A i \in DOMAIN context : context[i].calls # <<>> => Group(i)
    /\ \A i \in DOMAIN context : context[i].role = "tool" =>
         \E j \in 1 .. (i - 1) : context[i].answers \in ToSet(context[j].calls)
    /\ \E i \in DOMAIN context : context[i].what = "words"

\* A skill that is named, that matches, or that an earlier run brought in, is in the
\* transcript once at most (skills.py:234, 265).
SkillOnce ==
  \A skill \in Skills : Cardinality({i \in DOMAIN context : context[i].what = skill}) <= 1
====
