---- MODULE ConversationProofs ----
(***************************************************************************)
(* Theorems about what is said to the model and kept of it: the requests   *)
(* (LlmCall) for any number of attempts and chunks, the loop of the        *)
(* terminal (Chat) for any file store and turn, and the transcript         *)
(* (Conversation) for any thresholds, skills and numbers of calls.         *)
(***************************************************************************)
EXTENDS LlmCall, Chat, Conversation, DataLemmas, TLAPS

----
(***************************************************************************)
(* LlmCall                                                                 *)
(***************************************************************************)
LlmTypes ==
  /\ chunks \in Seq(Nat \X Nat) /\ source \in Seq(Nat \X Nat)
  /\ posts \in Nat /\ late \in Nat

\* A request begins with nothing, and what is read of its answer is collected.
CollectsOneRequest ==
  /\ at = "posted" => chunks = <<>> /\ source = <<>>
  /\ at = "reading" => chunks = source
  /\ outcome = "answer" => chunks = source
  /\ outcome # "none" => at = "ended"

\* The one request after a stop is the clean one, which is not repeated.
LateIsClean ==
  /\ late <= 1
  /\ ~abort => late = 0
  /\ at = "posted" /\ late = 1 => clean

LlmInv == LlmTypes /\ CollectsOneRequest /\ LateIsClean

LEMMA LlmInitially == LlmInit => LlmInv
BY DEF LlmInit, LlmInv, LlmTypes, CollectsOneRequest, LateIsClean

\* A chunk goes to the end of both.
LEMMA ChunkStep ==
  ASSUME LlmInv, Chunk
  PROVE  LlmInv'
<1> DEFINE c == <<posts, Len(source) + 1>>
<1>1. source \in Seq(Nat \X Nat) /\ chunks = source /\ at = "reading"
  BY DEF Chunk, LlmInv, LlmTypes, CollectsOneRequest
<1>2. c \in Nat \X Nat
  BY <1>1, LenProperties DEF LlmInv, LlmTypes
<1>3. source' = Append(source, c) /\ chunks' = Append(chunks, Last(source'))
  BY DEF Chunk
<1> HIDE DEF c
<1>4. /\ source' \in Seq(Nat \X Nat) /\ Len(source') = Len(source) + 1
      /\ source'[Len(source) + 1] = c
  BY <1>1, <1>2, <1>3, AppendProperties
<1>5. Last(source') = c
  BY <1>4 DEF Last
<1>6. chunks' = source'
  BY <1>1, <1>3, <1>5
<1>7. UNCHANGED <<at, outcome, posts, late, clean, abort>>
  BY DEF Chunk
<1> QED BY <1>1, <1>4, <1>6, <1>7 DEF LlmInv, LlmTypes, CollectsOneRequest, LateIsClean

LEMMA LlmStep == LlmInv /\ [LlmNext]_llmVars => LlmInv'
<1> SUFFICES ASSUME LlmInv, [LlmNext]_llmVars PROVE LlmInv'
  OBVIOUS
<1> USE DEF LlmInv, LlmTypes, CollectsOneRequest, LateIsClean, NoPost, Ended
<1>1. CASE UNCHANGED llmVars
  BY <1>1 DEF llmVars
<1>2. CASE Attempt
  BY <1>2 DEF Attempt, Posted, HeardBefore, ChunksAtStart
<1>3. CASE Cancelled \/ Awake
  BY <1>3 DEF Cancelled, Awake
<1>4. CASE Repost
  BY <1>4 DEF Repost, Posted
<1>5. CASE RefusedWithReason \/ FallBack
  BY <1>5 DEF RefusedWithReason, FallBack
<1>6. CASE ConnectionFails \/ \E retryable \in BOOLEAN : Refused(retryable)
  BY <1>6 DEF ConnectionFails, Refused, Raised
<1>7. CASE PlainAborted
  BY <1>7 DEF PlainAborted
<1>8. CASE PlainAnswer
  BY <1>8 DEF PlainAnswer
<1>9. CASE StreamOpens
  BY <1>9 DEF StreamOpens
<1>10. CASE Chunk
  BY <1>10, ChunkStep
<1>11. CASE StreamAborted \/ StreamEnds
  BY <1>11 DEF StreamAborted, StreamEnds
<1>12. CASE UserStops
  BY <1>12 DEF UserStops
<1> QED BY <1>1, <1>2, <1>3, <1>4, <1>5, <1>6, <1>7, <1>8, <1>9, <1>10, <1>11, <1>12 DEF LlmNext

\* The answer is what the server sent to the last request, nothing of an attempt that
\* broke off, however many there were (complete_chat_streaming, openai_stream.py:77).
THEOREM AnswerOfOneRequest == LlmSpec => []AnswerIsOfOneRequest
<1>1. LlmInv => AnswerIsOfOneRequest
  BY DEF LlmInv, CollectsOneRequest, AnswerIsOfOneRequest
<1> QED BY <1>1, LlmInitially, LlmStep, PTL DEF LlmSpec

\* After a stop at most one request still goes out, the repetition of one the server
\* was refusing at that moment, for any number of attempts (retry.py:66).
THEOREM StopEndsTheRequests == LlmSpec => []StopEndsRequests
<1>1. LlmInv => StopEndsRequests
  BY DEF LlmInv, LateIsClean, StopEndsRequests
<1> QED BY <1>1, LlmInitially, LlmStep, PTL DEF LlmSpec

----
(***************************************************************************)
(* Chat                                                                    *)
(***************************************************************************)
Texts == Seq(Int)
NodeKinds == {"root", "message", "compression", "run"}
Nodes == [up : Nat, text : Texts, kind : NodeKinds, run : Nat]
Files == [nodes : Seq(Nodes), tip : Nat]
States == [text : Texts, task : Nat]
Statuses == {"running", "succeeded", "failed", "interrupted"}
Records ==
  [session : SessionNames \union {NoSession}, status : Statuses, began : Texts,
   parent : Nat, again : BOOLEAN]
Seats ==
  [at : {"shell", "prompt", "running"}, loop : BOOLEAN, session : SessionNames \union {NoSession},
   held : States, run : Nat, sight : Nat \X Nat]

\* A session's nodes, the current one among them.
FileOK(file) == file \in Files /\ file.tip <= Len(file.nodes)

\* The last of the nodes of a run has this conversation.
LastRunHas(file, r, text) ==
  \E n \in RunNodesOf(file, r) :
    (\A other \in RunNodesOf(file, r) : other <= n) /\ file.nodes[n].text = text

----
(***************************************************************************)
(* Files                                                                   *)
(***************************************************************************)
LEMMA NoFileIs ==
  /\ FileOK(NoFile) /\ NoFile.nodes = <<>> /\ NoFile.tip = 0 /\ Len(NoFile.nodes) = 0
  /\ NoState \in States /\ NoState.text = <<>> /\ NoState.task = 0 /\ <<>> \in Texts
<1>1. <<>> \in Seq(Nodes) /\ <<>> \in Seq(Int) /\ Len(<<>>) = 0
  OBVIOUS
<1> QED BY <1>1 DEF FileOK, NoFile, Files, NoState, NoRun, States, Texts

\* The state at a node is what the node holds, however the file grows.
LEMMA StateIs ==
  ASSUME NEW file, FileOK(file), NEW n \in 0 .. Len(file.nodes)
  PROVE  /\ StateAt(file, n) \in States /\ TextAt(file, n) \in Texts /\ RunAt(file, n) \in Nat
         /\ n > 0 => n \in DOMAIN file.nodes /\ file.nodes[n] \in Nodes
         /\ StateAt(file, n).task = RunAt(file, n)
         /\ RunAt(file, n) # NoRun => StateAt(file, n).text = TextAt(file, n)
         /\ StateAt(file, n) # NoState => RunAt(file, n) # NoRun
<1>1. file.nodes \in Seq(Nodes)
  BY DEF FileOK, Files
<1>2. n > 0 => n \in DOMAIN file.nodes /\ file.nodes[n] \in Nodes
  BY <1>1
<1>3. TextAt(file, n) \in Texts /\ RunAt(file, n) \in Nat
  <2>1. CASE n = 0
    BY <2>1, NoFileIs DEF TextAt, RunAt, NoRun
  <2>2. CASE n # 0
    BY <1>2, <2>2 DEF TextAt, RunAt, Nodes
  <2> QED BY <2>1, <2>2
<1> QED BY <1>2, <1>3, NoFileIs DEF StateAt, States, NoRun, NoState

\* Nodes are only added.
Grows(file, new) ==
  /\ FileOK(new) /\ Len(file.nodes) <= Len(new.nodes)
  /\ \A n \in DOMAIN file.nodes : new.nodes[n] = file.nodes[n]

LEMMA StateKept ==
  ASSUME NEW file, FileOK(file), NEW new, Grows(file, new), NEW n \in 0 .. Len(file.nodes)
  PROVE  n \in 0 .. Len(new.nodes) /\ StateAt(new, n) = StateAt(file, n)
<1>1. file.nodes \in Seq(Nodes) /\ new.nodes \in Seq(Nodes)
  BY DEF FileOK, Files, Grows
<1>2. n # 0 => new.nodes[n] = file.nodes[n]
  BY <1>1 DEF Grows
<1>3. n \in 0 .. Len(new.nodes)
  BY <1>1 DEF Grows
<1> QED BY <1>2, <1>3 DEF StateAt, TextAt, RunAt

\* A file that grows by nodes of other runs shows a run as before.
LEMMA RunKept ==
  ASSUME NEW file, FileOK(file), NEW new, Grows(file, new), NEW r, NEW text,
         \A n \in DOMAIN new.nodes \ DOMAIN file.nodes :
           ~(new.nodes[n].kind = "run" /\ new.nodes[n].run = r),
         LastRunHas(file, r, text)
  PROVE  LastRunHas(new, r, text)
<1>1. file.nodes \in Seq(Nodes) /\ new.nodes \in Seq(Nodes)
  BY DEF FileOK, Files, Grows
<1>2. DOMAIN file.nodes \subseteq DOMAIN new.nodes
  BY <1>1 DEF Grows
<1>3. RunNodesOf(new, r) = RunNodesOf(file, r)
  BY <1>2 DEF RunNodesOf, Grows
<1>4. \A n \in RunNodesOf(file, r) : new.nodes[n] = file.nodes[n]
  BY DEF RunNodesOf, Grows
<1> QED BY <1>3, <1>4 DEF LastRunHas

LEMMA OpenedIs ==
  ASSUME NEW file, FileOK(file)
  PROVE  /\ Grows(file, Opened(file)) /\ Opened(file).tip \in 0 .. Len(Opened(file).nodes)
         /\ \A n \in DOMAIN Opened(file).nodes \ DOMAIN file.nodes : Opened(file).nodes[n].kind = "root"
         /\ StateAt(Opened(NoFile), Opened(NoFile).tip) = NoState
<1> DEFINE root == NodeOf(0, <<>>, "root", NoRun)
           fresh == [nodes |-> <<root>>, tip |-> 1]
<1>1. root \in Nodes /\ root.kind = "root" /\ root.run = NoRun
  BY NoFileIs DEF NodeOf, Nodes, NodeKinds, NoRun
<1> HIDE DEF root
<1>2. /\ <<root>> \in Seq(Nodes) /\ Len(<<root>>) = 1 /\ <<root>>[1] = root /\ DOMAIN <<root>> = {1}
  BY <1>1
<1>3. FileOK(fresh) /\ Len(fresh.nodes) = 1 /\ fresh.tip = 1 /\ DOMAIN fresh.nodes = {1} /\ fresh.nodes[1] = root
  BY <1>2 DEF FileOK, Files
<1>4. Opened(file) = IF file = NoFile THEN fresh ELSE file
  BY DEF Opened, root
<1>5. Opened(NoFile) = fresh
  BY DEF Opened, root
<1>8. StateAt(fresh, fresh.tip) = NoState
  BY <1>1, <1>3 DEF StateAt, RunAt
<1> HIDE DEF fresh
<1>6. CASE file = NoFile
  <2>1. DOMAIN file.nodes = {} /\ Len(file.nodes) = 0
    BY <1>6, NoFileIs
  <2> QED BY <1>1, <1>3, <1>4, <1>5, <1>6, <1>8, <2>1 DEF Grows
<1>7. CASE file # NoFile
  <2>1. Len(file.nodes) \in Nat /\ file.tip \in Nat
    BY DEF FileOK, Files
  <2> QED BY <1>3, <1>4, <1>5, <1>7, <1>8, <2>1 DEF Grows, FileOK
<1> QED BY <1>6, <1>7

\* A save adds messages or a compression, and a run node for what is saved.
LEMMA AppendedIs ==
  ASSUME NEW file, FileOK(file), NEW n \in 0 .. Len(file.nodes), NEW text \in Texts, NEW task \in Nat
  PROVE  LET more == Appended(file, n, text, task) IN
         /\ more \in Seq(Nodes) /\ Len(more) \in Nat \ {0}
         /\ more[Len(more)].kind = "run" /\ more[Len(more)].run = task /\ more[Len(more)].text = text
         /\ \A i \in 1 .. Len(more) - 1 : more[i].kind # "run"
<1> DEFINE stored == TextAt(file, n)
           size == Len(file.nodes)
           many == IF Begins(text, stored) THEN Len(text) - Len(stored) ELSE 0
           run == RunAt(file, n)
           spoken == [i \in 1 .. many |->
                        NodeOf(IF i = 1 THEN n ELSE size + i - 1,
                               SubSeq(text, 1, Len(stored) + i), "message", run)]
           rewritten == IF Begins(text, stored) THEN <<>> ELSE <<NodeOf(n, text, "compression", run)>>
           added == spoken \o rewritten
           below == IF added = <<>> THEN n ELSE size + Len(added)
           last == NodeOf(below, text, "run", task)
<1>1. stored \in Seq(Int) /\ text \in Seq(Int) /\ run \in Nat /\ size \in Nat /\ n \in Nat
  BY StateIs DEF Texts, FileOK, Files
<1>2. many \in Nat /\ (many # 0 => Len(stored) + many = Len(text))
  BY <1>1 DEF Begins
<1>3. \A i \in 1 .. many : spoken[i] \in Nodes /\ spoken[i].kind # "run"
  <2> SUFFICES ASSUME NEW i \in 1 .. many PROVE spoken[i] \in Nodes /\ spoken[i].kind # "run"
    OBVIOUS
  <2> DEFINE up == IF i = 1 THEN n ELSE size + i - 1
             said == SubSeq(text, 1, Len(stored) + i)
  <2>1. up \in Nat
    BY <1>1, <1>2
  <2>2. said \in Texts
    <3>1. Len(stored) + i \in 1 .. Len(text)
      BY <1>1, <1>2
    <3> QED BY <1>1, <3>1, SubSeqProperties DEF Texts
  <2>3. spoken[i] = NodeOf(up, said, "message", run)
    OBVIOUS
  <2> HIDE DEF up, said, run, spoken
  <2> QED BY <1>1, <2>1, <2>2, <2>3 DEF NodeOf, Nodes, NodeKinds
<1>4. spoken \in Seq(Nodes) /\ Len(spoken) = many
  <2> HIDE DEF many
  <2>1. DOMAIN spoken = 1 .. many
    OBVIOUS
  <2>2. spoken \in [1 .. many -> Nodes]
    <3> HIDE DEF stored, size, run
    <3> QED BY <1>3
  <2> HIDE DEF spoken
  <2> QED BY <1>2, <2>1, <2>2, SeqDef
<1>5. /\ rewritten \in Seq(Nodes) /\ Len(rewritten) \in Nat
      /\ \A i \in DOMAIN rewritten : rewritten[i].kind # "run"
  <2>1. NodeOf(n, text, "compression", run) \in Nodes /\ NodeOf(n, text, "compression", run).kind = "compression"
    <3> HIDE DEF run
    <3> QED BY <1>1 DEF NodeOf, Nodes, NodeKinds, Texts
  <2> HIDE DEF run, stored
  <2> QED BY <2>1
<1> HIDE DEF spoken, rewritten
<1>6. /\ added \in Seq(Nodes) /\ Len(added) \in Nat
      /\ \A i \in 1 .. Len(added) : added[i].kind # "run"
  <2>1. /\ added \in Seq(Nodes) /\ Len(added) = Len(spoken) + Len(rewritten)
        /\ \A i \in 1 .. Len(spoken) + Len(rewritten) :
             added[i] = IF i <= Len(spoken) THEN spoken[i] ELSE rewritten[i - Len(spoken)]
    BY <1>4, <1>5, ConcatProperties
  <2>3. DOMAIN rewritten = 1 .. Len(rewritten) /\ Len(spoken) = many
    BY <1>4, <1>5
  <2> HIDE DEF many, added
  <2>4. ASSUME NEW i \in 1 .. Len(added) PROVE added[i].kind # "run"
    <3>1. CASE i <= Len(spoken)
      <4>1. i \in 1 .. many /\ added[i] = spoken[i]
        BY <1>2, <1>5, <2>1, <2>3, <2>4, <3>1
      <4> QED BY <1>3, <4>1
    <3>2. CASE ~(i <= Len(spoken))
      <4>1. i - Len(spoken) \in DOMAIN rewritten /\ added[i] = rewritten[i - Len(spoken)]
        BY <1>2, <1>5, <2>1, <2>3, <2>4, <3>2
      <4> QED BY <1>5, <4>1
    <3> QED BY <3>1, <3>2
  <2>5. Len(added) \in Nat
    BY <2>1
  <2> QED BY <2>1, <2>4, <2>5
<1> HIDE DEF added
<1>7. last \in Nodes /\ last.kind = "run" /\ last.run = task /\ last.text = text
  <2>1. below \in Nat
    BY <1>1, <1>6
  <2> HIDE DEF below
  <2> QED BY <2>1 DEF NodeOf, Nodes, NodeKinds
<1>8. Appended(file, n, text, task) = added \o <<last>>
  BY DEF Appended, added, spoken, rewritten, NodeOf
<1> HIDE DEF last
<1>9. /\ added \o <<last>> \in Seq(Nodes) /\ Len(added \o <<last>>) = Len(added) + 1
      /\ (added \o <<last>>)[Len(added) + 1] = last
      /\ \A i \in 1 .. Len(added) : (added \o <<last>>)[i] = added[i]
  BY <1>6, <1>7
<1> QED BY <1>6, <1>7, <1>8, <1>9

LEMMA FiledIs ==
  ASSUME NEW file, FileOK(file), NEW text \in Texts, NEW task \in Nat
  PROVE  LET new == Filed(file, text, task)
             n == Len(new.nodes) IN
         /\ Grows(file, new) /\ Len(file.nodes) < n /\ new.tip = n /\ n \in Nat \ {0}
         /\ new.nodes[n].kind = "run" /\ new.nodes[n].run = task /\ new.nodes[n].text = text
         /\ \A i \in DOMAIN new.nodes \ DOMAIN file.nodes : i = n \/ new.nodes[i].kind # "run"
<1>1. PICK old : old = Opened(file)
  OBVIOUS
<1>2. /\ Grows(file, old) /\ old.tip \in 0 .. Len(old.nodes) /\ FileOK(old)
      /\ \A i \in DOMAIN old.nodes \ DOMAIN file.nodes : old.nodes[i].kind = "root"
  BY <1>1, OpenedIs DEF Grows
<1>3. PICK more : more = Appended(old, old.tip, text, task)
  OBVIOUS
<1>4. /\ more \in Seq(Nodes) /\ Len(more) \in Nat \ {0}
      /\ more[Len(more)].kind = "run" /\ more[Len(more)].run = task /\ more[Len(more)].text = text
      /\ \A i \in 1 .. Len(more) - 1 : more[i].kind # "run"
  BY <1>2, <1>3, AppendedIs
<1>5. PICK nodes : nodes = old.nodes \o more
  OBVIOUS
<1>6. old.nodes \in Seq(Nodes) /\ Len(old.nodes) \in Nat /\ file.nodes \in Seq(Nodes) /\ Len(file.nodes) \in Nat
      /\ DOMAIN file.nodes = 1 .. Len(file.nodes) /\ Len(file.nodes) <= Len(old.nodes)
  BY <1>2 DEF FileOK, Files, Grows
<1>7. /\ nodes \in Seq(Nodes) /\ Len(nodes) = Len(old.nodes) + Len(more)
      /\ \A i \in 1 .. Len(old.nodes) : nodes[i] = old.nodes[i]
      /\ \A i \in 1 .. Len(more) : nodes[Len(old.nodes) + i] = more[i]
      /\ DOMAIN nodes = 1 .. Len(nodes) /\ DOMAIN old.nodes = 1 .. Len(old.nodes)
  BY <1>4, <1>5, <1>6, ConcatProperties
<1>8. Filed(file, text, task) = [nodes |-> nodes, tip |-> Len(nodes)]
  BY <1>1, <1>3, <1>5 DEF Filed
<1>9. PICK new : new = Filed(file, text, task)
  OBVIOUS
<1>10. new.nodes = nodes /\ new.tip = Len(nodes) /\ new \in Files /\ Len(nodes) \in Nat \ {0}
  BY <1>4, <1>6, <1>7, <1>8, <1>9 DEF Files
<1>11. nodes[Len(nodes)] = more[Len(more)]
  <2>1. Len(more) \in 1 .. Len(more)
    BY <1>4
  <2>2. nodes[Len(old.nodes) + Len(more)] = more[Len(more)]
    BY <1>7, <2>1
  <2> QED BY <1>7, <2>2
<1>12. Grows(file, new)
  <2>1. FileOK(new) /\ Len(file.nodes) <= Len(nodes)
    BY <1>4, <1>6, <1>7, <1>10 DEF FileOK
  <2>2. ASSUME NEW i \in DOMAIN file.nodes PROVE nodes[i] = file.nodes[i]
    <3>1. i \in 1 .. Len(old.nodes)
      BY <1>6
    <3> QED BY <1>2, <1>7, <3>1 DEF Grows
  <2> QED BY <1>10, <2>1, <2>2 DEF Grows
<1>13. ASSUME NEW i \in DOMAIN nodes \ DOMAIN file.nodes, i # Len(nodes) PROVE nodes[i].kind # "run"
  <2>1. CASE i \in 1 .. Len(old.nodes)
    BY <1>2, <1>7, <1>13, <2>1
  <2>2. CASE i \notin 1 .. Len(old.nodes)
    <3>1. PICK j : j = i - Len(old.nodes)
      OBVIOUS
    <3>2. i \in 1 .. Len(nodes) /\ i \in Nat
      BY <1>7, <1>13
    <3>3. j \in 1 .. Len(more) - 1 /\ i = Len(old.nodes) + j /\ j \in 1 .. Len(more)
      BY <1>4, <1>6, <1>7, <1>13, <2>2, <3>1, <3>2
    <3>4. nodes[i] = more[j]
      BY <1>7, <3>3
    <3> QED BY <1>4, <3>3, <3>4
  <2> QED BY <2>1, <2>2
<1>14. PICK n : n = Len(nodes)
  OBVIOUS
<1>15. /\ Len(file.nodes) < n /\ new.tip = n /\ n \in Nat \ {0} /\ n = Len(new.nodes)
       /\ new.nodes[n].kind = "run" /\ new.nodes[n].run = task /\ new.nodes[n].text = text
  BY <1>4, <1>6, <1>7, <1>10, <1>11, <1>14
<1>16. \A i \in DOMAIN new.nodes \ DOMAIN file.nodes : i = n \/ new.nodes[i].kind # "run"
  BY <1>10, <1>13, <1>14
<1> QED BY <1>9, <1>12, <1>15, <1>16

----
(***************************************************************************)
(* The command line                                                        *)
(***************************************************************************)
ChatTypes ==
  /\ shelf \in [SessionNames -> Files] /\ \A s \in SessionNames : FileOK(shelf[s])
  /\ pointer \in SessionNames
  /\ book \in Seq(Records)
  /\ seat \in [Terminals -> Seats]
  /\ leftBy \in Seq(Texts) /\ Len(leftBy) = Len(book)

\* A loop holds what the node it saw last stands for.
SeatOK(here) ==
  /\ here.at = "prompt" =>
       /\ here.session \in SessionNames
       /\ here.sight[2] \in 0 .. Len(shelf[here.session].nodes)
       /\ here.held = StateAt(shelf[here.session], here.sight[2])
  /\ here.at = "running" => here.run \in DOMAIN book /\ (here.loop => here.session \in SessionNames)

\* What was left by a run is in the last of its nodes in its session's file.
LeftInv ==
  \A r \in DOMAIN leftBy : leftBy[r] # Unsaved =>
    book[r].session \in SessionNames /\ LastRunHas(shelf[book[r].session], r, leftBy[r])

ChatInv == ChatTypes /\ (\A t \in Terminals : SeatOK(seat[t])) /\ LeftInv

\* Whatever is done, files grow and records stay.
NothingGone ==
  /\ \A s \in SessionNames : Grows(shelf[s], shelf'[s])
  /\ DOMAIN book \subseteq DOMAIN book'

LEMMA SeatKept ==
  ASSUME ChatInv, NothingGone, NEW t \in Terminals, NEW here, here = seat[t]
  PROVE  SeatOK(here)'
<1>1. SeatOK(here) /\ here \in Seats /\ \A s \in SessionNames : FileOK(shelf[s])
  BY DEF ChatInv, ChatTypes
<1>2. CASE here.at = "prompt"
  <2>1. /\ here.session \in SessionNames /\ here.sight[2] \in 0 .. Len(shelf[here.session].nodes)
        /\ here.held = StateAt(shelf[here.session], here.sight[2])
    BY <1>1, <1>2 DEF SeatOK
  <2>2. /\ here.sight[2] \in 0 .. Len(shelf'[here.session].nodes)
        /\ StateAt(shelf'[here.session], here.sight[2]) = StateAt(shelf[here.session], here.sight[2])
    BY <1>1, <2>1, StateKept DEF NothingGone
  <2> QED BY <1>2, <2>1, <2>2 DEF SeatOK, StateAt, TextAt, RunAt
<1>3. CASE here.at # "prompt"
  BY <1>1, <1>3 DEF SeatOK, NothingGone
<1> QED BY <1>2, <1>3

\* A step that changes one seat.
LEMMA OneSeat ==
  ASSUME ChatInv, NothingGone, NEW t \in Terminals, NEW new \in Seats, seat' = [seat EXCEPT ![t] = new],
         SeatOK(new)'
  PROVE  seat' \in [Terminals -> Seats] /\ \A u \in Terminals : SeatOK(seat[u])'
<1>1. seat \in [Terminals -> Seats]
  BY DEF ChatInv, ChatTypes
<1>2. seat' \in [Terminals -> Seats] /\ seat'[t] = new /\ \A u \in Terminals \ {t} : seat'[u] = seat[u]
  BY <1>1
<1>3. ASSUME NEW u \in Terminals, u # t PROVE SeatOK(seat[u])'
  <2>1. PICK here : here = seat[u]
    OBVIOUS
  <2>2. SeatOK(here)'
    BY <2>1, SeatKept
  <2>3. seat'[u] = here
    BY <1>2, <1>3, <2>1
  <2> QED BY <2>2, <2>3
<1> QED BY <1>2, <1>3

LEMMA PromptingIs ==
  ASSUME NEW s \in SessionNames, NEW state \in States, NEW file, FileOK(file)
  PROVE  /\ Prompting(s, state, file) \in Seats
         /\ Prompting(s, state, file).at = "prompt" /\ Prompting(s, state, file).session = s
         /\ Prompting(s, state, file).held = state /\ Prompting(s, state, file).sight[2] = file.tip
BY DEF Prompting, Sight, FileOK, Files, Seats, NoRun

LEMMA ShellIs == Shell \in Seats /\ Shell.at = "shell"
BY NoFileIs DEF Shell, Seats, NoRun

\* Opening a session and moving its head disturb nothing that was saved.
LEMMA LeftKept ==
  ASSUME ChatInv, NEW s \in SessionNames, NEW new, shelf' = [shelf EXCEPT ![s] = new],
         Grows(shelf[s], new), UNCHANGED <<book, leftBy>>,
         \A n \in DOMAIN new.nodes \ DOMAIN shelf[s].nodes : new.nodes[n].kind = "root"
  PROVE  /\ NothingGone /\ LeftInv' /\ shelf'[s] = new
         /\ shelf' \in [SessionNames -> Files] /\ \A x \in SessionNames : FileOK(shelf'[x])
<1>1. /\ shelf \in [SessionNames -> Files] /\ (\A x \in SessionNames : FileOK(shelf[x])) /\ LeftInv
      /\ leftBy \in Seq(Texts) /\ book \in Seq(Records)
  BY DEF ChatInv, ChatTypes
<1>2. FileOK(new) /\ new \in Files
  BY DEF Grows, FileOK
<1>3. /\ shelf' \in [SessionNames -> Files] /\ shelf'[s] = new
      /\ \A x \in SessionNames \ {s} : shelf'[x] = shelf[x]
  BY <1>1, <1>2
<1>4. ASSUME NEW x \in SessionNames PROVE Grows(shelf[x], shelf'[x])
  <2>1. CASE x = s
    BY <1>3, <2>1
  <2>2. CASE x # s
    <3>1. FileOK(shelf[x]) /\ shelf'[x] = shelf[x]
      BY <1>1, <1>3, <2>2
    <3>2. Len(shelf[x].nodes) \in Nat
      BY <3>1 DEF FileOK, Files
    <3> QED BY <3>1, <3>2 DEF Grows
  <2> QED BY <2>1, <2>2
<1>5. LeftInv'
  <2> SUFFICES ASSUME NEW r \in DOMAIN leftBy, leftBy[r] # Unsaved
               PROVE  book[r].session \in SessionNames /\ LastRunHas(shelf'[book[r].session], r, leftBy[r])
    <3>1. DOMAIN leftBy' = DOMAIN leftBy /\ \A r \in DOMAIN leftBy : leftBy'[r] = leftBy[r]
      OBVIOUS
    <3>2. \A r \in DOMAIN leftBy : book'[r].session = book[r].session
      OBVIOUS
    <3> QED BY <3>1, <3>2 DEF LeftInv, LastRunHas, RunNodesOf
  <2>1. book[r].session \in SessionNames /\ LastRunHas(shelf[book[r].session], r, leftBy[r])
    BY <1>1 DEF LeftInv
  <2>2. CASE book[r].session = s
    BY <1>1, <1>3, <1>4, <2>1, <2>2, RunKept
  <2>3. CASE book[r].session # s
    BY <1>3, <2>1, <2>3
  <2> QED BY <2>1, <2>2, <2>3
<1> QED BY <1>2, <1>3, <1>4, <1>5 DEF NothingGone, Grows

\* A save: the file grows by a run node for what is saved.
LEMMA SaveKeeps ==
  ASSUME ChatInv, NEW s \in SessionNames, NEW text \in Texts, NEW task \in Nat, Saves(s, text, task, book),
         book' \in Seq(Records), Len(book') = Len(book),
         \A r \in DOMAIN book : book'[r].session = book[r].session
  PROVE  /\ NothingGone /\ LeftInv' /\ leftBy' \in Seq(Texts) /\ Len(leftBy') = Len(book')
         /\ shelf' \in [SessionNames -> Files] /\ \A x \in SessionNames : FileOK(shelf'[x])
         /\ shelf'[s].tip \in 0 .. Len(shelf'[s].nodes)
         /\ task # NoRun => StateAt(shelf'[s], shelf'[s].tip) = [text |-> text, task |-> task]
<1>1. /\ shelf \in [SessionNames -> Files] /\ (\A x \in SessionNames : FileOK(shelf[x])) /\ LeftInv
      /\ leftBy \in Seq(Texts) /\ Len(leftBy) = Len(book) /\ book \in Seq(Records)
  BY DEF ChatInv, ChatTypes
<1>2. PICK new, n : new = Filed(shelf[s], text, task) /\ n = Len(new.nodes)
  OBVIOUS
<1>3. /\ Grows(shelf[s], new) /\ new.tip = n /\ n \in Nat \ {0} /\ Len(shelf[s].nodes) < n
      /\ new.nodes[n].kind = "run" /\ new.nodes[n].run = task /\ new.nodes[n].text = text
      /\ \A i \in DOMAIN new.nodes \ DOMAIN shelf[s].nodes : i = n \/ new.nodes[i].kind # "run"
  BY <1>1, <1>2, FiledIs
<1>4. FileOK(new) /\ new \in Files /\ new.nodes \in Seq(Nodes) /\ DOMAIN new.nodes = 1 .. n
  BY <1>2, <1>3 DEF Grows, FileOK, Files
<1>5. /\ shelf' = [shelf EXCEPT ![s] = new]
      /\ leftBy' = IF task \in DOMAIN book /\ book[task].session = s
                   THEN [r \in DOMAIN book |-> IF r = task THEN text ELSE leftBy[r]] ELSE leftBy
  BY <1>2 DEF Saves
<1>6. /\ shelf' \in [SessionNames -> Files] /\ shelf'[s] = new
      /\ \A x \in SessionNames \ {s} : shelf'[x] = shelf[x]
  BY <1>1, <1>4, <1>5
<1>7. \A x \in SessionNames : Grows(shelf[x], shelf'[x])
  <2>1. \A x \in SessionNames : Len(shelf[x].nodes) \in Nat
    BY <1>1 DEF FileOK, Files
  <2> QED BY <1>1, <1>3, <1>6, <2>1 DEF Grows
<1>8. NothingGone /\ DOMAIN book' = DOMAIN book /\ DOMAIN book = DOMAIN leftBy
  BY <1>1, <1>7 DEF NothingGone
<1>9. /\ leftBy' \in Seq(Texts) /\ Len(leftBy') = Len(book') /\ DOMAIN leftBy' = DOMAIN book
      /\ \A r \in DOMAIN book :
           leftBy'[r] = IF r = task /\ book[r].session = s THEN text ELSE leftBy[r]
  <2>1. CASE task \in DOMAIN book /\ book[task].session = s
    <3>1. leftBy' = [r \in DOMAIN book |-> IF r = task THEN text ELSE leftBy[r]]
      BY <1>5, <2>1
    <3>2. DOMAIN book = 1 .. Len(book) /\ Len(book) \in Nat
      BY <1>1
    <3>3. \A r \in 1 .. Len(book) : (IF r = task THEN text ELSE leftBy[r]) \in Texts
      BY <1>1, <3>2
    <3>4. leftBy' \in [1 .. Len(book) -> Texts]
      BY <3>1, <3>2, <3>3
    <3>5. leftBy' \in Seq(Texts) /\ Len(leftBy') = Len(book)
      BY <3>2, <3>4, SeqDef
    <3> QED BY <2>1, <3>1, <3>5
  <2>2. CASE ~(task \in DOMAIN book /\ book[task].session = s)
    BY <1>1, <1>5, <1>8, <2>2
  <2> QED BY <2>1, <2>2
<1>10. LeftInv'
  <2> SUFFICES ASSUME NEW r \in DOMAIN book, leftBy'[r] # Unsaved
               PROVE  book[r].session \in SessionNames /\ LastRunHas(shelf'[book[r].session], r, leftBy'[r])
    <3>1. DOMAIN leftBy' = DOMAIN book /\ \A r \in DOMAIN book : book'[r].session = book[r].session
      BY <1>9
    <3> QED BY <3>1 DEF LeftInv, LastRunHas, RunNodesOf
  <2>1. CASE r = task /\ book[r].session = s
    <3>1. n \in RunNodesOf(new, r) /\ \A other \in RunNodesOf(new, r) : other <= n
      BY <1>3, <1>4, <2>1 DEF RunNodesOf
    <3>2. LastRunHas(new, r, text)
      BY <1>3, <3>1 DEF LastRunHas
    <3> QED BY <1>6, <1>9, <2>1, <3>2
  <2>2. CASE ~(r = task /\ book[r].session = s)
    <3>1. leftBy'[r] = leftBy[r] /\ r \in DOMAIN leftBy
      BY <1>8, <1>9, <2>2
    <3>2. book[r].session \in SessionNames /\ LastRunHas(shelf[book[r].session], r, leftBy[r])
      BY <1>1, <3>1 DEF LeftInv
    <3>3. CASE book[r].session = s
      <4>1. \A i \in DOMAIN new.nodes \ DOMAIN shelf[s].nodes : ~(new.nodes[i].kind = "run" /\ new.nodes[i].run = r)
        BY <1>3, <2>2, <3>3
      <4> QED BY <1>1, <1>3, <1>6, <3>1, <3>2, <3>3, <4>1, RunKept
    <3>4. CASE book[r].session # s
      BY <1>6, <3>1, <3>2, <3>4
    <3> QED BY <3>2, <3>3, <3>4
  <2> QED BY <2>1, <2>2
<1>11. new.tip \in 0 .. Len(new.nodes)
  BY <1>2, <1>3
<1>12. task # NoRun => StateAt(new, new.tip) = [text |-> text, task |-> task]
  BY <1>3 DEF StateAt, RunAt, TextAt
<1>13. \A x \in SessionNames : FileOK(shelf'[x])
  BY <1>7 DEF Grows
<1> QED BY <1>6, <1>8, <1>9, <1>10, <1>11, <1>12, <1>13

----
(***************************************************************************)
(* Its steps                                                               *)
(***************************************************************************)
\* A step that starts a run.
LEMMA StartKeeps ==
  ASSUME ChatInv, NEW t \in Terminals, NEW loop \in BOOLEAN, NEW s \in SessionNames \union {NoSession},
         NEW previous \in States, NEW again \in BOOLEAN, Starts(t, loop, s, previous, again),
         loop => s \in SessionNames
  PROVE  /\ ChatInv'
         /\ DOMAIN book' \ DOMAIN book = {Len(book')}
         /\ book'[Len(book')].again = again /\ book'[Len(book')].parent = previous.task
         /\ book'[Len(book')].began = previous.text
<1>1. /\ shelf \in [SessionNames -> Files] /\ (\A x \in SessionNames : FileOK(shelf[x])) /\ LeftInv
      /\ leftBy \in Seq(Texts) /\ Len(leftBy) = Len(book) /\ book \in Seq(Records)
      /\ seat[t] \in Seats /\ pointer \in SessionNames
  BY DEF ChatInv, ChatTypes
<1>2. PICK record, n : record = Carried(s, previous, again) /\ n = Len(book) + 1
  OBVIOUS
<1>3. /\ record \in Records /\ record.again = again /\ record.parent = previous.task
      /\ record.began = previous.text
  BY <1>2 DEF Carried, Records, Statuses, States
<1>4. /\ book' = Append(book, record) /\ leftBy' = Append(leftBy, Unsaved) /\ UNCHANGED <<shelf, pointer>>
      /\ seat' = [seat EXCEPT ![t] =
                    [@ EXCEPT !.at = "running", !.loop = loop, !.session = s,
                              !.held = previous, !.run = Len(book')]]
  BY <1>2 DEF Starts
<1>5. /\ book' \in Seq(Records) /\ Len(book') = n /\ n \in Nat \ {0} /\ book'[n] = record
      /\ DOMAIN book = 1 .. n - 1 /\ DOMAIN book' = 1 .. n
      /\ \A r \in DOMAIN book : book'[r] = book[r]
  BY <1>1, <1>2, <1>3, <1>4
<1>6. Unsaved \in Texts
  BY DEF Unsaved, Texts
<1>7. /\ leftBy' \in Seq(Texts) /\ Len(leftBy') = n /\ leftBy'[n] = Unsaved
      /\ DOMAIN leftBy = DOMAIN book /\ DOMAIN leftBy' = 1 .. n
      /\ \A r \in DOMAIN book : leftBy'[r] = leftBy[r]
  BY <1>1, <1>2, <1>4, <1>6
<1>8. PICK new : new = [seat[t] EXCEPT !.at = "running", !.loop = loop, !.session = s,
                                       !.held = previous, !.run = n]
  OBVIOUS
<1>9. new \in Seats /\ new.at = "running" /\ new.run = n /\ new.loop = loop /\ new.session = s
  BY <1>1, <1>5, <1>8 DEF Seats
<1>10. seat' = [seat EXCEPT ![t] = new]
  BY <1>4, <1>5, <1>8
<1>11. NothingGone
  BY <1>1, <1>4, <1>5 DEF NothingGone, Grows, FileOK, Files
<1>12. SeatOK(new)'
  BY <1>5, <1>9 DEF SeatOK
<1>13. seat' \in [Terminals -> Seats] /\ \A u \in Terminals : SeatOK(seat[u])'
  BY <1>9, <1>10, <1>11, <1>12, OneSeat
<1>14. LeftInv'
  <2> SUFFICES ASSUME NEW r \in 1 .. n, leftBy'[r] # Unsaved
               PROVE  book'[r].session \in SessionNames /\ LastRunHas(shelf[book'[r].session], r, leftBy'[r])
    <3>1. shelf' = shelf /\ DOMAIN leftBy' = 1 .. n
      BY <1>4, <1>7
    <3> QED BY <3>1 DEF LeftInv, LastRunHas, RunNodesOf
  <2>1. r \in DOMAIN book
    BY <1>5, <1>7
  <2> QED BY <1>1, <1>5, <1>7, <2>1 DEF LeftInv
<1>15. DOMAIN book' \ DOMAIN book = {n}
  BY <1>5
<1> QED BY <1>1, <1>3, <1>4, <1>5, <1>7, <1>13, <1>14, <1>15 DEF ChatInv, ChatTypes

\* What `retry` takes up.
LEMMA RunStateIs ==
  ASSUME ChatInv, NEW r \in DOMAIN book
  PROVE  /\ RunState(r) \in States /\ RunState(r).task = r
         /\ leftBy[r] # Unsaved => RunState(r).text = leftBy[r]
<1>1. /\ (\A x \in SessionNames : FileOK(shelf[x])) /\ LeftInv /\ book \in Seq(Records)
      /\ Len(leftBy) = Len(book) /\ leftBy \in Seq(Texts) /\ NoSession \notin SessionNames
  BY ChatAssumption DEF ChatInv, ChatTypes, ChatAssumption
<1>2. book[r] \in Records /\ r \in Nat \ {0} /\ r \in DOMAIN leftBy
  BY <1>1
<1>3. PICK s : s = book[r].session
  OBVIOUS
<1>4. s \in SessionNames \union {NoSession}
  BY <1>2, <1>3 DEF Records
<1>5. PICK nodes : nodes = IF s = NoSession THEN {} ELSE RunNodesOf(shelf[s], r)
  OBVIOUS
<1>6. RunState(r) = IF nodes = {} THEN [text |-> <<>>, task |-> r] ELSE StateAt(shelf[s], LastOf(nodes))
  BY <1>3, <1>5 DEF RunState
<1>7. CASE nodes = {}
  <2>1. leftBy[r] = Unsaved
    <3> SUFFICES ASSUME leftBy[r] # Unsaved PROVE FALSE
      OBVIOUS
    <3>1. s \in SessionNames /\ LastRunHas(shelf[s], r, leftBy[r])
      BY <1>1, <1>2, <1>3 DEF LeftInv
    <3> QED BY <1>1, <1>5, <1>7, <3>1 DEF LastRunHas
  <2> QED BY <1>2, <1>6, <1>7, <2>1, NoFileIs DEF States
<1>8. CASE nodes # {}
  <2>1. s \in SessionNames /\ nodes = RunNodesOf(shelf[s], r) /\ FileOK(shelf[s])
    BY <1>1, <1>4, <1>5, <1>8
  <2>2. shelf[s].nodes \in Seq(Nodes) /\ Len(shelf[s].nodes) \in Nat
    BY <2>1 DEF FileOK, Files
  <2>3. nodes \in SUBSET (0 .. Len(shelf[s].nodes))
    BY <2>1, <2>2 DEF RunNodesOf
  <2>4. \E n \in nodes : \A other \in nodes : other <= n
    BY <1>8, <2>2, <2>3, Greatest
  <2>5. LastOf(nodes) \in nodes /\ \A other \in nodes : other <= LastOf(nodes)
    BY <2>4 DEF LastOf
  <2>6. PICK last : last = LastOf(nodes)
    OBVIOUS
  <2>7. last \in DOMAIN shelf[s].nodes /\ last \in 1 .. Len(shelf[s].nodes) /\ shelf[s].nodes[last].run = r
    <3>1. last \in RunNodesOf(shelf[s], r)
      BY <2>1, <2>5, <2>6
    <3>2. last \in DOMAIN shelf[s].nodes /\ shelf[s].nodes[last].run = r
      BY <3>1 DEF RunNodesOf
    <3>3. DOMAIN shelf[s].nodes = 1 .. Len(shelf[s].nodes)
      BY <2>2
    <3> QED BY <3>2, <3>3
  <2>8. RunAt(shelf[s], last) = r /\ TextAt(shelf[s], last) = shelf[s].nodes[last].text
    BY <2>7 DEF RunAt, TextAt
  <2>9. /\ StateAt(shelf[s], last) \in States /\ StateAt(shelf[s], last).task = r
        /\ StateAt(shelf[s], last).text = shelf[s].nodes[last].text
    BY <1>2, <2>1, <2>7, <2>8, StateIs DEF NoRun
  <2>10. ASSUME leftBy[r] # Unsaved PROVE shelf[s].nodes[last].text = leftBy[r]
    <3>1. LastRunHas(shelf[s], r, leftBy[r])
      BY <1>1, <1>2, <1>3, <2>10 DEF LeftInv
    <3>2. PICK n \in nodes : (\A other \in nodes : other <= n) /\ shelf[s].nodes[n].text = leftBy[r]
      BY <2>1, <3>1 DEF LastRunHas
    <3>3. n \in Nat /\ last \in Nat /\ n <= last /\ last <= n
      <4>1. \A x \in nodes : x \in Nat
        BY <2>2, <2>3
      <4> QED BY <2>5, <2>6, <3>2, <4>1
    <3>4. n = last
      BY <3>3
    <3> QED BY <3>2, <3>4
  <2> QED BY <1>6, <1>8, <2>6, <2>9, <2>10
<1> QED BY <1>7, <1>8

LEMMA ChatInitially == ChatInit => ChatInv
<1> SUFFICES ASSUME ChatInit PROVE ChatInv
  OBVIOUS
<1>1. /\ shelf = [s \in SessionNames |-> NoFile] /\ pointer = Default /\ book = <<>>
      /\ seat = [t \in Terminals |-> Shell] /\ leftBy = <<>>
  BY DEF ChatInit
<1>2. book \in Seq(Records) /\ leftBy \in Seq(Texts) /\ Len(leftBy) = Len(book) /\ DOMAIN leftBy = {}
  BY <1>1
<1>3. \A t \in Terminals : SeatOK(seat[t])
  BY <1>1, ShellIs DEF SeatOK
<1>4. /\ shelf \in [SessionNames -> Files] /\ \A s \in SessionNames : FileOK(shelf[s])
      /\ seat \in [Terminals -> Seats]
  BY <1>1, NoFileIs, ShellIs DEF FileOK
<1> QED BY <1>1, <1>2, <1>3, <1>4, ChatAssumption DEF ChatInv, ChatTypes, LeftInv, ChatAssumption

\* The commands that save nothing.
LEMMA CommandKeeps ==
  ASSUME ChatInv, NEW t \in Terminals,
         OpenChat(t) \/ New(t) \/ SlashNew(t) \/ ExitLoop(t) \/ CutOff(t) \/ Branches(t)
  PROVE  ChatInv' /\ DOMAIN book' = DOMAIN book
<1>1. /\ shelf \in [SessionNames -> Files] /\ (\A x \in SessionNames : FileOK(shelf[x])) /\ LeftInv
      /\ leftBy \in Seq(Texts) /\ Len(leftBy) = Len(book) /\ book \in Seq(Records)
      /\ seat \in [Terminals -> Seats] /\ seat[t] \in Seats /\ SeatOK(seat[t]) /\ pointer \in SessionNames
      /\ \A u \in Terminals : SeatOK(seat[u])
  BY DEF ChatInv, ChatTypes
<1>2. /\ shelf' = shelf /\ DOMAIN book' = DOMAIN book => NothingGone
      /\ UNCHANGED <<shelf, book, leftBy>> => LeftInv'
  <2>1. \A x \in SessionNames : Grows(shelf[x], shelf[x])
    BY <1>1 DEF Grows, FileOK, Files
  <2>2. ASSUME UNCHANGED <<shelf, book, leftBy>> PROVE LeftInv'
    BY <1>1, <2>2 DEF LeftInv, LastRunHas, RunNodesOf
  <2> QED BY <2>1, <2>2 DEF NothingGone
<1>3. ASSUME NEW s \in SessionNames, NEW new, new = Opened(shelf[s]), shelf' = [shelf EXCEPT ![s] = new],
             seat' = [seat EXCEPT ![t] = Prompting(s, StateAt(new, new.tip), new)],
             pointer' = s, UNCHANGED <<book, leftBy>>
      PROVE  ChatInv'
  <2>1. /\ Grows(shelf[s], new) /\ new.tip \in 0 .. Len(new.nodes) /\ FileOK(new)
        /\ \A n \in DOMAIN new.nodes \ DOMAIN shelf[s].nodes : new.nodes[n].kind = "root"
    BY <1>1, <1>3, OpenedIs DEF Grows
  <2>2. /\ NothingGone /\ LeftInv' /\ shelf'[s] = new
        /\ shelf' \in [SessionNames -> Files] /\ \A x \in SessionNames : FileOK(shelf'[x])
    BY <1>3, <2>1, LeftKept
  <2>3. PICK state, here : state = StateAt(new, new.tip) /\ here = Prompting(s, state, new)
    OBVIOUS
  <2>4. state \in States
    BY <2>1, <2>3, StateIs
  <2>5. /\ here \in Seats /\ here.at = "prompt" /\ here.session = s /\ here.held = state
        /\ here.sight[2] = new.tip
    BY <2>1, <2>3, <2>4, PromptingIs
  <2>6. SeatOK(here)'
    BY <2>1, <2>2, <2>3, <2>5, ZenonT(30) DEF SeatOK, StateAt, TextAt, RunAt
  <2>7. seat' \in [Terminals -> Seats] /\ \A u \in Terminals : SeatOK(seat[u])'
    BY <1>3, <2>2, <2>3, <2>5, <2>6, OneSeat
  <2> QED BY <1>1, <1>3, <2>2, <2>7 DEF ChatInv, ChatTypes
<1>4. CASE OpenChat(t)
  <2>1. Resumable \subseteq SessionNames
    BY <1>1 DEF Resumable
  <2>2. PICK s \in SessionNames :
          /\ pointer' = s /\ shelf' = [shelf EXCEPT ![s] = Opened(shelf[s])]
          /\ seat' = [seat EXCEPT ![t] = Prompting(s, StateAt(Opened(shelf[s]), Opened(shelf[s]).tip), Opened(shelf[s]))]
    BY <1>4, <2>1 DEF OpenChat
  <2>3. UNCHANGED <<book, leftBy>>
    BY <1>4 DEF OpenChat
  <2> QED BY <1>3, <2>2, <2>3
<1>5. CASE New(t)
  <2>1. PICK s \in SessionNames :
          /\ shelf[s] = NoFile /\ pointer' = s /\ shelf' = [shelf EXCEPT ![s] = Opened(NoFile)]
          /\ seat' = [seat EXCEPT ![t] = Prompting(s, NoState, Opened(NoFile))]
    BY <1>5 DEF New, Free
  <2>2. NoState = StateAt(Opened(NoFile), Opened(NoFile).tip)
    BY NoFileIs, OpenedIs
  <2>3. UNCHANGED <<book, leftBy>>
    BY <1>5 DEF New
  <2> QED BY <1>3, <2>1, <2>2, <2>3
<1>6. CASE SlashNew(t)
  <2>1. PICK s \in SessionNames :
          pointer' = s /\ seat' = [seat EXCEPT ![t] = Prompting(s, NoState, NoFile)]
    BY <1>6 DEF SlashNew, Free, StateOfNew
  <2>2. UNCHANGED <<shelf, book, leftBy>>
    BY <1>6 DEF SlashNew
  <2>3. PICK here : here = Prompting(s, NoState, NoFile)
    OBVIOUS
  <2>4. here \in Seats /\ here.at = "prompt" /\ here.session = s /\ here.held = NoState /\ here.sight[2] = 0
    BY <2>3, NoFileIs, PromptingIs
  <2>5. Len(shelf[s].nodes) \in Nat
    BY <1>1 DEF FileOK, Files
  <2>6. SeatOK(here)'
    BY <2>2, <2>4, <2>5 DEF SeatOK, StateAt, RunAt
  <2>7. seat' \in [Terminals -> Seats] /\ \A u \in Terminals : SeatOK(seat[u])'
    BY <1>2, <2>1, <2>2, <2>3, <2>4, <2>6, OneSeat
  <2> QED BY <1>1, <1>2, <2>1, <2>2, <2>7 DEF ChatInv, ChatTypes
<1>7. CASE ExitLoop(t) \/ CutOff(t)
  <2>1. UNCHANGED <<shelf, pointer, leftBy>> /\ seat' = [seat EXCEPT ![t] = Shell]
    BY <1>7 DEF ExitLoop, CutOff
  <2>2. /\ book' \in Seq(Records) /\ Len(book') = Len(book) /\ DOMAIN book' = DOMAIN book
        /\ \A r \in DOMAIN book : book'[r].session = book[r].session
    <3>1. CASE ExitLoop(t)
      BY <1>1, <3>1 DEF ExitLoop
    <3>2. CASE CutOff(t)
      <4>1. seat[t].run \in DOMAIN book
        BY <1>1, <3>2 DEF CutOff, SeatOK
      <4>2. PICK q, new : q = seat[t].run /\ new = [book[q] EXCEPT !.status = "interrupted"]
        OBVIOUS
      <4>3. book[q] \in Records /\ q \in DOMAIN book
        BY <1>1, <4>1, <4>2
      <4>4. new \in Records /\ new.session = book[q].session
        BY <4>2, <4>3 DEF Records, Statuses
      <4>5. book' = [book EXCEPT ![q] = new]
        BY <3>2, <4>2, <4>3 DEF CutOff
      <4> QED BY <1>1, <4>3, <4>4, <4>5
    <3> QED BY <1>7, <3>1, <3>2
  <2>3. NothingGone
    BY <1>2, <2>1, <2>2
  <2>4. SeatOK(Shell)'
    BY ShellIs DEF SeatOK
  <2>5. seat' \in [Terminals -> Seats] /\ \A u \in Terminals : SeatOK(seat[u])'
    BY <2>1, <2>3, <2>4, ShellIs, OneSeat
  <2>6. LeftInv'
    <3>1. \A r \in DOMAIN leftBy : r \in DOMAIN book
      BY <1>1
    <3>2. \A r \in DOMAIN leftBy : book'[r].session = book[r].session
      BY <2>2, <3>1
    <3>3. shelf' = shelf /\ leftBy' = leftBy
      BY <2>1
    <3>4. ASSUME NEW r \in DOMAIN leftBy, leftBy[r] # Unsaved
          PROVE  book'[r].session \in SessionNames /\ LastRunHas(shelf[book'[r].session], r, leftBy[r])
      BY <1>1, <3>2, <3>4 DEF LeftInv
    <3> QED BY <3>3, <3>4 DEF LeftInv, LastRunHas, RunNodesOf
  <2> QED BY <1>1, <2>1, <2>2, <2>5, <2>6 DEF ChatInv, ChatTypes
<1>8. CASE Branches(t)
  <2>0. PICK s \in SessionNames : \E n \in DOMAIN shelf[s].nodes :
          shelf' = [shelf EXCEPT ![s].tip = n] /\ pointer' = s
    BY <1>8 DEF Branches
  <2>1. PICK n \in DOMAIN shelf[s].nodes : shelf' = [shelf EXCEPT ![s].tip = n] /\ pointer' = s
    BY <2>0
  <2>2. UNCHANGED <<book, seat, leftBy>>
    BY <1>8 DEF Branches
  <2>3. PICK new : new = [shelf[s] EXCEPT !.tip = n]
    OBVIOUS
  <2>4. shelf[s] \in Files /\ shelf[s].nodes \in Seq(Nodes)
    BY <1>1 DEF Files
  <2>5. new \in Files /\ new.nodes = shelf[s].nodes /\ new.tip = n /\ n \in 1 .. Len(shelf[s].nodes)
    BY <2>3, <2>4 DEF Files
  <2>6. shelf' = [shelf EXCEPT ![s] = new]
    BY <1>1, <2>1, <2>3
  <2>7. Grows(shelf[s], new)
    BY <2>4, <2>5 DEF Grows, FileOK
  <2>8. /\ NothingGone /\ LeftInv'
        /\ shelf' \in [SessionNames -> Files] /\ \A x \in SessionNames : FileOK(shelf'[x])
    BY <2>2, <2>5, <2>6, <2>7, LeftKept
  <2>9. \A u \in Terminals : SeatOK(seat[u])'
    <3> SUFFICES ASSUME NEW u \in Terminals, NEW here, here = seat[u] PROVE SeatOK(here)'
      BY <2>2
    <3> QED BY <2>8, SeatKept
  <2> QED BY <1>1, <2>1, <2>2, <2>8, <2>9 DEF ChatInv, ChatTypes
<1>9. DOMAIN book' = DOMAIN book
  <2>1. CASE CutOff(t)
    BY <1>1, <2>1 DEF CutOff
  <2> QED BY <2>1 DEF OpenChat, New, SlashNew, ExitLoop, Branches
<1> QED BY <1>4, <1>5, <1>6, <1>7, <1>8, <1>9

LEMMA CompactedIs == \A text \in Texts : Compacted(text) \in Texts
<1> SUFFICES ASSUME NEW text \in Texts PROVE Compacted(text) \in Texts
  OBVIOUS
<1>1. CASE Len(text) < 2 \/ (Len(text) = 2 /\ text[1] = Summary)
  BY <1>1 DEF Compacted
<1>2. CASE ~(Len(text) < 2 \/ (Len(text) = 2 /\ text[1] = Summary))
  <2>1. text[Len(text)] \in Int
    BY <1>2 DEF Texts
  <2> QED BY <1>2, <2>1 DEF Compacted, Texts, Summary
<1> QED BY <1>1, <1>2

\* The commands that save.
LEMMA SavingKeeps ==
  ASSUME ChatInv, NEW t \in Terminals, SlashCompact(t) \/ EndAndSave(t) \/ Forks(t)
  PROVE  ChatInv' /\ DOMAIN book' = DOMAIN book
<1>1. /\ shelf \in [SessionNames -> Files] /\ (\A x \in SessionNames : FileOK(shelf[x])) /\ LeftInv
      /\ leftBy \in Seq(Texts) /\ Len(leftBy) = Len(book) /\ book \in Seq(Records)
      /\ seat \in [Terminals -> Seats] /\ pointer \in SessionNames
      /\ \A u \in Terminals : SeatOK(seat[u])
  BY DEF ChatInv, ChatTypes
<1>2. PICK here : here = seat[t]
  OBVIOUS
<1>3. here \in Seats /\ SeatOK(here) /\ here.held \in States /\ here.held.text \in Texts /\ here.held.task \in Nat
  BY <1>1, <1>2 DEF Seats, States
\* The loop goes on with what it has saved.
<1>4. ASSUME NEW s \in SessionNames, NEW text \in Texts, NEW task \in Nat \ {0}, Saves(s, text, task, book),
             book' \in Seq(Records), Len(book') = Len(book),
             \A r \in DOMAIN book : book'[r].session = book[r].session,
             \/ seat' = [seat EXCEPT ![t] = Prompting(s, [text |-> text, task |-> task], shelf'[s])]
             \/ seat' = [seat EXCEPT ![t] = Shell],
             pointer' = pointer
      PROVE  ChatInv'
  <2>1. /\ NothingGone /\ LeftInv' /\ leftBy' \in Seq(Texts) /\ Len(leftBy') = Len(book')
        /\ shelf' \in [SessionNames -> Files] /\ \A x \in SessionNames : FileOK(shelf'[x])
        /\ shelf'[s].tip \in 0 .. Len(shelf'[s].nodes)
        /\ StateAt(shelf'[s], shelf'[s].tip) = [text |-> text, task |-> task]
    BY <1>4, SaveKeeps DEF NoRun
  <2>2. PICK state, file : state = [text |-> text, task |-> task] /\ file = shelf'[s]
    OBVIOUS
  <2>3. state \in States /\ FileOK(file)
    BY <2>1, <2>2 DEF States
  <2>4. PICK new \in {Prompting(s, state, file), Shell} : seat' = [seat EXCEPT ![t] = new]
    BY <1>4, <2>2
  <2>5. new \in Seats /\ SeatOK(new)'
    <3>1. CASE new = Prompting(s, state, file)
      <4>1. /\ new \in Seats /\ new.at = "prompt" /\ new.session = s /\ new.held = state
            /\ new.sight[2] = file.tip
        BY <2>3, <3>1, PromptingIs
      <4> QED BY <2>1, <2>2, <4>1 DEF SeatOK, StateAt, TextAt, RunAt
    <3>2. CASE new = Shell
      BY <3>2, ShellIs DEF SeatOK
    <3> QED BY <2>4, <3>1, <3>2
  <2>6. seat' \in [Terminals -> Seats] /\ \A u \in Terminals : SeatOK(seat[u])'
    BY <2>1, <2>4, <2>5, OneSeat
  <2> QED BY <1>1, <1>4, <2>1, <2>6 DEF ChatInv, ChatTypes
<1>5. CASE SlashCompact(t)
  <2>1. PICK text : text = Compacted(here.held.text)
    OBVIOUS
  <2>2. /\ here.at = "prompt" /\ here.held # NoState /\ Saves(here.session, text, here.held.task, book)
        /\ seat' = [seat EXCEPT ![t] = Prompting(here.session, [here.held EXCEPT !.text = text],
                                                 shelf'[here.session])]
        /\ UNCHANGED <<pointer, book>>
    BY <1>2, <1>5, <2>1 DEF SlashCompact
  <2>3. text \in Texts
    BY <1>3, <2>1, CompactedIs
  <2>4. here.session \in SessionNames /\ here.held.task # 0
    <3>1. /\ here.session \in SessionNames /\ here.sight[2] \in 0 .. Len(shelf[here.session].nodes)
          /\ here.held = StateAt(shelf[here.session], here.sight[2])
      BY <1>3, <2>2 DEF SeatOK
    <3> QED BY <1>1, <2>2, <3>1, StateIs DEF NoRun
  <2>5. [here.held EXCEPT !.text = text] = [text |-> text, task |-> here.held.task]
    BY <1>3 DEF States
  <2> QED BY <1>1, <1>3, <1>4, <2>2, <2>3, <2>4, <2>5
<1>6. CASE EndAndSave(t)
  <2>1. PICK how \in Outcome, text \in {here.held.text, Append(here.held.text, here.run)} :
          /\ here.at = "running"
          /\ book' = [book EXCEPT ![here.run].status = how]
          /\ IF here.session = NoSession THEN UNCHANGED <<shelf, leftBy>>
             ELSE Saves(here.session, text, here.run, book)
          /\ seat' = [seat EXCEPT ![t] =
                        IF here.loop
                        THEN Prompting(here.session, [text |-> text, task |-> here.run],
                                       shelf'[here.session])
                        ELSE Shell]
          /\ UNCHANGED pointer
    BY <1>2, <1>6 DEF EndAndSave
  <2>2. here.run \in DOMAIN book /\ (here.loop => here.session \in SessionNames)
    BY <1>3, <2>1 DEF SeatOK
  <2>3. here.run \in Nat \ {0} /\ text \in Texts
    <3>1. here.run \in Nat \ {0}
      BY <1>1, <2>2
    <3>2. Append(here.held.text, here.run) \in Texts
      BY <1>3, <3>1 DEF Texts
    <3> QED BY <1>3, <2>1, <3>1, <3>2
  <2>4. /\ book' \in Seq(Records) /\ Len(book') = Len(book) /\ DOMAIN book' = DOMAIN book
        /\ \A r \in DOMAIN book : book'[r].session = book[r].session
    <3>1. PICK new : new = [book[here.run] EXCEPT !.status = how]
      OBVIOUS
    <3>2. book[here.run] \in Records
      BY <1>1, <2>2
    <3>3. new \in Records /\ new.session = book[here.run].session
      BY <3>1, <3>2 DEF Records, Statuses, Outcome
    <3>4. book' = [book EXCEPT ![here.run] = new]
      BY <2>1, <3>1
    <3> QED BY <1>1, <2>2, <3>3, <3>4
  <2>5. CASE here.session # NoSession
    <3>1. here.session \in SessionNames
      BY <1>3, <2>5 DEF Seats
    <3>2. Saves(here.session, text, here.run, book) /\ pointer' = pointer
      BY <2>1, <2>5
    <3>3. \/ seat' = [seat EXCEPT ![t] = Prompting(here.session, [text |-> text, task |-> here.run],
                                                   shelf'[here.session])]
          \/ seat' = [seat EXCEPT ![t] = Shell]
      BY <2>1
    <3> QED BY <1>4, <2>3, <2>4, <3>1, <3>2, <3>3
  <2>6. CASE here.session = NoSession
    <3>1. ~here.loop
      BY <2>2, <2>6, ChatAssumption DEF ChatAssumption
    <3>2. UNCHANGED <<shelf, leftBy, pointer>> /\ seat' = [seat EXCEPT ![t] = Shell]
      BY <2>1, <2>6, <3>1
    <3>3. NothingGone
      BY <1>1, <2>4, <3>2 DEF NothingGone, Grows, FileOK, Files
    <3>4. SeatOK(Shell)'
      BY ShellIs DEF SeatOK
    <3>5. seat' \in [Terminals -> Seats] /\ \A u \in Terminals : SeatOK(seat[u])'
      BY <3>2, <3>3, <3>4, ShellIs, OneSeat
    <3>6. LeftInv'
      <4>1. \A r \in DOMAIN leftBy : r \in DOMAIN book
        BY <1>1
      <4>2. \A r \in DOMAIN leftBy : book'[r].session = book[r].session
        BY <2>4, <4>1
      <4>3. ASSUME NEW r \in DOMAIN leftBy, leftBy[r] # Unsaved
            PROVE  book'[r].session \in SessionNames /\ LastRunHas(shelf[book'[r].session], r, leftBy[r])
        BY <1>1, <4>2, <4>3 DEF LeftInv
      <4> QED BY <3>2, <4>3 DEF LeftInv, LastRunHas, RunNodesOf
    <3> QED BY <1>1, <2>4, <3>2, <3>5, <3>6 DEF ChatInv, ChatTypes
  <2> QED BY <2>4, <2>5, <2>6
<1>7. CASE Forks(t)
  <2>1. PICK s \in SessionNames, target \in SessionNames :
          /\ Saves(target, TextAt(shelf[s], shelf[s].tip), RunAt(shelf[s], shelf[s].tip), book)
          /\ pointer' = target
    BY <1>7 DEF Forks, Free
  <2>2. UNCHANGED <<book, seat>>
    BY <1>7 DEF Forks
  <2>3. shelf[s].tip \in 0 .. Len(shelf[s].nodes)
    BY <1>1 DEF FileOK, Files
  <2>4. PICK text, task : text = TextAt(shelf[s], shelf[s].tip) /\ task = RunAt(shelf[s], shelf[s].tip)
    OBVIOUS
  <2>5. text \in Texts /\ task \in Nat
    BY <1>1, <2>3, <2>4, StateIs
  <2>6. /\ NothingGone /\ LeftInv' /\ leftBy' \in Seq(Texts) /\ Len(leftBy') = Len(book')
        /\ shelf' \in [SessionNames -> Files] /\ \A x \in SessionNames : FileOK(shelf'[x])
    <3>1. Saves(target, text, task, book) /\ book' = book
      BY <2>1, <2>2, <2>4
    <3> QED BY <1>1, <2>5, <3>1, SaveKeeps
  <2>7. \A u \in Terminals : SeatOK(seat[u])'
    <3> SUFFICES ASSUME NEW u \in Terminals, NEW sat, sat = seat[u] PROVE SeatOK(sat)'
      BY <2>2
    <3> QED BY <2>6, SeatKept
  <2> QED BY <1>1, <2>1, <2>2, <2>6, <2>7 DEF ChatInv, ChatTypes
<1> QED BY <1>5, <1>6, <1>7

LEMMA ChatStep ==
  ASSUME ChatInv, [ChatNext]_chatVars
  PROVE  /\ ChatInv'
         /\ \A r \in DOMAIN book' \ DOMAIN book :
              LET p == book'[r].parent
              IN  (book'[r].again /\ leftBy[p] # Unsaved) => book'[r].began = leftBy[p]
<1>1. CASE UNCHANGED chatVars
  <2>1. ChatInv'
    <3>1. UNCHANGED <<shelf, pointer, book, seat, leftBy>>
      BY <1>1 DEF chatVars
    <3>2. ChatTypes'
      BY <3>1 DEF ChatInv, ChatTypes
    <3>3. \A t \in Terminals : SeatOK(seat[t])'
      BY <3>1 DEF ChatInv, SeatOK, StateAt, TextAt, RunAt
    <3>4. LeftInv'
      BY <3>1 DEF ChatInv, LeftInv, LastRunHas, RunNodesOf
    <3> QED BY <3>2, <3>3, <3>4 DEF ChatInv
  <2> QED BY <1>1, <2>1 DEF chatVars
<1>2. ASSUME NEW t \in Terminals,
             OpenChat(t) \/ New(t) \/ SlashNew(t) \/ ExitLoop(t) \/ CutOff(t) \/ Branches(t)
      PROVE  ChatInv' /\ DOMAIN book' = DOMAIN book
  BY <1>2, CommandKeeps
<1>3. ASSUME NEW t \in Terminals, SlashCompact(t) \/ EndAndSave(t) \/ Forks(t)
      PROVE  ChatInv' /\ DOMAIN book' = DOMAIN book
  BY <1>3, SavingKeeps
<1>4. ASSUME NEW t \in Terminals, Prompt(t) \/ Run(t)
      PROVE  /\ ChatInv' /\ DOMAIN book' \ DOMAIN book = {Len(book')} /\ book'[Len(book')].again = FALSE
  <2>1. seat[t].held \in States /\ SeatOK(seat[t]) /\ NoState \in States
    BY NoFileIs DEF ChatInv, ChatTypes, Seats
  <2>2. CASE Prompt(t)
    <3>1. seat[t].session \in SessionNames /\ Starts(t, TRUE, seat[t].session, seat[t].held, FALSE)
      BY <2>1, <2>2 DEF Prompt, SeatOK
    <3> QED BY <2>1, <3>1, StartKeeps
  <2>3. CASE Run(t)
    <3>1. Starts(t, FALSE, NoSession, NoState, FALSE)
      BY <2>3 DEF Run
    <3> QED BY <2>1, <3>1, StartKeeps
  <2> QED BY <1>4, <2>2, <2>3
<1>5. ASSUME NEW t \in Terminals, Again(t)
      PROVE  /\ ChatInv' /\ DOMAIN book' \ DOMAIN book = {Len(book')}
             /\ LET p == book'[Len(book')].parent
                IN  leftBy[p] # Unsaved => book'[Len(book')].began = leftBy[p]
  <2>1. PICK r \in DOMAIN book : Starts(t, FALSE, book[r].session, RunState(r), TRUE)
    BY <1>5 DEF Again
  <2>2. book[r].session \in SessionNames \union {NoSession}
    <3>1. book[r] \in Records
      BY DEF ChatInv, ChatTypes
    <3> QED BY <3>1 DEF Records
  <2>3. PICK state : state = RunState(r)
    OBVIOUS
  <2>4. state \in States /\ state.task = r /\ (leftBy[r] # Unsaved => state.text = leftBy[r])
    BY <2>3, RunStateIs
  <2>5. Starts(t, FALSE, book[r].session, state, TRUE)
    BY <2>1, <2>3
  <2>6. /\ ChatInv' /\ DOMAIN book' \ DOMAIN book = {Len(book')}
        /\ book'[Len(book')].parent = state.task /\ book'[Len(book')].began = state.text
    BY <2>2, <2>4, <2>5, StartKeeps
  <2> QED BY <2>4, <2>6
<1>6. CASE ChatNext
  <2>1. PICK t \in Terminals :
          \/ OpenChat(t) \/ New(t) \/ SlashNew(t) \/ SlashCompact(t) \/ ExitLoop(t)
          \/ Prompt(t) \/ Run(t) \/ Again(t) \/ EndAndSave(t) \/ CutOff(t)
          \/ Branches(t) \/ Forks(t)
    BY <1>6 DEF ChatNext
  <2>2. CASE \/ OpenChat(t) \/ New(t) \/ SlashNew(t) \/ SlashCompact(t) \/ ExitLoop(t)
             \/ EndAndSave(t) \/ CutOff(t) \/ Branches(t) \/ Forks(t)
    BY <1>2, <1>3, <2>2
  <2>3. CASE Prompt(t) \/ Run(t)
    BY <1>4, <2>3
  <2>4. CASE Again(t)
    BY <1>5, <2>4
  <2> QED BY <2>1, <2>2, <2>3, <2>4
<1> QED BY <1>1, <1>6

\* A prompt goes on with what the session's branch holds, whatever the terminals did in
\* it and in the other sessions, as long as the file is as the loop last saw it.
THEOREM PromptGoesOn == ChatSpec => []ChatGoesOn
<1>1. ChatInv => ChatGoesOn
  <2> SUFFICES ASSUME ChatInv, NEW t \in Terminals, seat[t].at = "prompt",
                      seat[t].sight = Sight(shelf[seat[t].session])
               PROVE  seat[t].held = Loaded(seat[t].session)
    BY DEF ChatGoesOn
  <2>1. SeatOK(seat[t])
    BY DEF ChatInv
  <2> QED BY <2>1 DEF SeatOK, Sight, Loaded
<1>2. ChatInv /\ [ChatNext]_chatVars => ChatInv'
  BY ChatStep
<1> QED BY <1>1, <1>2, ChatInitially, PTL DEF ChatSpec

\* A retry takes up what was saved last for its run, for any number of runs, sessions,
\* branches and forks (load_session_run).
THEOREM RetryTakesUpTheRun == ChatSpec => RetryGoesOn
<1>1. ChatInv /\ [ChatNext]_chatVars => ChatInv'
  BY ChatStep
<1>2. ChatInv /\ [ChatNext]_chatVars =>
        [\A r \in DOMAIN book' \ DOMAIN book :
           LET p == book'[r].parent
           IN  (book'[r].again /\ leftBy[p] # Unsaved) => book'[r].began = leftBy[p]]_chatVars
  BY ChatStep
<1> QED BY <1>1, <1>2, ChatInitially, PTL DEF ChatSpec, RetryGoesOn

----
(***************************************************************************)
(* Conversation                                                            *)
(***************************************************************************)
Roles == {"user", "assistant", "tool", "system"}
Kinds == Skills \union {"words", "instructions", "reply", "result", "summary"}
Spoken == [role : Roles, what : Kinds, calls : Seq(Nat), answers : Nat, size : Nat]

\* The results of the calls of message i follow it without a gap.
Answered(m, i) ==
  /\ i + Len(m[i].calls) <= Len(m)
  /\ \A k \in 1 .. Len(m[i].calls) : m[i + k].role = "tool"
  /\ {m[i + k].answers : k \in 1 .. Len(m[i].calls)} = ToSet(m[i].calls)

\* A result stands among those of the message that has its call.
Called(m, i) ==
  \E j \in 1 .. (i - 1) : i <= j + Len(m[j].calls) /\ m[i].answers \in ToSet(m[j].calls)

Linked(m) ==
  \A i \in DOMAIN m : (m[i].calls # <<>> => Answered(m, i)) /\ (m[i].role = "tool" => Called(m, i))

\* Whatever is there in the user's name is followed by words of the user.
Asked(m) ==
  \A i \in DOMAIN m : m[i].role = "user" => \E j \in DOMAIN m : j >= i /\ m[j].what = "words"

Once(m) == \A i, j \in DOMAIN m : m[i].what \in Skills /\ m[i].what = m[j].what => i = j

Plain(m) == \A i \in DOMAIN m : m[i].calls = <<>> /\ m[i].role # "tool"
HasWords(m) == \E i \in DOMAIN m : m[i].what = "words"

\* The last message has calls that have no results yet.
Waiting(m) ==
  LET calls == m[Len(m)].calls IN
  /\ Len(m) > 0 /\ Len(calls) > 0
  /\ \A i, j \in 1 .. Len(calls) : i # j => calls[i] # calls[j]
  /\ \A i \in DOMAIN m : i # Len(m) => (m[i].calls # <<>> => Answered(m, i))
  /\ \A i \in DOMAIN m : m[i].role = "tool" => Called(m, i)

Good(m) == m \in Seq(Spoken) /\ Once(m) /\ Asked(m)

ConvInv ==
  /\ turn \in {"idle", "starts", "sends", "acts"} /\ made \in Nat
  /\ Good(history) /\ Linked(history)
  /\ Good(context)
  /\ turn = "idle" => context = <<>>
  /\ turn \in {"starts", "sends"} => Linked(context) /\ HasWords(context)
  /\ turn = "acts" => Waiting(context) /\ HasWords(context)

----
(***************************************************************************)
(* Messages                                                                *)
(***************************************************************************)
LEMMA KindsDiffer ==
  ASSUME NEW skill \in Skills
  PROVE  skill \notin {"words", "instructions", "reply", "result", "summary"}
BY ConversationAssumption DEF ConversationAssumption

LEMMA MessageIs ==
  ASSUME NEW role \in Roles, NEW what \in Kinds
  PROVE  /\ Message(role, what) \in Spoken
         /\ Message(role, what).role = role /\ Message(role, what).what = what
         /\ Message(role, what).calls = <<>>
<1>1. <<>> \in Seq(Nat)
  OBVIOUS
<1> QED BY <1>1 DEF Message, Spoken

LEMMA AssistantIs ==
  ASSUME NEW calls \in Seq(Nat)
  PROVE  /\ Assistant(calls) \in Spoken /\ Assistant(calls).role = "assistant"
         /\ Assistant(calls).what = "reply" /\ Assistant(calls).calls = calls
<1> DEFINE m == Message("assistant", "reply")
<1>1. m \in Spoken /\ m.role = "assistant" /\ m.what = "reply"
  BY MessageIs DEF Roles, Kinds
<1>2. Assistant(calls) = [m EXCEPT !.calls = calls]
  BY DEF Assistant
<1> HIDE DEF m
<1> QED BY <1>1, <1>2 DEF Spoken

LEMMA ResultIs ==
  ASSUME NEW call \in Nat, NEW size \in Nat
  PROVE  /\ Result(call, size) \in Spoken /\ Result(call, size).role = "tool"
         /\ Result(call, size).what = "result" /\ Result(call, size).calls = <<>>
         /\ Result(call, size).answers = call
<1> DEFINE m == Message("tool", "result")
<1>1. m \in Spoken /\ m.role = "tool" /\ m.what = "result" /\ m.calls = <<>>
  BY MessageIs DEF Roles, Kinds
<1>2. Result(call, size) = [m EXCEPT !.answers = call, !.size = size]
  BY DEF Result
<1> HIDE DEF m
<1> QED BY <1>1, <1>2 DEF Spoken

LEMMA WordsAre ==
  /\ Words \in Spoken /\ Words.role = "user" /\ Words.what = "words" /\ Words.calls = <<>>
  /\ Instructions \in Spoken /\ Instructions.role = "user" /\ Instructions.what = "instructions"
  /\ Instructions.calls = <<>>
BY MessageIs DEF Words, Instructions, Roles, Kinds

----
(***************************************************************************)
(* Messages that are added                                                 *)
(***************************************************************************)
LEMMA Joined ==
  ASSUME NEW m \in Seq(Spoken), NEW more \in Seq(Spoken)
  PROVE  /\ m \o more \in Seq(Spoken) /\ Len(m \o more) = Len(m) + Len(more)
         /\ Len(m) \in Nat /\ Len(more) \in Nat
         /\ \A i \in DOMAIN m : (m \o more)[i] = m[i] /\ i \in DOMAIN (m \o more) /\ i \in Nat /\ i <= Len(m)
         /\ \A i \in DOMAIN more : (m \o more)[Len(m) + i] = more[i] /\ Len(m) + i \in DOMAIN (m \o more)
         /\ \A i \in DOMAIN (m \o more) :
              i \in DOMAIN m \/ (i > Len(m) /\ i - Len(m) \in DOMAIN more /\ (m \o more)[i] = more[i - Len(m)])
<1> DEFINE all == m \o more
<1>1. /\ all \in Seq(Spoken) /\ Len(all) = Len(m) + Len(more) /\ Len(m) \in Nat /\ Len(more) \in Nat
      /\ \A i \in 1 .. Len(m) + Len(more) : all[i] = IF i <= Len(m) THEN m[i] ELSE more[i - Len(m)]
  BY ConcatProperties
<1>2. DOMAIN all = 1 .. Len(m) + Len(more) /\ DOMAIN m = 1 .. Len(m) /\ DOMAIN more = 1 .. Len(more)
  BY <1>1
<1> HIDE DEF all
<1>3. \A i \in 1 .. Len(m) : i \in DOMAIN all /\ all[i] = m[i] /\ i \in Nat /\ i <= Len(m)
  BY <1>1, <1>2
<1>4. ASSUME NEW i \in 1 .. Len(more) PROVE all[Len(m) + i] = more[i] /\ Len(m) + i \in DOMAIN all
  <2>1. Len(m) + i \in 1 .. Len(m) + Len(more) /\ ~(Len(m) + i <= Len(m)) /\ Len(m) + i - Len(m) = i
    BY <1>1
  <2> QED BY <1>1, <1>2, <2>1
<1>5. \A i \in DOMAIN all :
        i \in DOMAIN m \/ (i > Len(m) /\ i - Len(m) \in DOMAIN more /\ all[i] = more[i - Len(m)])
  BY <1>1, <1>2
<1> QED BY <1>1, <1>2, <1>3, <1>4, <1>5 DEF all

\* What is linked stays so, whatever comes after it.
LEMMA AnsweredKept ==
  ASSUME NEW m \in Seq(Spoken), NEW more \in Seq(Spoken), NEW i \in DOMAIN m
  PROVE  /\ Answered(m, i) => Answered(m \o more, i)
         /\ Called(m, i) => Called(m \o more, i)
<1> DEFINE all == m \o more
           calls == m[i].calls
<1>1. /\ Len(all) = Len(m) + Len(more) /\ Len(m) \in Nat /\ Len(more) \in Nat /\ i \in Nat /\ DOMAIN m = 1 .. Len(m)
      /\ \A j \in DOMAIN m : all[j] = m[j]
  BY Joined
<1>2. calls \in Seq(Nat) /\ Len(calls) \in Nat
  <2>1. m[i] \in Spoken
    OBVIOUS
  <2>2. m[i].calls \in Seq(Nat)
    BY <2>1 DEF Spoken
  <2> QED BY <2>2
<1> HIDE DEF all
<1>3. ASSUME Answered(m, i) PROVE Answered(all, i)
  <2>1. all[i].calls = calls
    BY <1>1
  <2>2. \A k \in 1 .. Len(calls) : i + k \in DOMAIN m
    BY <1>1, <1>2, <1>3 DEF Answered
  <2>3. \A k \in 1 .. Len(calls) : all[i + k] = m[i + k]
    BY <1>1, <2>2
  <2>4. {all[i + k].answers : k \in 1 .. Len(calls)} = {m[i + k].answers : k \in 1 .. Len(calls)}
    BY <2>3
  <2>5. i + Len(calls) <= Len(all)
    BY <1>1, <1>2, <1>3 DEF Answered
  <2> QED BY <1>3, <2>1, <2>3, <2>4, <2>5 DEF Answered
<1>4. ASSUME Called(m, i) PROVE Called(all, i)
  <2>1. PICK j \in 1 .. (i - 1) : i <= j + Len(m[j].calls) /\ m[i].answers \in ToSet(m[j].calls)
    BY <1>4 DEF Called
  <2>2. j \in DOMAIN m
    BY <1>1
  <2> QED BY <1>1, <2>1, <2>2 DEF Called
<1> QED BY <1>3, <1>4 DEF all

LEMMA PlainAdded ==
  ASSUME NEW m \in Seq(Spoken), NEW more \in Seq(Spoken), Linked(m), Plain(more)
  PROVE  Linked(m \o more)
<1>1. ASSUME NEW i \in DOMAIN (m \o more)
      PROVE  /\ (m \o more)[i].calls # <<>> => Answered(m \o more, i)
             /\ (m \o more)[i].role = "tool" => Called(m \o more, i)
  <2>1. CASE i \in DOMAIN m
    BY <2>1, AnsweredKept, Joined DEF Linked
  <2>2. CASE i \notin DOMAIN m
    BY <1>1, <2>2, Joined DEF Plain
  <2> QED BY <2>1, <2>2
<1> QED BY <1>1 DEF Linked

\* Messages without a skill do not repeat one.
LEMMA OnceAdded ==
  ASSUME NEW m \in Seq(Spoken), NEW more \in Seq(Spoken), Once(m),
         \A i \in DOMAIN more : more[i].what \notin Skills
  PROVE  Once(m \o more)
<1>1. ASSUME NEW i \in DOMAIN (m \o more), (m \o more)[i].what \in Skills
      PROVE  i \in DOMAIN m /\ (m \o more)[i] = m[i]
  BY <1>1, Joined
<1> QED BY <1>1 DEF Once

LEMMA AskedAdded ==
  ASSUME NEW m \in Seq(Spoken), NEW more \in Seq(Spoken), Asked(m),
         \/ \A i \in DOMAIN more : more[i].role # "user"
         \/ more # <<>> /\ more[Len(more)].what = "words"
  PROVE  Asked(m \o more)
<1> DEFINE all == m \o more
<1>1. /\ Len(all) = Len(m) + Len(more) /\ Len(m) \in Nat /\ Len(more) \in Nat
      /\ DOMAIN all = 1 .. Len(all) /\ DOMAIN more = 1 .. Len(more)
      /\ \A i \in DOMAIN m : all[i] = m[i] /\ i \in DOMAIN all
      /\ \A i \in DOMAIN more : all[Len(m) + i] = more[i]
      /\ \A i \in DOMAIN all : i \in DOMAIN m \/ (i - Len(m) \in DOMAIN more /\ all[i] = more[i - Len(m)])
  BY Joined
<1> HIDE DEF all
<1>2. CASE more # <<>> /\ more[Len(more)].what = "words"
  <2>1. Len(more) \in DOMAIN more
    BY <1>1, <1>2
  <2>2. all[Len(all)].what = "words" /\ Len(all) \in DOMAIN all
    BY <1>1, <1>2, <2>1
  <2>3. \A i \in DOMAIN all : Len(all) >= i
    BY <1>1
  <2> QED BY <2>2, <2>3 DEF Asked, all
<1>3. CASE \A i \in DOMAIN more : more[i].role # "user"
  BY <1>1, <1>3 DEF Asked, all
<1> QED BY <1>2, <1>3

LEMMA AskedLast ==
  ASSUME NEW m \in Seq(Spoken)
  PROVE  Append(m, Words) \in Seq(Spoken) /\ Asked(Append(m, Words)) /\ HasWords(Append(m, Words))
<1> DEFINE all == Append(m, Words)
<1>1. /\ all \in Seq(Spoken) /\ Len(all) = Len(m) + 1 /\ Len(m) \in Nat
      /\ all[Len(m) + 1] = Words
  BY WordsAre, AppendProperties
<1>2. DOMAIN all = 1 .. Len(m) + 1
  BY <1>1
<1> HIDE DEF all
<1>3. Len(m) + 1 \in DOMAIN all /\ all[Len(m) + 1].what = "words"
  BY <1>1, <1>2, WordsAre
<1>4. \A i \in DOMAIN all : Len(m) + 1 >= i
  BY <1>1, <1>2
<1> QED BY <1>1, <1>3, <1>4 DEF Asked, HasWords, all

LEMMA AppendIsJoin ==
  ASSUME NEW m \in Seq(Spoken), NEW x \in Spoken
  PROVE  Append(m, x) = m \o <<x>> /\ <<x>> \in Seq(Spoken)
         /\ DOMAIN <<x>> = {1} /\ Len(<<x>>) = 1 /\ <<x>>[1] = x
OBVIOUS

\* Skills that are not there yet are added once each.
LEMMA SkillsAdded ==
  ASSUME NEW m \in Seq(Spoken), Once(m), Linked(m), NEW names \in SUBSET Skills
  PROVE  LET all == m \o SkillMessages(Missing(names, m)) IN
         all \in Seq(Spoken) /\ Once(all) /\ Linked(all)
<1> DEFINE new == names \ Activated(m)
           f == Missing(names, m)
           more == SkillMessages(f)
           all == m \o more
<1>1. IsFiniteSet(new)
  BY ConversationAssumption, FS_Subset DEF ConversationAssumption
<1>2. f \in Seq(new) /\ \A i, j \in 1 .. Len(f) : f[i] = f[j] => i = j
  BY <1>1, SetToSeqIs DEF Missing
<1> HIDE DEF f, new
<1>3. DOMAIN f = 1 .. Len(f) /\ Len(f) \in Nat /\ \A i \in DOMAIN f : f[i] \in new
  BY <1>2
<1>4. new \subseteq Skills
  BY DEF new
<1>5. ASSUME NEW x \in new
      PROVE  /\ Message("user", x) \in Spoken /\ Message("user", x).role = "user"
             /\ Message("user", x).what = x /\ Message("user", x).calls = <<>>
  BY <1>4, MessageIs DEF Roles, Kinds
<1>6. \A i \in DOMAIN f :
        more[i] \in Spoken /\ more[i].role = "user" /\ more[i].what = f[i] /\ more[i].calls = <<>>
  BY <1>3, <1>5 DEF SkillMessages
<1>7. DOMAIN more = 1 .. Len(f)
  BY <1>3 DEF SkillMessages
<1>8. more \in Seq(Spoken) /\ Len(more) = Len(f)
  <2>1. more \in [1 .. Len(f) -> Spoken]
    BY <1>3, <1>6 DEF SkillMessages
  <2> QED BY <2>1, <1>3, SeqDef
<1> HIDE DEF more
<1>9. Plain(more)
  BY <1>3, <1>6, <1>7 DEF Plain
<1>10. Linked(all) /\ all \in Seq(Spoken)
  BY <1>8, <1>9, PlainAdded, Joined
<1>11. ASSUME NEW i \in DOMAIN m, NEW j \in DOMAIN more, m[i].what \in Skills
       PROVE  m[i].what # more[j].what
  <2>1. more[j].what \in new
    BY <1>3, <1>6, <1>7
  <2>2. m[i].what \in Activated(m)
    BY <1>11 DEF Activated
  <2> QED BY <2>1, <2>2 DEF new
<1>12. ASSUME NEW i \in DOMAIN more, NEW j \in DOMAIN more, more[i].what = more[j].what
       PROVE  i = j
  BY <1>2, <1>3, <1>6, <1>7, <1>12
<1>13. Once(all)
  <2> SUFFICES ASSUME NEW i \in DOMAIN all, NEW j \in DOMAIN all,
                      all[i].what \in Skills, all[i].what = all[j].what
               PROVE  i = j
    BY DEF Once
  <2> PICK w : w = all
    OBVIOUS
  <2>1. /\ \A k \in DOMAIN m : w[k] = m[k]
        /\ \A k \in DOMAIN w : k \in DOMAIN m \/ (k - Len(m) \in DOMAIN more /\ w[k] = more[k - Len(m)])
        /\ DOMAIN w \subseteq Nat /\ Len(m) \in Nat
    <3>1. w \in Seq(Spoken)
      BY <1>10
    <3> QED BY <1>8, <3>1, Joined
  <2>2. CASE i \in DOMAIN m /\ j \in DOMAIN m
    BY <2>1, <2>2 DEF Once
  <2>3. CASE i \in DOMAIN m /\ j \notin DOMAIN m
    BY <2>1, <2>3, <1>11
  <2>4. CASE i \notin DOMAIN m /\ j \in DOMAIN m
    BY <2>1, <2>4, <1>11
  <2>5. CASE i \notin DOMAIN m /\ j \notin DOMAIN m
    <3>1. i - Len(m) \in DOMAIN more /\ j - Len(m) \in DOMAIN more
          /\ more[i - Len(m)].what = more[j - Len(m)].what
      BY <2>1, <2>5
    <3>2. i - Len(m) = j - Len(m)
      BY <3>1, <1>12
    <3> QED BY <2>1, <3>2
  <2> QED BY <2>2, <2>3, <2>4, <2>5
<1> QED BY <1>10, <1>13 DEF more, f

----
(***************************************************************************)
(* Compression                                                             *)
(***************************************************************************)
\* Messages that differ in their sizes only.
Alike(m, n) ==
  /\ Len(m) = Len(n)
  /\ \A i \in DOMAIN m : /\ n[i].role = m[i].role /\ n[i].what = m[i].what
                         /\ n[i].calls = m[i].calls /\ n[i].answers = m[i].answers

LEMMA AlikeKeeps ==
  ASSUME NEW m \in Seq(Spoken), NEW n \in Seq(Spoken), Alike(m, n)
  PROVE  /\ Once(m) => Once(n)
         /\ Asked(m) => Asked(n)
         /\ Linked(m) => Linked(n)
         /\ HasWords(m) => HasWords(n)
<1>1. DOMAIN m = 1 .. Len(m) /\ DOMAIN n = 1 .. Len(m) /\ Len(m) \in Nat /\ Len(n) = Len(m)
  BY DEF Alike
<1>2. \A i \in DOMAIN m : m[i].calls \in Seq(Nat)
  <2>1. \A i \in DOMAIN m : m[i] \in Spoken
    OBVIOUS
  <2> QED BY <2>1 DEF Spoken
<1>3. (Once(m) => Once(n)) /\ (Asked(m) => Asked(n)) /\ (HasWords(m) => HasWords(n))
  BY <1>1 DEF Alike, Once, Asked, HasWords
<1>4. ASSUME NEW i \in DOMAIN m, Answered(m, i) PROVE Answered(n, i)
  <2>1. n[i].calls = m[i].calls /\ Len(m[i].calls) \in Nat /\ i \in Nat
    BY <1>1, <1>2 DEF Alike
  <2>2. \A k \in 1 .. Len(m[i].calls) : i + k \in DOMAIN m
    BY <1>1, <1>4, <2>1 DEF Answered
  <2>3. \A k \in 1 .. Len(m[i].calls) : n[i + k].answers = m[i + k].answers /\ n[i + k].role = m[i + k].role
    BY <2>2 DEF Alike
  <2>4. {n[i + k].answers : k \in 1 .. Len(m[i].calls)} = {m[i + k].answers : k \in 1 .. Len(m[i].calls)}
    BY <2>3
  <2> QED BY <1>1, <1>4, <2>1, <2>3, <2>4 DEF Answered
<1>5. ASSUME NEW i \in DOMAIN m, Called(m, i) PROVE Called(n, i)
  <2>1. PICK j \in 1 .. (i - 1) : i <= j + Len(m[j].calls) /\ m[i].answers \in ToSet(m[j].calls)
    BY <1>5 DEF Called
  <2>2. j \in DOMAIN m
    BY <1>1
  <2>3. n[j].calls = m[j].calls /\ n[i].answers = m[i].answers
    BY <2>2 DEF Alike
  <2> QED BY <2>1, <2>3 DEF Called
<1>6. Linked(m) => Linked(n)
  BY <1>1, <1>4, <1>5 DEF Linked, Alike
<1> QED BY <1>3, <1>6

\* Micro-compaction changes sizes only.
LEMMA MicroIsAlike ==
  ASSUME NEW m \in Seq(Spoken)
  PROVE  MicroCompacted(m) \in Seq(Spoken) /\ Alike(m, MicroCompacted(m))
<1> DEFINE n == MicroCompacted(m)
<1>1. DOMAIN m = 1 .. Len(m) /\ Len(m) \in Nat /\ \A i \in DOMAIN m : m[i] \in Spoken
  OBVIOUS
<1>2. ASSUME NEW x \in Spoken
      PROVE  /\ [x EXCEPT !.size = 1] \in Spoken /\ [x EXCEPT !.size = 1].role = x.role
             /\ [x EXCEPT !.size = 1].what = x.what /\ [x EXCEPT !.size = 1].calls = x.calls
             /\ [x EXCEPT !.size = 1].answers = x.answers
  BY DEF Spoken
<1>3. \A i \in DOMAIN m : n[i] = m[i] \/ n[i] = [m[i] EXCEPT !.size = 1]
  BY DEF MicroCompacted
<1>4. n \in [1 .. Len(m) -> Spoken]
  <2>1. \A i \in DOMAIN m : n[i] \in Spoken
    BY <1>1, <1>2, <1>3
  <2>2. n = [i \in 1 .. Len(m) |-> n[i]]
    BY <1>1 DEF MicroCompacted
  <2> HIDE DEF n
  <2> QED BY <1>1, <2>1, <2>2
<1> HIDE DEF n
<1>5. n \in Seq(Spoken) /\ Len(n) = Len(m)
  BY <1>1, <1>4, SeqDef
<1> QED BY <1>1, <1>2, <1>3, <1>5 DEF Alike, n

\* The tail to keep begins with words of the user's side, or nothing is cut off.
LEMMA KeepFromIs ==
  ASSUME NEW m \in Seq(Spoken), KeepFrom(m) # 1
  PROVE  KeepFrom(m) \in DOMAIN m /\ m[KeepFrom(m)].role = "user"
<1> DEFINE turns == {i \in UserAt(m) : i <= Len(m) - KeepRecent + 1}
<1>1. turns # {} /\ KeepFrom(m) = CHOOSE i \in turns : \A j \in turns : j <= i
  BY DEF KeepFrom
<1>2. turns \in SUBSET (0 .. Len(m)) /\ Len(m) \in Nat
  BY DEF UserAt
<1>3. \E i \in turns : \A j \in turns : j <= i
  <2> HIDE DEF turns
  <2> QED BY <1>1, <1>2, Greatest
<1>4. KeepFrom(m) \in turns
  <2> HIDE DEF turns
  <2> QED BY <1>1, <1>3
<1> QED BY <1>4 DEF UserAt

\* A transcript cut before a user's message and given a summary is as good as before.
LEMMA CutIsGood ==
  ASSUME NEW m \in Seq(Spoken), NEW from \in DOMAIN m, m[from].role = "user",
         Linked(m), Once(m), Asked(m)
  PROVE  LET n == <<Message("system", "summary")>> \o SubSeq(m, from, Len(m)) IN
         n \in Seq(Spoken) /\ Linked(n) /\ Once(n) /\ Asked(n) /\ HasWords(n)
<1> DEFINE top == Message("system", "summary")
           tail == SubSeq(m, from, Len(m))
<1>1. /\ top \in Spoken /\ top.role = "system" /\ top.what = "summary" /\ top.calls = <<>>
  BY MessageIs DEF Roles, Kinds
<1>2. top.what \notin Skills
  BY <1>1, KindsDiffer
<1> HIDE DEF top
<1>3. DOMAIN m = 1 .. Len(m) /\ Len(m) \in Nat /\ from \in 1 .. Len(m)
      /\ \A i \in DOMAIN m : m[i] \in Spoken
  OBVIOUS
<1>4. PICK shift : shift = from - 2 /\ shift \in Int /\ shift >= -1
  BY <1>3
<1>5. /\ tail \in Seq(Spoken) /\ Len(tail) = Len(m) - from + 1
      /\ \A i \in 1 .. Len(m) - from + 1 : tail[i] = m[from + i - 1]
  BY <1>3, SubSeqProperties
<1> HIDE DEF tail
<1>6. <<top>> \in Seq(Spoken) /\ Len(<<top>>) = 1 /\ <<top>>[1] = top /\ DOMAIN <<top>> = {1}
  BY <1>1
<1>7. PICK n : n = <<top>> \o tail
  OBVIOUS
<1>8. /\ n \in Seq(Spoken) /\ Len(n) = Len(m) - shift /\ DOMAIN n = 1 .. Len(m) - shift
      /\ n[1] = top
  BY <1>3, <1>4, <1>5, <1>6, <1>7, Joined
<1>9. ASSUME NEW i \in DOMAIN n, i # 1
      PROVE  n[i] = m[i + shift] /\ i + shift \in DOMAIN m
  <2>1. i \in 2 .. Len(m) - shift /\ i - 1 \in 1 .. Len(m) - from + 1
    BY <1>3, <1>4, <1>8, <1>9
  <2>2. n[i] = tail[i - 1]
    BY <2>1, <1>5, <1>6, <1>7, <1>9, <1>8, Joined
  <2>3. tail[i - 1] = m[from + (i - 1) - 1]
    BY <2>1, <1>5
  <2>4. i \in Int /\ from \in Int /\ from + (i - 1) - 1 = i + shift
    BY <2>1, <1>3, <1>4, SMTT(30)
  <2>5. i + shift \in 1 .. Len(m)
    BY <2>1, <1>3, <1>4, SMTT(30)
  <2> QED BY <2>2, <2>3, <2>4, <2>5, <1>3
<1>10. ASSUME NEW p \in DOMAIN m, p >= from
       PROVE  p - shift \in DOMAIN n /\ p - shift # 1 /\ n[p - shift] = m[p]
  <2>1. p - shift \in 2 .. Len(m) - shift /\ (p - shift) + shift = p
    BY <1>3, <1>4, <1>10
  <2> QED BY <2>1, <1>8, <1>9
<1>11. Once(n)
  <2>1. \A i \in DOMAIN n : n[i].what \in Skills => i # 1
    BY <1>2, <1>8
  <2> SUFFICES ASSUME NEW i \in DOMAIN n, NEW j \in DOMAIN n,
                      n[i].what \in Skills, n[i].what = n[j].what
               PROVE  i = j
    BY DEF Once
  <2>2. i # 1 /\ j # 1
    BY <2>1
  <2>3. i + shift = j + shift
    BY <2>2, <1>9 DEF Once
  <2> QED BY <2>3, <1>4, <1>8
<1>12. ASSUME NEW p \in DOMAIN m, p >= from, m[p].role = "user"
       PROVE  \E j \in DOMAIN n : j >= p - shift /\ n[j].what = "words"
  <2>1. PICK j \in DOMAIN m : j >= p /\ m[j].what = "words"
    BY <1>12 DEF Asked
  <2>2. j >= from /\ j - shift >= p - shift
    BY <1>3, <1>4, <1>12, <2>1
  <2> QED BY <1>10, <2>1, <2>2
<1>13. HasWords(n)
  BY <1>3, <1>12 DEF HasWords
<1>14. Asked(n)
  <2> SUFFICES ASSUME NEW i \in DOMAIN n, n[i].role = "user"
               PROVE  \E j \in DOMAIN n : j >= i /\ n[j].what = "words"
    BY DEF Asked
  <2>1. i # 1
    BY <1>1, <1>8
  <2>2. i + shift \in DOMAIN m /\ m[i + shift].role = "user" /\ (i + shift) - shift = i /\ i + shift >= from
    BY <2>1, <1>3, <1>4, <1>8, <1>9, SMTT(30)
  <2> QED BY <2>2, <1>12
<1>15. ASSUME NEW i \in DOMAIN n, n[i].calls # <<>> PROVE Answered(n, i)
  <2>1. i # 1
    BY <1>1, <1>8, <1>15
  <2>2. PICK p \in DOMAIN m : p = i + shift /\ n[i] = m[p]
    BY <2>1, <1>9
  <2>3. Answered(m, p)
    BY <2>2, <1>15 DEF Linked
  <2>4. m[p].calls \in Seq(Nat)
    BY <1>3 DEF Spoken
  <2>5. Len(m[p].calls) \in Nat /\ p + Len(m[p].calls) <= Len(m)
    BY <2>3, <2>4 DEF Answered
  <2>6. \A k \in 1 .. Len(m[p].calls) : n[i + k] = m[p + k]
    <3> SUFFICES ASSUME NEW k \in 1 .. Len(m[p].calls) PROVE n[i + k] = m[p + k]
      OBVIOUS
    <3>1. i \in Int /\ i >= 2 /\ p = i + shift
      BY <1>8, <2>1, <2>2
    <3>2. k \in Int /\ k >= 1 /\ k <= Len(m[p].calls)
      BY <2>5
    <3>3. p \in Int /\ p + k <= Len(m)
      <4>1. p \in Int
        BY <1>3
      <4> QED BY <3>2, <4>1, <2>5, <1>3
    <3>4. i + k \in 1 .. Len(m) - shift /\ i + k # 1 /\ (i + k) + shift = p + k
      BY <1>3, <1>4, <3>1, <3>2, <3>3, SMTT(30)
    <3> QED BY <3>4, <1>8, <1>9
  <2>7. {n[i + k].answers : k \in 1 .. Len(m[p].calls)} = {m[p + k].answers : k \in 1 .. Len(m[p].calls)}
    BY <2>6
  <2>8. i + Len(m[p].calls) <= Len(n)
    <3>1. i \in Int /\ p \in Int /\ p = i + shift /\ Len(n) = Len(m) - shift
      BY <1>3, <1>8, <2>2
    <3>2. PICK c \in Nat : c = Len(m[p].calls) /\ p + c <= Len(m)
      BY <2>5
    <3>3. p + c <= Len(m) /\ c \in Int /\ p = i + shift /\ i \in Int /\ p \in Int /\ shift \in Int
      BY <3>1, <3>2, <1>4
    <3>4. Len(m) \in Int
      BY <1>3
    <3>5. i + c <= Len(m) - shift
      BY <3>3, <3>4
    <3> QED BY <3>1, <3>2, <3>5
  <2> QED BY <2>2, <2>3, <2>6, <2>7, <2>8 DEF Answered
<1>16. ASSUME NEW i \in DOMAIN n, n[i].role = "tool" PROVE Called(n, i)
  <2>1. i # 1
    BY <1>1, <1>8, <1>16
  <2>2. PICK p \in DOMAIN m : p = i + shift /\ n[i] = m[p] /\ p >= from
    BY <2>1, <1>3, <1>4, <1>8, <1>9, SMTT(30)
  <2>3. PICK j \in 1 .. (p - 1) : p <= j + Len(m[j].calls) /\ m[p].answers \in ToSet(m[j].calls)
    BY <2>2, <1>16 DEF Linked, Called
  <2>4. j \in DOMAIN m /\ m[j].calls \in Seq(Nat)
    <3>1. p \in 1 .. Len(m)
      BY <1>3
    <3>2. j \in 1 .. Len(m)
      BY <1>3, <2>3, <3>1
    <3>3. m[j] \in Spoken
      BY <1>3, <3>2
    <3> QED BY <1>3, <3>2, <3>3 DEF Spoken
  <2>5. m[j].calls # <<>>
    BY <1>3, <2>3, <2>4
  <2>6. j >= from
    <3> SUFFICES ASSUME j < from PROVE FALSE
      BY <1>3, <2>4
    <3>1. from - j \in 1 .. Len(m[j].calls) /\ j + (from - j) = from
      BY <1>3, <2>2, <2>3, <2>4
    <3>2. m[from].role = "tool"
      BY <3>1, <2>4, <2>5 DEF Linked, Answered
    <3> QED BY <3>2
  <2>7. j - shift \in DOMAIN n /\ n[j - shift] = m[j]
    BY <1>10, <2>4, <2>6
  <2>8. j - shift \in 1 .. (i - 1) /\ i <= (j - shift) + Len(m[j].calls)
    <3>1. Len(m[j].calls) \in Nat /\ j \in Int /\ p \in Int /\ i \in Int /\ j - shift >= 1
      BY <1>3, <1>8, <2>4, <2>7, <2>2
    <3>2. j <= p - 1 /\ p <= j + Len(m[j].calls)
      BY <2>3, <3>1
    <3>3. PICK c \in Nat : c = Len(m[j].calls)
      BY <3>1
    <3>4. p = i + shift /\ p <= j + c /\ j <= p - 1
      BY <2>2, <3>2, <3>3
    <3>5. j \in Int /\ i \in Int /\ p \in Int /\ c \in Int /\ shift \in Int
      BY <1>4, <3>1
    <3>6. j - shift <= i - 1 /\ i <= (j - shift) + c /\ j - shift \in Int
      BY <3>4, <3>5
    <3> QED BY <3>1, <3>3, <3>6
  <2> QED BY <2>2, <2>3, <2>7, <2>8 DEF Called
<1>17. Linked(n)
  BY <1>15, <1>16 DEF Linked
<1> QED BY <1>7, <1>8, <1>11, <1>13, <1>14, <1>17 DEF top, tail

LEMMA PhaseAIsGood ==
  ASSUME NEW m \in Seq(Spoken), Linked(m), Once(m), Asked(m)
  PROVE  /\ PhaseA(m) \in Seq(Spoken) /\ Linked(PhaseA(m)) /\ Once(PhaseA(m)) /\ Asked(PhaseA(m))
         /\ HasWords(m) => HasWords(PhaseA(m))
<1>1. CASE Len(m) <= KeepRecent \/ KeepFrom(m) = 1
  BY <1>1 DEF PhaseA
<1>2. CASE ~(Len(m) <= KeepRecent \/ KeepFrom(m) = 1)
  <2>1. KeepFrom(m) \in DOMAIN m /\ m[KeepFrom(m)].role = "user"
    BY <1>2, KeepFromIs
  <2>2. PhaseA(m) = <<Message("system", "summary")>> \o SubSeq(m, KeepFrom(m), Len(m))
    BY <1>2 DEF PhaseA
  <2> QED BY <2>1, <2>2, CutIsGood
<1> QED BY <1>1, <1>2

LEMMA TransformedIsGood ==
  ASSUME NEW m \in Seq(Spoken), Linked(m), Once(m), Asked(m), HasWords(m)
  PROVE  /\ Transformed(m) \in Seq(Spoken) /\ Linked(Transformed(m)) /\ Once(Transformed(m))
         /\ Asked(Transformed(m)) /\ HasWords(Transformed(m))
<1>1. PICK working : working = IF Tokens(m) >= MicroAt THEN MicroCompacted(m) ELSE m
  OBVIOUS
<1>2. /\ working \in Seq(Spoken) /\ Linked(working) /\ Once(working) /\ Asked(working)
      /\ HasWords(working)
  BY <1>1, MicroIsAlike, AlikeKeeps
<1>3. Transformed(m) = IF Tokens(working) > CompressAt THEN PhaseA(working) ELSE working
  BY <1>1 DEF Transformed
<1> QED BY <1>2, <1>3, PhaseAIsGood

----
(***************************************************************************)
(* Turns                                                                   *)
(***************************************************************************)
\* The numbers of a turn's calls differ, so it waits for them.
LEMMA CallsWait ==
  ASSUME NEW m \in Seq(Spoken), Linked(m), NEW n \in Nat \ {0}, NEW first \in Nat
  PROVE  LET calls == [i \in 1 .. n |-> first + i] IN
         calls \in Seq(Nat) /\ Waiting(Append(m, Assistant(calls)))
<1> DEFINE calls == [i \in 1 .. n |-> first + i]
<1>1. calls \in [1 .. n -> Nat]
  OBVIOUS
<1>2. calls \in Seq(Nat) /\ Len(calls) = n
  BY <1>1, SeqDef
<1>3. \A i, j \in 1 .. n : i # j => calls[i] # calls[j]
  OBVIOUS
<1> HIDE DEF calls
<1>4. PICK x \in Spoken : x = Assistant(calls) /\ x.calls = calls /\ x.role = "assistant"
  BY <1>2, AssistantIs
<1>5. PICK more \in Seq(Spoken) : more = <<x>> /\ Append(m, x) = m \o more /\ DOMAIN more = {1} /\ Len(more) = 1
                                  /\ more[1] = x
  BY AppendIsJoin
<1>6. PICK all : all = m \o more
  OBVIOUS
<1>7. /\ Len(all) = Len(m) + 1 /\ Len(m) \in Nat /\ all[Len(m) + 1] = x
      /\ \A i \in DOMAIN m : all[i] = m[i]
      /\ \A i \in DOMAIN all : i \in DOMAIN m \/ i - Len(m) \in DOMAIN more
      /\ DOMAIN all = 1 .. Len(m) + 1
  BY <1>5, <1>6, Joined
<1>8. \A i \in DOMAIN all : i \in DOMAIN m \/ i = Len(m) + 1
  BY <1>5, <1>7
<1>9. all[Len(all)].calls = calls /\ all[Len(m) + 1].role = "assistant"
  BY <1>4, <1>7
<1>10. \A i \in DOMAIN m :
         (m[i].calls # <<>> => Answered(all, i)) /\ (m[i].role = "tool" => Called(all, i))
  BY <1>5, <1>6, AnsweredKept DEF Linked
<1>11. \A i \in DOMAIN all : i # Len(all) => (all[i].calls # <<>> => Answered(all, i))
  BY <1>7, <1>8, <1>10
<1>12. \A i \in DOMAIN all : all[i].role = "tool" => Called(all, i)
  BY <1>7, <1>8, <1>9, <1>10
<1>13. Waiting(all)
  BY <1>2, <1>3, <1>7, <1>9, <1>11, <1>12 DEF Waiting
<1> QED BY <1>2, <1>4, <1>5, <1>6, <1>13 DEF calls

\* The results of all its calls, in whatever order, end the wait.
LEMMA ResultsLink ==
  ASSUME NEW m \in Seq(Spoken), Waiting(m),
         NEW order \in SetToSeqs(ToSet(Last(m).calls)),
         NEW sizes \in [ToSet(Last(m).calls) -> {1, BigSize}]
  PROVE  LET more == [i \in DOMAIN order |-> Result(order[i], sizes[order[i]])] IN
         /\ more \in Seq(Spoken) /\ Linked(m \o more)
         /\ \A i \in DOMAIN more : more[i].role = "tool" /\ more[i].what = "result"
<1> DEFINE top == Len(m)
           calls == m[top].calls
           more == [i \in DOMAIN order |-> Result(order[i], sizes[order[i]])]
<1>1. top \in Nat /\ top > 0 /\ DOMAIN m = 1 .. top
  BY DEF Waiting
<1>2. m[top] \in Spoken /\ Last(m) = m[top]
  BY <1>1 DEF Last
<1>3. calls \in Seq(Nat) /\ Len(calls) > 0 /\ \A i, j \in 1 .. Len(calls) : i # j => calls[i] # calls[j]
  BY <1>2 DEF Spoken, Waiting
<1>4. order \in Seq(ToSet(calls)) /\ Len(order) = Len(calls) /\ ToSet(order) = ToSet(calls)
  BY <1>2, <1>3, Reordered
<1>5. PICK c \in Nat : c = Len(calls) /\ DOMAIN order = 1 .. c /\ DOMAIN calls = 1 .. c /\ c > 0
  BY <1>3, <1>4
<1>6. ToSet(calls) \subseteq Nat
  BY <1>3 DEF ToSet
<1>7. \A i \in 1 .. c : order[i] \in ToSet(calls) /\ order[i] \in Nat /\ sizes[order[i]] \in Nat
  BY <1>2, <1>4, <1>5, <1>6, ConversationAssumption, SMTT(30) DEF ConversationAssumption
<1>8. \A i \in 1 .. c : /\ more[i] \in Spoken /\ more[i].role = "tool" /\ more[i].what = "result"
                        /\ more[i].calls = <<>> /\ more[i].answers = order[i]
  BY <1>5, <1>7, ResultIs
<1>9. more \in Seq(Spoken) /\ Len(more) = c /\ DOMAIN more = 1 .. c
  <2>1. more \in [1 .. c -> Spoken]
    BY <1>5, <1>8
  <2> QED BY <1>5, <2>1, SeqDef
<1> HIDE DEF more, calls, top
<1>10. PICK all : all = m \o more
  OBVIOUS
<1>11. /\ Len(all) = top + c /\ DOMAIN all = 1 .. top + c
       /\ \A i \in DOMAIN m : all[i] = m[i]
       /\ \A i \in 1 .. c : all[top + i] = more[i]
       /\ \A i \in DOMAIN all : i \in DOMAIN m \/ (i > top /\ i - top \in 1 .. c /\ all[i] = more[i - top])
  <2>1. /\ all \in Seq(Spoken) /\ Len(all) = top + c
        /\ \A i \in DOMAIN m : all[i] = m[i]
        /\ \A i \in DOMAIN more : all[top + i] = more[i]
        /\ \A i \in DOMAIN all : i \in DOMAIN m \/ (i > top /\ i - top \in DOMAIN more /\ all[i] = more[i - top])
    <3>1. top = Len(m)
      BY DEF top
    <3>2. /\ m \o more \in Seq(Spoken) /\ Len(m \o more) = Len(m) + c
          /\ \A i \in DOMAIN m : (m \o more)[i] = m[i]
          /\ \A i \in DOMAIN more : (m \o more)[Len(m) + i] = more[i]
          /\ \A i \in DOMAIN (m \o more) :
               i \in DOMAIN m \/ (i > Len(m) /\ i - Len(m) \in DOMAIN more /\ (m \o more)[i] = more[i - Len(m)])
      <4>1. more \in Seq(Spoken) /\ Len(more) = c
        BY <1>9
      <4> QED BY <4>1, Joined
    <3> QED BY <1>10, <3>1, <3>2
  <2>2. DOMAIN all = 1 .. top + c
    BY <2>1
  <2> QED BY <1>9, <2>1, <2>2
<1>12. all[top].calls = calls
  BY <1>1, <1>11 DEF calls
<1>13. Answered(all, top)
  <2>1. \A k \in 1 .. c : all[top + k].role = "tool" /\ all[top + k].answers = order[k]
    BY <1>8, <1>11
  <2>2. {all[top + k].answers : k \in 1 .. c} = {order[k] : k \in 1 .. c}
    BY <2>1
  <2>3. {order[k] : k \in 1 .. c} = ToSet(calls)
    BY <1>4, <1>5 DEF ToSet
  <2>4. top + c <= Len(all)
    BY <1>1, <1>11
  <2> QED BY <1>5, <1>12, <2>1, <2>2, <2>3, <2>4 DEF Answered
<1>14. ASSUME NEW i \in DOMAIN m PROVE all[i].calls # <<>> => Answered(all, i)
  <2>1. CASE i = top
    BY <1>13, <2>1
  <2>2. CASE i # top
    BY <2>2, <1>9, <1>10, <1>11, AnsweredKept DEF Waiting, top
  <2> QED BY <2>1, <2>2
<1>15. ASSUME NEW i \in DOMAIN m PROVE all[i].role = "tool" => Called(all, i)
  BY <1>9, <1>10, <1>11, AnsweredKept DEF Waiting
<1>16. ASSUME NEW i \in DOMAIN all, i \notin DOMAIN m
       PROVE  all[i].calls = <<>> /\ Called(all, i)
  <2>1. PICK k \in 1 .. c : k = i - top /\ all[i] = more[k] /\ i > top
    BY <1>11, <1>16
  <2>2. all[i].calls = <<>> /\ all[i].answers \in ToSet(calls)
    BY <1>7, <1>8, <2>1
  <2>3. i \in Int /\ top \in 1 .. (i - 1)
    BY <1>1, <1>11, <2>1
  <2>4. i <= top + c
    BY <1>1, <1>11, <2>1
  <2>5. top \in 1 .. (i - 1) /\ i <= top + Len(all[top].calls) /\ all[i].answers \in ToSet(all[top].calls)
    BY <1>5, <1>12, <2>2, <2>3, <2>4
  <2> QED BY <2>2, <2>5 DEF Called
<1>17. Linked(all)
  BY <1>14, <1>15, <1>16 DEF Linked
<1>18. \A i \in DOMAIN more : more[i].role = "tool" /\ more[i].what = "result"
  BY <1>8, <1>9
<1> QED BY <1>9, <1>10, <1>17, <1>18 DEF more

LEMMA WordsKept ==
  ASSUME NEW m \in Seq(Spoken), NEW more \in Seq(Spoken), HasWords(m)
  PROVE  HasWords(m \o more)
BY Joined DEF HasWords

----
(***************************************************************************)
(* Invariance                                                              *)
(***************************************************************************)
LEMMA ConvInitially == ConvInit => ConvInv
<1> SUFFICES ASSUME ConvInit PROVE ConvInv
  OBVIOUS
<1>1. history = <<>> /\ context = <<>> /\ turn = "idle" /\ made = 0
  BY DEF ConvInit
<1>2. Good(<<>>) /\ Linked(<<>>)
  BY DEF Good, Linked, Once, Asked
<1> QED BY <1>1, <1>2 DEF ConvInv

\* What a run starts from: the transcript of the runs before, or the instructions.
LEMMA SeedIsGood ==
  ASSUME ConvInv
  PROVE  LET seed == IF history # <<>> THEN history ELSE IF document THEN <<Instructions>> ELSE <<>> IN
         seed \in Seq(Spoken) /\ Once(seed) /\ Linked(seed)
<1>1. history \in Seq(Spoken) /\ Once(history) /\ Linked(history)
  BY DEF ConvInv, Good
<1>2. <<>> \in Seq(Spoken) /\ Once(<<>>) /\ Linked(<<>>)
  BY DEF Once, Linked
<1>3. PICK x \in Spoken : x = Instructions /\ x.calls = <<>> /\ x.role = "user" /\ x.what = "instructions"
  BY WordsAre
<1>4. PICK one \in Seq(Spoken) : one = <<x>> /\ DOMAIN one = {1} /\ one[1] = x
  <2>1. <<x>> \in Seq(Spoken) /\ DOMAIN <<x>> = {1} /\ <<x>>[1] = x
    BY <1>2, AppendIsJoin
  <2> QED BY <2>1
<1>5. Once(one) /\ Linked(one)
  BY <1>3, <1>4 DEF Once, Linked
<1> QED BY <1>1, <1>2, <1>3, <1>4, <1>5

LEMMA BeginRunStep ==
  ASSUME ConvInv, BeginRun
  PROVE  ConvInv'
<1>1. PICK named \in SUBSET Skills, matching \in SUBSET Skills :
        LET seed == IF history # <<>> THEN history
                    ELSE IF document THEN <<Instructions>> ELSE <<>>
            withNamed == seed \o SkillMessages(Missing(named, seed))
            withAll == withNamed \o SkillMessages(Missing(matching, withNamed))
        IN  context' = Append(withAll, Words)
  BY DEF BeginRun
<1>2. PICK seed \in Seq(Spoken) : seed = (IF history # <<>> THEN history ELSE IF document THEN <<Instructions>> ELSE <<>>)
                                  /\ Once(seed) /\ Linked(seed)
  BY SeedIsGood
<1>3. PICK a \in Seq(Spoken) : a = seed \o SkillMessages(Missing(named, seed)) /\ Once(a) /\ Linked(a)
  BY <1>2, SkillsAdded
<1>4. PICK b \in Seq(Spoken) : b = a \o SkillMessages(Missing(matching, a)) /\ Once(b) /\ Linked(b)
  BY <1>3, SkillsAdded
<1>5. context' = Append(b, Words)
  BY <1>1, <1>2, <1>3, <1>4
<1>6. PICK c \in Seq(Spoken) : c = Append(b, Words) /\ Asked(c) /\ HasWords(c)
  BY AskedLast
<1>7. Linked(c) /\ Once(c)
  <2>1. PICK w \in Spoken : w = Words /\ w.calls = <<>> /\ w.role = "user" /\ w.what \notin Skills
    BY WordsAre, KindsDiffer
  <2>2. PICK one \in Seq(Spoken) : one = <<w>> /\ DOMAIN one = {1} /\ one[1] = w /\ c = b \o one
    BY <1>6, <2>1, AppendIsJoin, ZenonT(30)
  <2>3. Plain(one) /\ \A i \in DOMAIN one : one[i].what \notin Skills
    BY <2>1, <2>2 DEF Plain
  <2> QED BY <1>4, <2>2, <2>3, PlainAdded, OnceAdded
<1>8. context' = c /\ turn' = "starts" /\ made' \in Nat /\ history' = history
  <2>1. turn' = "starts" /\ made' = made + 1 /\ history' = history /\ made \in Nat
    BY DEF BeginRun, ConvInv
  <2> QED BY <1>5, <1>6, <2>1
<1>9. Good(history) /\ Linked(history) /\ Good(c)
  BY <1>6, <1>7 DEF ConvInv, Good
<1> HIDE DEF Good, Linked, HasWords
<1> QED BY <1>6, <1>7, <1>8, <1>9 DEF ConvInv

LEMMA SendTurnStep ==
  ASSUME ConvInv, SendTurn
  PROVE  ConvInv'
<1>1. PICK c : c = Transformed(context)
  OBVIOUS
<1>2. Good(c) /\ Linked(c) /\ HasWords(c)
  BY <1>1, TransformedIsGood DEF SendTurn, ConvInv, Good
<1>3. context' = c /\ turn' = "sends" /\ made' = made /\ history' = history
  BY <1>1 DEF SendTurn
<1> QED BY <1>2, <1>3 DEF ConvInv

\* An assistant's message may follow wherever nothing is open.
LEMMA AssistantFollows ==
  ASSUME NEW m, Good(m), NEW calls \in Seq(Nat)
  PROVE  Good(Append(m, Assistant(calls))) /\ (HasWords(m) => HasWords(Append(m, Assistant(calls))))
         /\ (Linked(m) /\ calls = <<>> => Linked(Append(m, Assistant(calls))))
<1>1. PICK x \in Spoken : x = Assistant(calls) /\ x.role = "assistant" /\ x.what \notin Skills /\ x.calls = calls
  BY AssistantIs, KindsDiffer
<1>2. m \in Seq(Spoken) /\ Once(m) /\ Asked(m)
  BY DEF Good
<1>3. PICK one \in Seq(Spoken) : one = <<x>> /\ DOMAIN one = {1} /\ one[1] = x /\ Append(m, x) = m \o one
  BY <1>2, AppendIsJoin
<1>4. /\ \A i \in DOMAIN one : one[i].what \notin Skills
      /\ \A i \in DOMAIN one : one[i].role # "user"
      /\ calls = <<>> => Plain(one)
  BY <1>1, <1>3 DEF Plain
<1>5. PICK all : all = m \o one
  OBVIOUS
<1>6. all \in Seq(Spoken)
  BY <1>2, <1>3, <1>5, Joined
<1>7. Once(all)
  BY <1>2, <1>4, <1>5, OnceAdded
<1>8. Asked(all)
  BY <1>2, <1>4, <1>5, AskedAdded
<1>9. HasWords(m) => HasWords(all)
  BY <1>2, <1>5, WordsKept
<1>10. Linked(m) /\ calls = <<>> => Linked(all)
  BY <1>2, <1>4, <1>5, PlainAdded
<1> QED BY <1>1, <1>3, <1>5, <1>6, <1>7, <1>8, <1>9, <1>10 DEF Good

LEMMA WordsFollow ==
  ASSUME NEW m \in Seq(Spoken), Once(m), Linked(m)
  PROVE  Good(Append(m, Words)) /\ Linked(Append(m, Words)) /\ HasWords(Append(m, Words))
<1>1. PICK w \in Spoken : w = Words /\ w.calls = <<>> /\ w.role = "user" /\ w.what \notin Skills
  BY WordsAre, KindsDiffer
<1>2. PICK one \in Seq(Spoken) : one = <<w>> /\ DOMAIN one = {1} /\ one[1] = w /\ Append(m, w) = m \o one
  BY <1>1, AppendIsJoin
<1>3. Plain(one) /\ \A i \in DOMAIN one : one[i].what \notin Skills
  BY <1>1, <1>2 DEF Plain
<1> QED BY <1>1, <1>2, <1>3, AskedLast, PlainAdded, OnceAdded DEF Good

LEMMA RepliesStep ==
  ASSUME ConvInv, ReplyWithCalls \/ LastReply \/ ReplyBeforeFollowUp
  PROVE  ConvInv'
<1>1. Good(context) /\ Linked(context) /\ HasWords(context) /\ made \in Nat /\ turn = "sends"
      /\ Good(history) /\ Linked(history)
  BY DEF ConvInv, ReplyWithCalls, LastReply, ReplyBeforeFollowUp
<1>2. CASE ReplyWithCalls
  <2>1. PICK n \in 1 .. MaxCalls : context' = Append(context, Assistant([i \in 1 .. n |-> made + 1 + i])) /\ made' = made + 1 + n
    BY <1>2 DEF ReplyWithCalls
  <2>2. n \in Nat \ {0} /\ made + 1 \in Nat /\ made' \in Nat
    BY <1>1, <2>1, ConversationAssumption DEF ConversationAssumption
  <2>3. PICK calls \in Seq(Nat) : calls = [i \in 1 .. n |-> made + 1 + i] /\ Waiting(Append(context, Assistant(calls)))
    BY <1>1, <2>2, CallsWait DEF Good
  <2>4. PICK c : c = Append(context, Assistant(calls)) /\ Good(c) /\ HasWords(c) /\ Waiting(c)
    BY <1>1, <2>3, AssistantFollows
  <2>5. context' = c /\ turn' = "acts" /\ history' = history
    BY <1>2, <2>1, <2>3, <2>4 DEF ReplyWithCalls
  <2> QED BY <1>1, <2>2, <2>4, <2>5 DEF ConvInv
<1>3. <<>> \in Seq(Nat)
  OBVIOUS
<1>4. PICK c : c = Append(context, Assistant(<<>>)) /\ Good(c) /\ HasWords(c) /\ Linked(c)
  BY <1>1, <1>3, AssistantFollows
<1>5. CASE LastReply
  <2>1. history' = c /\ turn' = "idle" /\ context' = <<>> /\ made' = made
    BY <1>4, <1>5 DEF LastReply
  <2>2. Good(<<>>)
    BY DEF Good, Once, Asked
  <2> QED BY <1>1, <1>4, <2>1, <2>2 DEF ConvInv
<1>6. CASE ReplyBeforeFollowUp
  <2>1. context' = context \o <<Assistant(<<>>), Words>> /\ turn' = "starts" /\ made' \in Nat /\ history' = history
    BY <1>1, <1>6 DEF ReplyBeforeFollowUp
  <2>2. Assistant(<<>>) \in Spoken /\ Words \in Spoken
    BY <1>3, AssistantIs, WordsAre
  <2>3. context \o <<Assistant(<<>>), Words>> = Append(c, Words)
    <3>1. PICK x \in Spoken, w \in Spoken : x = Assistant(<<>>) /\ w = Words
      BY <2>2
    <3>2. context \in Seq(Spoken)
      BY <1>1 DEF Good
    <3>3. context \o <<x, w>> = Append(Append(context, x), w)
      BY <3>2
    <3> QED BY <1>4, <3>1, <3>3
  <2>4. PICK d : d = Append(c, Words) /\ Good(d) /\ Linked(d) /\ HasWords(d)
    BY <1>4, WordsFollow DEF Good
  <2> QED BY <1>1, <2>1, <2>3, <2>4 DEF ConvInv
<1> QED BY <1>2, <1>5, <1>6

LEMMA ResultsStep ==
  ASSUME ConvInv, Results
  PROVE  ConvInv'
<1>1. Good(context) /\ Waiting(context) /\ HasWords(context) /\ made \in Nat
      /\ Good(history) /\ Linked(history) /\ context \in Seq(Spoken) /\ Once(context) /\ Asked(context)
  BY DEF ConvInv, Results, Good
<1>2. PICK order \in SetToSeqs(ToSet(Last(context).calls)),
           sizes \in [ToSet(Last(context).calls) -> {1, BigSize}], steered \in BOOLEAN :
        context' = context \o [i \in DOMAIN order |-> Result(order[i], sizes[order[i]])]
                           \o (IF steered THEN <<Words>> ELSE <<>>)
  BY DEF Results
<1>3. PICK more \in Seq(Spoken) :
        /\ more = [i \in DOMAIN order |-> Result(order[i], sizes[order[i]])]
        /\ Linked(context \o more)
        /\ \A i \in DOMAIN more : more[i].role = "tool" /\ more[i].what = "result"
  BY <1>1, <1>2, ResultsLink
<1>4. \A i \in DOMAIN more : more[i].role # "user" /\ more[i].what \notin Skills
  BY <1>3, KindsDiffer
<1>5. PICK c \in Seq(Spoken) : c = context \o more /\ Linked(c) /\ Once(c) /\ Asked(c) /\ HasWords(c)
  BY <1>1, <1>3, <1>4, Joined, OnceAdded, AskedAdded, WordsKept
<1>6. turn' = "starts" /\ made' = made /\ history' = history
  BY DEF Results
<1>7. CASE steered
  <2>1. context' = c \o <<Words>>
    BY <1>2, <1>3, <1>5, <1>7
  <2>2. context' = Append(c, Words)
    BY <2>1, WordsAre, AppendIsJoin
  <2>3. PICK d : d = Append(c, Words) /\ Good(d) /\ Linked(d) /\ HasWords(d)
    BY <1>5, WordsFollow
  <2> QED BY <1>1, <1>6, <2>2, <2>3 DEF ConvInv
<1>8. CASE ~steered
  <2>1. context' = c \o <<>>
    BY <1>2, <1>3, <1>5, <1>8
  <2>2. c \o <<>> = c
    OBVIOUS
  <2> QED BY <1>1, <1>5, <1>6, <2>1, <2>2 DEF ConvInv, Good
<1> QED BY <1>7, <1>8

LEMMA ConvStep == ConvInv /\ [ConvNext]_convVars => ConvInv'
<1> SUFFICES ASSUME ConvInv, [ConvNext]_convVars PROVE ConvInv'
  OBVIOUS
<1>1. CASE UNCHANGED convVars
  BY <1>1 DEF convVars, ConvInv
<1>2. CASE Compact
  <2>1. Good(history) /\ Linked(history) /\ turn = "idle" /\ context = <<>>
    BY <1>2 DEF ConvInv, Compact
  <2>2. PICK h : h = PhaseA(history) /\ Good(h) /\ Linked(h)
    BY <2>1, PhaseAIsGood DEF Good
  <2>3. history' = h /\ UNCHANGED <<context, turn, made>>
    BY <1>2, <2>2 DEF Compact
  <2> QED BY <2>1, <2>2, <2>3 DEF ConvInv
<1>3. Good(<<>>) /\ Linked(<<>>)
  BY DEF Good, Linked, Once, Asked
<1>4. CASE ForgetHistory
  BY <1>3, <1>4 DEF ForgetHistory, ConvInv
<1>5. CASE BeginRun
  BY <1>5, BeginRunStep
<1>6. CASE SendTurn
  BY <1>6, SendTurnStep
<1>7. CASE ReplyWithCalls \/ LastReply \/ ReplyBeforeFollowUp
  BY <1>7, RepliesStep
<1>8. CASE Results
  BY <1>8, ResultsStep
<1>9. CASE TurnsUsedUp
  BY <1>3, <1>9 DEF TurnsUsedUp, ConvInv
<1>10. CASE RunFails
  BY <1>3, <1>10 DEF RunFails, ConvInv
<1> QED BY <1>1, <1>2, <1>4, <1>5, <1>6, <1>7, <1>8, <1>9, <1>10 DEF ConvNext

\* Whatever was compressed and in whatever order results came, the model is sent no
\* result without its call, no call without its results, and the user's words: for any
\* thresholds, any number of calls in a turn and any number of runs (compress.py:99).
THEOREM SentWellFormed == ConvSpec => []SentIsWellFormed
<1>1. ConvInv => SentIsWellFormed
  <2> SUFFICES ASSUME ConvInv, turn = "sends"
               PROVE  /\ \A i \in DOMAIN context : context[i].calls # <<>> => Group(i)
                      /\ \A i \in DOMAIN context : context[i].role = "tool" =>
                           \E j \in 1 .. (i - 1) : context[i].answers \in ToSet(context[j].calls)
                      /\ \E i \in DOMAIN context : context[i].what = "words"
    BY DEF SentIsWellFormed
  <2>1. Linked(context) /\ HasWords(context)
    BY DEF ConvInv
  <2> QED BY <2>1 DEF Linked, HasWords, Answered, Called, Group
<1> QED BY <1>1, ConvInitially, ConvStep, PTL DEF ConvSpec

\* A skill is in the transcript once at most, for any set of skills and however often it
\* is named or matches, from run to run and through compression (skills.py:234).
THEOREM SkillsOnce == ConvSpec => []SkillOnce
<1>1. ConvInv => SkillOnce
  <2> SUFFICES ASSUME ConvInv, NEW skill \in Skills
               PROVE  Cardinality({i \in DOMAIN context : context[i].what = skill}) <= 1
    BY DEF SkillOnce
  <2> DEFINE places == {i \in DOMAIN context : context[i].what = skill}
  <2>1. \A i, j \in places : i = j
    BY DEF ConvInv, Good, Once
  <2> HIDE DEF places
  <2>2. CASE places = {}
    BY <2>2, FS_EmptySet DEF places
  <2>3. CASE places # {}
    <3>1. PICK i : places = {i}
      BY <2>1, <2>3
    <3>2. Cardinality(places) = 1
      BY <3>1, FS_Singleton
    <3> QED BY <3>2 DEF places
  <2> QED BY <2>2, <2>3
<1> QED BY <1>1, ConvInitially, ConvStep, PTL DEF ConvSpec
====
