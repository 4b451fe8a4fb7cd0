---- MODULE SessionLog ----
(***************************************************************************)
(* One session on disk (session/repo.py) and those who load, save and      *)
(* branch it (registry.py, the CLI, the RPC service): a log file to which  *)
(* nodes are appended, and a head file that names the current node.  Both  *)
(* are read whole when a session is opened and written one after the other.*)
(*                                                                         *)
(* A step is one access to one of the files.  A behaviour has either one   *)
(* saver, which may die between and inside any two accesses, or several    *)
(* that live; a line reaches the log at once unless its writer dies, who   *)
(* may leave a part of it, or all of it but the newline.                   *)
(*                                                                         *)
(* Abstracted: a conversation is a short sequence of messages; the rest of *)
(* a run's snapshot and the import of older formats are left out.          *)
(***************************************************************************)
EXTENDS Integers, Sequences, FiniteSets, Functions

CONSTANTS
  Savers,     \* the processes that use the session
  Messages,   \* what a conversation is made of
  Breaking,   \* messages with a character only str.splitlines breaks at
  MaxTalk,    \* bound of the model: messages of a conversation
  MaxNodes    \* bound of the model: nodes ever created

ASSUME LogAssumption ==
  /\ Breaking \subseteq Messages /\ Savers # {}
  /\ MaxTalk \in Nat /\ MaxNodes \in Nat

VARIABLES
  log,        \* the lines of <session>.jsonl
  ended,      \* the last line of the log, if it is JSON, has its newline
  head,       \* what <session>.head names
  born,       \* nodes created so far: the next id
  active,     \* the savers of this behaviour
  pc,         \* per saver: the access it makes next
  talk,       \* per saver: its conversation, state.messages
  mine,       \* per saver: repo._head_id
  todo,       \* per saver: nodes still to be appended; a run's node carries, as
              \* history, the conversation it is to stand for
  kept,       \* per saver: the valid part of the log, as recover_tail read it
  promise     \* history: the conversation last saved, until the head file is written again

diskVars == <<log, ended, head, born>>
repoVars == <<pc, talk, mine, todo, kept>>
logVars == <<diskVars, active, repoVars, promise>>

----
NoHead == -1                                  \* there is no head file
Spoilt == 0                                   \* a head file that is no JSON
Torn == [id |-> 0, parent |-> 0, kind |-> "torn", text |-> <<>>]
NoPromise == <<"none">>

Draft(kind, text) == [kind |-> kind, text |-> text]
Ids(lines) == {lines[i].id : i \in DOMAIN lines} \ {0}
Node(lines, id) == lines[CHOOSE i \in DOMAIN lines : lines[i].id = id]
Roots(lines) == {id \in Ids(lines) : Node(lines, id).parent = 0}
Highest(ids) == CHOOSE id \in ids : \A other \in ids : other <= id
PrefixesOf(s) == {SubSeq(s, 1, n) : n \in 0 .. Len(s)}

\* materialize_messages: the conversation on the way from the root to a node.
Spoken(lines, id) ==
  LET upTo[n \in 0 .. born] ==
        IF n \notin Ids(lines) THEN <<>>
        ELSE LET node == Node(lines, n)
             IN  CASE node.kind = "message"     -> upTo[node.parent] \o node.text
                   [] node.kind = "compression" -> node.text
                   [] OTHER                     -> upTo[node.parent]
  IN  upTo[id]

LoadedHeadUnchecked(lines, h) == IF h = NoHead THEN 0 ELSE h   \* mutant: any id will do

\* _load_head: 0 if the session has no current node.
LoadedHead(lines, h) ==
  IF h = NoHead
  THEN IF Roots(lines) = {} THEN 0 ELSE Highest(Roots(lines))
  ELSE IF h \in Ids(lines) THEN h ELSE 0

\* The lines recover_tail keeps: those before the first that is no JSON.
Valid(lines) ==
  LET bad == {i \in DOMAIN lines : lines[i] = Torn}
  IN  IF bad = {} THEN lines
      ELSE SubSeq(lines, 1, (CHOOSE i \in bad : \A j \in bad : i <= j) - 1)

\* _load_lines splits the text at more characters than recover_tail splits the bytes.
Readable(lines) ==
  \A i \in DOMAIN lines :
    lines[i] # Torn /\ \A k \in DOMAIN lines[i].text : lines[i].text[k] \notin Breaking

ExtendsInLength(longer, shorter) == Len(longer) >= Len(shorter)   \* mutant
Extends(longer, shorter) == shorter \in PrefixesOf(longer)

\* What save_session appends for a conversation when another is stored.
Delta(spoken, stored) ==
  IF Extends(spoken, stored)
  THEN [i \in 1 .. (Len(spoken) - Len(stored)) |->
          Draft("message", <<spoken[Len(stored) + i]>>)]
  ELSE <<Draft("compression", spoken)>>

Root(lines) == IF Ids(lines) = {} THEN <<Draft("root", <<>>)>> ELSE <<>>

\* A session starts with no file, or with what ensure_session left.
LogInit ==
  /\ \/ log = <<>> /\ head = NoHead /\ born = 0
     \/ /\ log = <<[id |-> 1, parent |-> 0, kind |-> "root", text |-> <<>>]>>
        /\ head = 1 /\ born = 1
  /\ ended = TRUE
  /\ active \in SUBSET Savers \ {{}}
  /\ pc = [p \in Savers |-> "idle"]
  /\ talk = [p \in Savers |-> <<>>]
  /\ mine = [p \in Savers |-> 0]
  /\ todo = [p \in Savers |-> <<>>]
  /\ kept = [p \in Savers |-> <<>>]
  /\ promise = NoPromise

----
(***************************************************************************)
(* Opening a session: whoever does so recovers the log first               *)
(***************************************************************************)
\* write_bytes empties the file before it writes the valid part back.
Truncate(p) ==
  /\ pc[p] = "idle" /\ Valid(log) # log
  /\ kept' = [kept EXCEPT ![p] = Valid(log)]
  /\ log' = <<>> /\ ended' = TRUE
  /\ pc' = [pc EXCEPT ![p] = "rewrite"]
  /\ UNCHANGED <<head, born, active, talk, mine, todo, promise>>

Rewrite(p) ==
  /\ pc[p] = "rewrite"
  /\ log' = kept[p] /\ ended' = TRUE
  /\ kept' = [kept EXCEPT ![p] = <<>>]
  /\ pc' = [pc EXCEPT ![p] = "idle"]
  /\ UNCHANGED <<head, born, active, talk, mine, todo, promise>>

Opens(p) == pc[p] = "idle" /\ Readable(log)

\* What a run makes of a conversation: it adds messages, or compacts it.
Continued(before) ==
  {c \in UNION {[1 .. n -> Messages] : n \in 0 .. MaxTalk} :
     Extends(c, before) \/ (Len(before) > 1 /\ Len(c) = 1)}

\* Nodes that saves under way may still create (only the bound needs this).
Reserved == FoldFunction(LAMBDA ahead, sum : Len(ahead) + sum, 0, todo)

\* save_session compares the stored conversation with the one a run has made.
Save(p) ==
  /\ Opens(p)
  /\ \E c \in Continued(talk[p]) :
       LET at == LoadedHead(log, head)
           ahead == Root(log) \o Delta(c, Spoken(log, at)) \o <<Draft("run", c)>>
       IN  /\ born + Len(ahead) + Reserved <= MaxNodes
           /\ talk' = [talk EXCEPT ![p] = c]
           /\ mine' = [mine EXCEPT ![p] = at]
           /\ todo' = [todo EXCEPT ![p] = ahead]
  /\ pc' = [pc EXCEPT ![p] = "append"]
  /\ UNCHANGED <<diskVars, active, kept, promise>>

\* load_session at the head, load_session_run at the node of a run.
Load(p, node) ==
  /\ Opens(p) /\ log # <<>>
  /\ talk' = [talk EXCEPT ![p] = Spoken(log, node)]
  /\ UNCHANGED <<diskVars, active, pc, mine, todo, kept, promise>>

RunNodes == {id \in Ids(Valid(log)) : Node(log, id).kind = "run"}
Resume(p) == Load(p, LoadedHead(log, head))
Retry(p) == \E node \in RunNodes : Load(p, node)

\* branch_to
Branch(p) ==
  /\ Opens(p)
  /\ \E node \in Ids(log) : mine' = [mine EXCEPT ![p] = node]
  /\ pc' = [pc EXCEPT ![p] = "move"]
  /\ UNCHANGED <<diskVars, active, talk, todo, kept, promise>>

----
(***************************************************************************)
(* SessionRepo.append: the line, then the head file                        *)
(***************************************************************************)
ParentOnDisk(p) == LoadedHead(log, head)              \* mutant: what others made current
ParentOf(p) == mine[p]

NewLine(p) == [id |-> born + 1, parent |-> ParentOf(p),
               kind |-> Head(todo[p]).kind, text |-> Head(todo[p]).text]

\* The log with a line written at its end.  A last line without its newline and the
\* new one become one line that is no JSON.  What follows such a line nobody reads:
\* whoever opens the session drops it first.
With(line) ==
  IF Valid(log) # log THEN log
  ELSE IF ended THEN Append(log, line) ELSE Append(SubSeq(log, 1, Len(log) - 1), Torn)

AppendLine(p) ==
  /\ pc[p] = "append"
  /\ log' = With(NewLine(p)) /\ ended' = TRUE
  /\ born' = born + 1
  /\ mine' = [mine EXCEPT ![p] = born + 1]
  /\ todo' = [todo EXCEPT ![p] = Tail(@)]
  /\ pc' = [pc EXCEPT ![p] = "head"]
  /\ UNCHANGED <<head, active, talk, kept, promise>>

WriteHead(p) ==
  /\ head' = mine[p]
  /\ pc' = [pc EXCEPT ![p] = IF todo[p] = <<>> THEN "idle" ELSE "append"]
  /\ mine' = [mine EXCEPT ![p] = IF todo[p] = <<>> THEN 0 ELSE @]
  /\ UNCHANGED <<log, ended, born, active, talk, todo, kept>>

\* A save whose first line ended up in another one promises nothing: the next opening
\* drops all its lines.
SaveHead(p) ==
  /\ pc[p] = "head" /\ WriteHead(p)
  /\ promise' = IF todo[p] = <<>> /\ Valid(log) = log THEN talk[p] ELSE NoPromise

MoveHead(p) ==
  /\ pc[p] = "move" /\ WriteHead(p)
  /\ promise' = NoPromise

\* What a saver that dies with its next access leaves of the log: the line it was to
\* append may be there in part, or whole and without its newline.
CutAppend(p) ==
  \/ UNCHANGED <<log, ended, born>>
  \/ log' = With(Torn) /\ ended' = TRUE /\ UNCHANGED born
  \/ /\ Valid(log) = log /\ ended
     /\ log' = Append(log, NewLine(p)) /\ ended' = FALSE /\ born' = born + 1

\* The first bytes of the lines that were to be written back.
CutRewrite(p) ==
  /\ \/ log' \in PrefixesOf(kept[p]) /\ ended' \in {TRUE, log' = <<>>}
     \/ \E n \in 0 .. Len(kept[p]) - 1 :
          log' = Append(SubSeq(kept[p], 1, n), Torn) /\ ended' = TRUE
  /\ UNCHANGED born

\* The only saver dies and is started again: a file it was writing is cut short.
Die(p) ==
  /\ active = {p} /\ pc[p] # "idle"
  /\ CASE pc[p] = "append"  -> CutAppend(p)
       [] pc[p] = "rewrite" -> CutRewrite(p)
       [] OTHER             -> UNCHANGED <<log, ended, born>>
  /\ head' \in IF pc[p] \in {"head", "move"} THEN {head, Spoilt} ELSE {head}
  /\ pc' = [pc EXCEPT ![p] = "idle"]
  /\ talk' = [talk EXCEPT ![p] = <<>>]
  /\ mine' = [mine EXCEPT ![p] = 0]
  /\ todo' = [todo EXCEPT ![p] = <<>>]
  /\ kept' = [kept EXCEPT ![p] = <<>>]
  /\ promise' = IF head' = head /\ (pc[p] = "rewrite" => log' = kept[p] /\ ended')
                THEN promise ELSE NoPromise
  /\ UNCHANGED active

----
LogNext ==
  \E p \in active :
    \/ Truncate(p) \/ Rewrite(p)
    \/ Save(p) \/ Resume(p) \/ Retry(p) \/ Branch(p)
    \/ AppendLine(p) \/ SaveHead(p) \/ MoveHead(p) \/ Die(p)

LogSpec == LogInit /\ [][LogNext]_logVars

----
(***************************************************************************)
(* Properties                                                              *)
(***************************************************************************)
\* walk_to never meets a missing node: whatever savers do at once and wherever one
\* dies, the parent of a node that can be read stands before it in the log.
ChainsAreWhole ==
  \A i \in DOMAIN Valid(log) :
    log[i].parent = 0 \/ \E j \in 1 .. (i - 1) : log[j].id = log[i].parent

\* load_session_run: however savers interleave, branch or die, the node of a run
\* stands for exactly the conversation that was saved with it, never for a mixture.
RunsAreExact ==
  \A id \in RunNodes : Spoken(Valid(log), id) = Node(log, id).text

\* The log while somebody rewrites it is what he read of it.
RewrittenLog ==
  IF \E p \in Savers : pc[p] = "rewrite"
  THEN kept[CHOOSE p \in Savers : pc[p] = "rewrite"] ELSE Valid(log)

\* A completed save is what the next load returns, whatever is loaded and whoever
\* dies, up to the next writing of the head file: lines appended behind it, torn or
\* glued to one another, and a log being recovered do not touch it.  Two things
\* may: a recovery that dies, and a save made where a death had left a line without
\* its newline, which is lost (see SaveHead).
SavedIsKept ==
  promise # NoPromise =>
    Spoken(RewrittenLog, LoadedHead(RewrittenLog, head)) = promise

\* What the tree has of a line, and of the lines.
Pair(line) == [id |-> line.id, parent |-> line.parent]
TreeOf(lines) == {Pair(lines[i]) : i \in DOMAIN lines}

Promised == INSTANCE SessionTree WITH
  tree <- TreeOf(RewrittenLog),
  current <- LoadedHead(RewrittenLog, head)

\* The log and the head file implement the tree: nodes are only added, below nodes
\* that are there; a death may cost the newest of them.
ImplementsTree == Promised!TreeSpec
====
