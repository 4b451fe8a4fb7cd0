---- MODULE Chat ----
(***************************************************************************)
(* The command line over the sessions of a workspace (cli.py, registry.py):*)
(* a chat loop holds a conversation in memory and saves it after each run, *)
(* `retry` goes on from what a failed run left, `session branch` and       *)
(* `session fork` change what a session leads to, and all of them share    *)
(* the name of the current session.                                        *)
(*                                                                         *)
(* A run may end, be interrupted with Ctrl-C or die; a command that does   *)
(* not run the agent is one step, and so is a save: what two of them do to *)
(* each other inside a session's files is the subject of SessionLog.       *)
(*                                                                         *)
(* Abstracted: a run adds one message, its own number.  A node on disk has *)
(* the whole conversation it stands for, as materialize_messages finds it. *)
(* The clock is left out: a new session has any name that has no file yet. *)
(***************************************************************************)
EXTENDS Integers, Sequences

CONSTANTS
  Terminals,      \* where commands are given
  SessionNames,   \* the names a session may have
  Default,        \* the one a workspace starts with
  NoSession,      \* what `run` has instead
  MaxRuns,        \* bound of the model: runs ever started
  MaxShelf,       \* bound of the model: nodes of a session
  MaxResave       \* bound of the model: nodes of a session that is saved unchanged

ASSUME ChatAssumption ==
  /\ Default \in SessionNames /\ NoSession \notin SessionNames
  /\ MaxRuns \in Nat /\ MaxShelf \in Nat /\ MaxResave \in Nat

VARIABLES
  shelf,      \* .coderking/sessions: per session its nodes, and the current one
  pointer,    \* .coderking/session.current
  book,       \* the task records, in the order of their runs
  seat,       \* per terminal: the command that runs in it
  leftBy      \* history: per run, the conversation last saved for it in its session

chatVars == <<shelf, pointer, book, seat, leftBy>>

----
Summary == 0                                 \* the message a compaction puts first
NoRun == 0
Unsaved == <<-1>>
NoFile == [nodes |-> <<>>, tip |-> 0]
NoState == [text |-> <<>>, task |-> NoRun]

Begins(whole, start) == Len(start) <= Len(whole) /\ SubSeq(whole, 1, Len(start)) = start

\* The run whose snapshot a node's branch shows: that of the nearest run node.
NodeOf(up, text, kind, task) == [up |-> up, text |-> text, kind |-> kind, run |-> task]
TextAt(file, n) == IF n = 0 THEN <<>> ELSE file.nodes[n].text
RunAt(file, n) == IF n = 0 THEN NoRun ELSE file.nodes[n].run

\* _state_from_session_payload: without a snapshot there is no state at all.
StateAt(file, n) ==
  IF RunAt(file, n) = NoRun THEN NoState
  ELSE [text |-> TextAt(file, n), task |-> RunAt(file, n)]
Loaded(s) == StateAt(shelf[s], shelf[s].tip)

\* Opening a session that has no file gives it its root.
Opened(file) ==
  IF file = NoFile THEN [nodes |-> <<NodeOf(0, <<>>, "root", NoRun)>>, tip |-> 1] ELSE file

\* The nodes save_session adds for a conversation, each below the one before.
Appended(file, n, text, task) ==
  LET stored == TextAt(file, n)
      size == Len(file.nodes)
      more == IF Begins(text, stored) THEN Len(text) - Len(stored) ELSE 0
      spoken == [i \in 1 .. more |->
                   NodeOf(IF i = 1 THEN n ELSE size + i - 1,
                          SubSeq(text, 1, Len(stored) + i), "message", RunAt(file, n))]
      rewritten == IF Begins(text, stored) THEN <<>>
                   ELSE <<NodeOf(n, text, "compression", RunAt(file, n))>>
      added == spoken \o rewritten
      below == IF added = <<>> THEN n ELSE size + Len(added)
  IN  added \o <<NodeOf(below, text, "run", task)>>

Filed(file, text, task) ==
  LET old == Opened(file)
      nodes == old.nodes \o Appended(old, old.tip, text, task)
  IN  [nodes |-> nodes, tip |-> Len(nodes)]

\* _compact_state: one summary for all but the last message, if there is more to
\* summarise than a summary.
Compacted(text) ==
  IF Len(text) < 2 \/ (Len(text) = 2 /\ text[1] = Summary) THEN text
  ELSE <<Summary, text[Len(text)]>>

\* What a terminal knows of its session's file when it last read or wrote it.
Sight(file) == <<Len(file.nodes), file.tip>>

Shell == [at |-> "shell", loop |-> FALSE, session |-> NoSession, held |-> NoState,
          run |-> NoRun, sight |-> <<0, 0>>]
Prompting(s, state, file) ==
  [at |-> "prompt", loop |-> TRUE, session |-> s, held |-> state, run |-> NoRun,
   sight |-> Sight(file)]

\* new_session_id: a name without a file, though another loop may have it too.
Free == {s \in SessionNames : shelf[s] = NoFile}

ChatInit ==
  /\ shelf = [s \in SessionNames |-> NoFile]
  /\ pointer = Default
  /\ book = <<>>
  /\ seat = [t \in Terminals |-> Shell]
  /\ leftBy = <<>>

----
(***************************************************************************)
(* The chat loop                                                           *)
(***************************************************************************)
\* `chat` goes on with the current session, `chat --resume` with any on disk.
Resumable == {pointer} \union {s \in SessionNames : shelf[s] # NoFile}

OpenChat(t) ==
  /\ seat[t].at = "shell"
  /\ \E s \in Resumable :
       LET file == Opened(shelf[s])
       IN  /\ pointer' = s
           /\ shelf' = [shelf EXCEPT ![s] = file]
           /\ seat' = [seat EXCEPT ![t] = Prompting(s, StateAt(file, file.tip), file)]
  /\ UNCHANGED <<book, leftBy>>

New(t) ==
  /\ seat[t].at = "shell"
  /\ \E s \in Free :
       LET file == Opened(NoFile)
       IN  /\ pointer' = s
           /\ shelf' = [shelf EXCEPT ![s] = file]
           /\ seat' = [seat EXCEPT ![t] = Prompting(s, NoState, file)]
  /\ UNCHANGED <<book, leftBy>>

StateOfNewKept(t) == seat[t].held           \* mutant: the loop keeps its conversation
StateOfNew(t) == NoState

\* `/new`: nothing is written but the name; the file comes with the first save.
SlashNew(t) ==
  /\ seat[t].at = "prompt"
  /\ \E s \in Free :
       /\ pointer' = s
       /\ seat' = [seat EXCEPT ![t] = Prompting(s, StateOfNew(t), NoFile)]
  /\ UNCHANGED <<shelf, book, leftBy>>

\* A save in a session, and what it leaves for a later retry of the run.
Saves(s, text, task, records) ==
  /\ shelf' = [shelf EXCEPT ![s] = Filed(@, text, task)]
  /\ Len(shelf'[s].nodes) <= MaxShelf
  /\ leftBy' = IF task \in DOMAIN records /\ records[task].session = s
             THEN [r \in DOMAIN records |-> IF r = task THEN text ELSE leftBy[r]]
             ELSE leftBy

\* `/compact` saves again, under the name of the run that was saved before, even
\* when there was nothing to summarise.
SlashCompact(t) ==
  LET here == seat[t]
      text == Compacted(here.held.text)
  IN  /\ here.at = "prompt" /\ here.held # NoState
      /\ text # here.held.text \/ Len(shelf[here.session].nodes) <= MaxResave
      /\ Saves(here.session, text, here.held.task, book)
      /\ seat' = [seat EXCEPT ![t] = Prompting(here.session, [here.held EXCEPT !.text = text],
                                               shelf'[here.session])]
      /\ UNCHANGED <<pointer, book>>

ExitLoop(t) ==
  /\ seat[t].at = "prompt"
  /\ seat' = [seat EXCEPT ![t] = Shell]
  /\ UNCHANGED <<shelf, pointer, book, leftBy>>

----
(***************************************************************************)
(* Runs                                                                    *)
(***************************************************************************)
\* new_run_state: a run of its own that carries the conversation on.
Carried(s, previous, again) ==
  [session |-> s, status |-> "running", began |-> previous.text,
   parent |-> previous.task, again |-> again]

Starts(t, loop, s, previous, again) ==
  /\ Len(book) < MaxRuns
  /\ book' = Append(book, Carried(s, previous, again))
  /\ leftBy' = Append(leftBy, Unsaved)
  /\ seat' = [seat EXCEPT ![t] =
                [@ EXCEPT !.at = "running", !.loop = loop, !.session = s,
                          !.held = previous, !.run = Len(book')]]
  /\ UNCHANGED <<shelf, pointer>>

Prompt(t) ==
  /\ seat[t].at = "prompt"
  /\ Starts(t, TRUE, seat[t].session, seat[t].held, FALSE)

Run(t) ==
  /\ seat[t].at = "shell"
  /\ Starts(t, FALSE, NoSession, NoState, FALSE)

\* load_session_run: the last run node of a run in its session's file.
RunNodesOf(file, r) == {n \in DOMAIN file.nodes : file.nodes[n].kind = "run" /\ file.nodes[n].run = r}
LastOf(nodes) == CHOOSE n \in nodes : \A other \in nodes : other <= n

RunStateAtHead(r) == IF book[r].session = NoSession THEN [text |-> <<>>, task |-> r]   \* mutant
                     ELSE [text |-> Loaded(book[r].session).text, task |-> r]
RunState(r) ==
  LET record == book[r]
      nodes == IF record.session = NoSession THEN {} ELSE RunNodesOf(shelf[record.session], r)
  IN  IF nodes = {} THEN [text |-> <<>>, task |-> r]
      ELSE StateAt(shelf[record.session], LastOf(nodes))

Again(t) ==
  /\ seat[t].at = "shell"
  /\ \E r \in DOMAIN book :
       /\ book[r].status \in {"failed", "interrupted"}
       /\ Starts(t, FALSE, book[r].session, RunState(r), TRUE)

\* The run is over and the loop, or `retry`, saves what it has; a run that raises
\* leaves the conversation as it was.  One that a stop interrupted counts as failed:
\* `retry` takes both.
Outcome == {"succeeded", "failed"}

EndAndSave(t) ==
  LET here == seat[t]
      before == here.held.text
  IN  \E how \in Outcome, text \in {before, Append(before, here.run)} :
        /\ here.at = "running"
        /\ (how = "succeeded") => text # before
        /\ book' = [book EXCEPT ![here.run].status = how]
        /\ IF here.session = NoSession THEN UNCHANGED <<shelf, leftBy>>
           ELSE Saves(here.session, text, here.run, book)
        /\ seat' = [seat EXCEPT ![t] =
                      IF here.loop
                      THEN Prompting(here.session, [text |-> text, task |-> here.run],
                                     shelf'[here.session])
                      ELSE Shell]
        /\ UNCHANGED pointer

\* Ctrl-C, or the end of the process: nothing is saved, and whoever reads the
\* record next takes the run as interrupted.
CutOff(t) ==
  /\ seat[t].at = "running"
  /\ book' = [book EXCEPT ![seat[t].run].status = "interrupted"]
  /\ seat' = [seat EXCEPT ![t] = Shell]
  /\ UNCHANGED <<shelf, pointer, leftBy>>

----
(***************************************************************************)
(* `session branch` and `session fork`                                     *)
(***************************************************************************)
Branches(t) ==
  /\ seat[t].at = "shell"
  /\ \E s \in SessionNames : \E n \in DOMAIN shelf[s].nodes :
       /\ shelf' = [shelf EXCEPT ![s].tip = n]
       /\ pointer' = s
  /\ UNCHANGED <<book, seat, leftBy>>

\* The payload of a branch that has messages but no run carries no task.
Forks(t) ==
  /\ seat[t].at = "shell"
  /\ \E s \in SessionNames, target \in Free :
       LET text == TextAt(shelf[s], shelf[s].tip)
           task == RunAt(shelf[s], shelf[s].tip)
       IN  /\ text # <<>> \/ task # NoRun
           /\ Saves(target, text, task, book)
           /\ pointer' = target
  /\ UNCHANGED <<book, seat>>

----
ChatNext ==
  \E t \in Terminals :
    \/ OpenChat(t) \/ New(t) \/ SlashNew(t) \/ SlashCompact(t) \/ ExitLoop(t)
    \/ Prompt(t) \/ Run(t) \/ Again(t) \/ EndAndSave(t) \/ CutOff(t)
    \/ Branches(t) \/ Forks(t)

ChatSpec == ChatInit /\ [][ChatNext]_chatVars

----
(***************************************************************************)
(* What the command line promises                                          *)
(***************************************************************************)
\* As long as nobody else has touched its session, the loop holds just what the
\* session's current branch holds: a prompt goes on where a loop that is started
\* anew would (the state _chat_loop carries from _state_from_session through
\* /new, /compact and the saves).
ChatGoesOn ==
  \A t \in Terminals :
    LET here == seat[t]
    IN  (here.at = "prompt" /\ here.sight = Sight(shelf[here.session]))
          => here.held = Loaded(here.session)

\* A run that is retried goes on from the conversation that was saved for it last,
\* whatever has been said in the session, and wherever its head was moved, since
\* (load_session_run).
RetryGoesOn ==
  [][\A r \in DOMAIN book' \ DOMAIN book :
       LET p == book'[r].parent
       IN  (book'[r].again /\ leftBy[p] # Unsaved) => book'[r].began = leftBy[p]]_chatVars

\* "the new run keeps the conversation of the session" (docs/cli/README.md:146): a
\* retry begins with what the retried run began with, unless it was compacted.
RetryKeepsTheContext ==
  \A r \in DOMAIN book :
    (book[r].again /\ \A i \in DOMAIN book[r].began : book[r].began[i] # Summary)
      => Begins(book[r].began, book[book[r].parent].began)
====
