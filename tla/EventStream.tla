---- MODULE EventStream ----
(***************************************************************************)
(* The events of one task (controller.py, http/sse.py, the WebSocket of    *)
(* api/app.py, the forwarder of rpc.py): each is recorded in the task's    *)
(* snapshot and put on its one queue.  A connection first replays the      *)
(* snapshot and then takes from the queue, which every connection shares.  *)
(*                                                                         *)
(* Sending is awaited, so anything may happen between two sends; a client  *)
(* that is gone is noticed by a failing send, or sooner.                   *)
(*                                                                         *)
(* Abstracted: an event is its number; a page keeps what it has got.       *)
(***************************************************************************)
EXTENDS Integers, Sequences, SequencesExt

CONSTANTS
  Pages,        \* the clients: browser pages, or the one of the RPC service
  Connections,  \* those that may be made, by any page, any number of them at once
  MaxEvents     \* bound of the model: events of the task

ASSUME StreamAssumption == MaxEvents \in Nat

VARIABLES
  recorded,     \* the snapshot holds the events 1 .. recorded
  queue,        \* ManagedTask.events: numbers of events, and EndMark
  emitting,     \* runner() has not ended yet
  link,         \* per connection: its page, its kind, where it stands, what is left to replay
  seen,         \* history: per page, the events it has got
  lastSeen,     \* per page, the id it got last: its Last-Event-ID, 0 if none
  diverted      \* history: per page, the events another connection took while it was attached

streamVars == <<recorded, queue, emitting, link, seen, lastSeen, diverted>>

EndMark == 0
NoLink ==
  [page |-> "none", kind |-> "none", at |-> "unused", replay |-> <<>>, upTo |-> 0, there |-> FALSE]

StreamInit ==
  /\ recorded = 0 /\ queue = <<>> /\ emitting = TRUE
  /\ link = [c \in Connections |-> NoLink]
  /\ seen = [p \in Pages |-> {}] /\ diverted = [p \in Pages |-> {}]
  /\ lastSeen = [p \in Pages |-> 0]

----
(***************************************************************************)
(* The task                                                                *)
(***************************************************************************)
\* _record_event and the put that follows, by the run or, also when it has ended,
\* by steer() and follow_up().
Emit ==
  /\ recorded < MaxEvents
  /\ recorded' = recorded + 1
  /\ queue' = Append(queue, recorded + 1)
  /\ UNCHANGED <<emitting, link, seen, lastSeen, diverted>>

EndOfRun ==
  /\ emitting
  /\ emitting' = FALSE
  /\ queue' = Append(queue, EndMark)
  /\ UNCHANGED <<recorded, link, seen, lastSeen, diverted>>

----
(***************************************************************************)
(* Connections                                                             *)
(***************************************************************************)
Over == [NoLink EXCEPT !.at = "over"]
Open(c) == link[c].at \in {"replay", "live"}
Attached(p) == \E c \in Connections : Open(c) /\ link[c].there /\ link[c].page = p

EventsSinceNext(last) ==                                \* mutant: skips one too many
  IF last = 0 THEN [i \in 1 .. recorded |-> i] ELSE [i \in 1 .. (recorded - last - 1) |-> last + 1 + i]

\* events_since: the records after the one named, all of them if there is none.
EventsSince(last) == [i \in 1 .. (recorded - last) |-> last + i]

\* An SSE stream copies what it has to replay; a WebSocket walks the snapshot as
\* it grows; the forwarder of the RPC service replays nothing.
Connect(c, p, kind) ==
  /\ link[c].at = "unused"
  /\ link' = [link EXCEPT ![c] =
       [page |-> p, kind |-> kind, there |-> TRUE, upTo |-> 0,
        at |-> IF kind = "rpc" THEN "live" ELSE "replay",
        replay |-> IF kind = "sse" THEN EventsSince(lastSeen[p]) ELSE <<>>]]
  /\ kind = "rpc" => recorded = 0 /\ queue = <<>>
  /\ UNCHANGED <<recorded, queue, emitting, seen, lastSeen, diverted>>

\* What a connection has still to replay.
Left(c) ==
  IF link[c].at # "replay" THEN <<>>
  ELSE IF link[c].kind = "sse" THEN link[c].replay
  ELSE [i \in 1 .. (recorded - link[c].upTo) |-> link[c].upTo + i]

\* An event reaches the page, or the send fails and the connection ends.
Send(c, event, next) ==
  IF link[c].there
  THEN /\ link' = [link EXCEPT ![c] = next]
       /\ seen' = [seen EXCEPT ![link[c].page] = @ \union {event}]
       /\ lastSeen' = [lastSeen EXCEPT ![link[c].page] = event]
  ELSE /\ link' = [link EXCEPT ![c] = Over]
       /\ UNCHANGED <<seen, lastSeen>>

Replay(c) ==
  /\ link[c].at = "replay" /\ Left(c) # <<>>
  /\ LET next == [link[c] EXCEPT !.upTo = Head(Left(c)),
                                 !.replay = IF link[c].kind = "sse" THEN Tail(@) ELSE @]
     IN  Send(c, Head(Left(c)), next)
  /\ UNCHANGED <<recorded, queue, emitting, diverted>>

GoLive(c) ==
  /\ link[c].at = "replay" /\ Left(c) = <<>>
  /\ link' = [link EXCEPT ![c].at = "live", ![c].upTo = 0]
  /\ UNCHANGED <<recorded, queue, emitting, seen, lastSeen, diverted>>

\* subscribe_records: whichever open connection comes first gets the event, for its own
\* page alone, or for nobody if its page has gone.
TakeEvent(c) ==
  /\ link[c].at = "live" /\ queue # <<>> /\ Head(queue) # EndMark
  /\ queue' = Tail(queue)
  /\ Send(c, Head(queue), link[c])
  /\ diverted' = [p \in Pages |->
       diverted[p] \union {e \in {Head(queue)} : Attached(p) /\ (link[c].there => link[c].page # p)}]
  /\ UNCHANGED <<recorded, emitting>>

TakeEnd(c) ==
  /\ link[c].at = "live" /\ queue # <<>> /\ Head(queue) = EndMark
  /\ queue' = Tail(queue)
  /\ link' = [link EXCEPT ![c] = Over]
  /\ UNCHANGED <<recorded, emitting, seen, lastSeen, diverted>>

\* The client goes away; the server notices at once or not before the next send.
Leave(c) ==
  /\ Open(c) /\ link[c].there /\ link[c].kind # "rpc"
  /\ \E left \in {[link[c] EXCEPT !.there = FALSE], Over} : link' = [link EXCEPT ![c] = left]
  /\ UNCHANGED <<recorded, queue, emitting, seen, lastSeen, diverted>>

StreamNext ==
  \/ Emit \/ EndOfRun
  \/ \E c \in Connections :
       \/ \E p \in Pages, kind \in {"sse", "ws", "rpc"} : Connect(c, p, kind)
       \/ Replay(c) \/ GoLive(c) \/ TakeEvent(c) \/ TakeEnd(c) \/ Leave(c)

StreamSpec == StreamInit /\ [][StreamNext]_streamVars

----
(***************************************************************************)
(* Properties                                                              *)
(***************************************************************************)
\* Whatever was lost with earlier connections, and however many there are at once: of each
\* recorded event, an attached page has it, will get it replayed or finds it in the queue,
\* unless another connection took it off the queue while the page was attached; replay and
\* live events leave no gap (http/sse.py:16, Last-Event-ID; controller.py:241).
NothingMissed ==
  \A c \in Connections :
    Open(c) /\ link[c].there =>
      LET p == link[c].page
      IN  1 .. recorded \subseteq seen[p] \union ToSet(Left(c)) \union ToSet(queue) \union diverted[p]
====
