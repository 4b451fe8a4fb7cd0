---- MODULE McpClient ----
(***************************************************************************)
(* The MCP host (mcp/host.py) and its stdio sessions (mcp/client.py).  The *)
(* servers are started one after the other; a call registers a future      *)
(* under a new id, writes its request and waits; a read loop per session   *)
(* resolves futures by the id of what comes in.  A server answers in any   *)
(* order, late, twice, with rubbish, sends requests of its own, or dies.   *)
(*                                                                         *)
(* Abstracted: methods, parameters and results: a reply is known by the    *)
(* request it answers.  External: the servers.                             *)
(***************************************************************************)
EXTENDS Integers, Sequences, SequencesExt

CONSTANTS
  ServerCount,   \* McpConfig.selected(): the enabled servers on the allowlist, in order
  MaxRequests    \* bound of the model: requests made to all servers

ASSUME McpAssumption == ServerCount \in Nat \ {0} /\ MaxRequests \in Nat

VARIABLES
  host,       \* [at, cur]: connecting to or closing server cur, ready or closed
  session,    \* per server: process, read loop, next id, pending futures, answers of start()
  request,    \* history: each request's server, id, how far it is, whose reply it got
  wire        \* the requests whose replies are on their way

mcpVars == <<host, session, request, wire>>

Servers == 1 .. ServerCount
Nothing == -1                          \* the result of a call that no reply ended
NewSession == [proc |-> "none", reader |-> "none", nextId |-> 1, pending |-> <<>>, booted |-> 0]

McpInit ==
  /\ host = [at |-> "connecting", cur |-> 1]
  /\ session = [s \in Servers |-> NewSession]
  /\ request = <<>> /\ wire = {}

\* Futures that are not done.
Unresolved(s) == {r \in DOMAIN request : request[r].server = s /\ request[r].at = "waits"}

\* Every waiting future in rs gets an exception.
FailAll(rs) ==
  [r \in DOMAIN request |-> IF r \in rs THEN [request[r] EXCEPT !.at = "resolved"] ELSE request[r]]

PendingOf(s) == {session[s].pending[i] : i \in DOMAIN session[s].pending}

----
(***************************************************************************)
(* The host                                                                *)
(***************************************************************************)
FailingUnlisted ==                                     \* mutant: listed only when started
  IF host.cur = 1 THEN [host EXCEPT !.at = "closed"] ELSE [at |-> "closing", cur |-> host.cur - 1]

\* connect() fails: it closes the sessions made so far, the failing one included.
Failing == [host EXCEPT !.at = "closing"]

\* The outcome of one of start()'s two requests; after the second the next server.
HostAfter(s, ok) ==
  IF host.at # "connecting" THEN host
  ELSE IF ~ok THEN Failing
  ELSE IF session[s].booted = 0 THEN host
  ELSE IF s = ServerCount THEN [host EXCEPT !.at = "ready"]
  ELSE [host EXCEPT !.cur = @ + 1]

Spawn ==
  /\ host.at = "connecting" /\ session[host.cur].proc = "none"
  /\ \/ /\ session' = [session EXCEPT ![host.cur].proc = "up", ![host.cur].reader = "reads"]
        /\ UNCHANGED host
     \/ host' = Failing /\ UNCHANGED session
  /\ UNCHANGED <<request, wire>>

\* The end of a run closes the host.
CloseHost ==
  /\ host.at = "ready"
  /\ host' = [at |-> "closing", cur |-> ServerCount]
  /\ UNCHANGED <<session, request, wire>>

\* McpStdioSession.close: the loop is cancelled, the process ended, the futures failed.
CloseSession ==
  /\ host.at = "closing"
  /\ LET s == host.cur IN
     /\ session' = [session EXCEPT ![s] = [@ EXCEPT !.proc = "closed", !.reader = "ended", !.pending = <<>>]]
     /\ request' = FailAll(Unresolved(s) \intersect PendingOf(s))
     /\ host' = IF s = 1 THEN [host EXCEPT !.at = "closed"] ELSE [host EXCEPT !.cur = @ - 1]
  /\ UNCHANGED wire

----
(***************************************************************************)
(* Requests                                                                *)
(***************************************************************************)
\* start() makes one request at a time; tools may call at the same time.
MayRequest(s) ==
  \/ host.at = "ready"
  \/ /\ host.at = "connecting" /\ s = host.cur /\ session[s].proc # "none"
     /\ \A r \in DOMAIN request : request[r].server = s => request[r].at = "ended"

NextIdFree(s) == Cardinality(DOMAIN session[s].pending) + 1   \* mutant: the lowest id not in use
NextId(s) == session[s].nextId

\* _pending[id] = future
With(pending, id, r) ==
  [i \in DOMAIN pending \union {id} |-> IF i = id THEN r ELSE pending[i]]

\* The future is registered before the write; when that fails it stays in _pending.
Request(s) ==
  /\ MayRequest(s) /\ Len(request) < MaxRequests
  /\ LET id == NextId(s)
         Made(at) == Append(request, [server |-> s, id |-> id, at |-> at, got |-> 0])
     IN  /\ session' = [session EXCEPT ![s].nextId = @ + 1,
                                       ![s].pending = With(@, id, Len(request) + 1)]
         /\ \/ request' = Made("waits") /\ UNCHANGED host
            \/ /\ session[s].proc # "up"
               /\ request' = Made("ended") /\ host' = HostAfter(s, FALSE)
  /\ UNCHANGED wire

\* pop(req_id) in the finally of _request.
Pop(r) ==
  LET s == request[r].server IN
  [session EXCEPT ![s].pending = [i \in DOMAIN @ \ {request[r].id} |-> @[i]]]

\* The future is done and the caller goes on.
Wake(r) ==
  /\ request[r].at = "resolved"
  /\ LET s == request[r].server  ok == request[r].got # 0 IN
     /\ request' = [request EXCEPT ![r].at = "ended"]
     /\ session' = IF host.at = "connecting" /\ ok
                   THEN [Pop(r) EXCEPT ![s].booted = @ + 1] ELSE Pop(r)
     /\ host' = HostAfter(s, ok)
  /\ UNCHANGED wire

\* The timeout of wait_for, or the cancellation of the tool.
GiveUp(r) ==
  /\ request[r].at = "waits"
  /\ request' = [request EXCEPT ![r].at = "ended"]
  /\ session' = Pop(r)
  /\ host' = HostAfter(request[r].server, FALSE)
  /\ UNCHANGED wire

----
(***************************************************************************)
(* The server and the read loop                                            *)
(***************************************************************************)
\* The server answers a request, late or again.
Reply(r) ==
  /\ session[request[r].server].proc = "up" /\ r \notin wire
  /\ wire' = wire \union {r}
  /\ UNCHANGED <<host, session, request>>

Dies(s) ==
  /\ session[s].proc = "up"
  /\ session' = [session EXCEPT ![s].proc = "dead"]
  /\ UNCHANGED <<host, request, wire>>

\* A reply resolves the future of its id, if there is one and it is not done.
Deliver(r) ==
  LET s == request[r].server  id == request[r].id IN
  /\ r \in wire /\ session[s].reader = "reads"
  /\ wire' = wire \ {r}
  /\ IF id \in DOMAIN session[s].pending /\ request[session[s].pending[id]].at = "waits"
     THEN request' = [request EXCEPT ![session[s].pending[id]] = [@ EXCEPT !.at = "resolved", !.got = r]]
     ELSE UNCHANGED request
  /\ UNCHANGED <<host, session>>

\* The server sends a request of its own.  Its id is looked up like a reply's: the
\* call that waits under the same number ends with an empty result.
ServerAsks(r) ==
  LET s == request[r].server IN
  /\ session[s].reader = "reads"
  /\ request[r].at = "waits" /\ r \in PendingOf(s)
  /\ request' = [request EXCEPT ![r] = [@ EXCEPT !.at = "resolved", !.got = Nothing]]
  /\ UNCHANGED <<host, session, wire>>

\* The end of the output ends the loop, and nobody is told.
EndOfOutput(s) ==
  /\ session[s].proc = "dead" /\ session[s].reader = "reads"
  /\ session' = [session EXCEPT ![s].reader = "ended"]
  /\ UNCHANGED <<host, request, wire>>

\* What cannot be parsed fails every pending future and ends the loop.
Rubbish(s) ==
  /\ session[s].proc = "up" /\ session[s].reader = "reads"
  /\ session' = [session EXCEPT ![s].reader = "ended", ![s].pending = <<>>]
  /\ request' = FailAll(Unresolved(s) \intersect PendingOf(s))
  /\ UNCHANGED <<host, wire>>

McpNext ==
  \/ Spawn \/ CloseHost \/ CloseSession
  \/ \E s \in Servers : Request(s) \/ Dies(s) \/ EndOfOutput(s) \/ Rubbish(s)
  \/ \E r \in DOMAIN request : Wake(r) \/ GiveUp(r) \/ Reply(r) \/ Deliver(r) \/ ServerAsks(r)

McpSpec == McpInit /\ [][McpNext]_mcpVars

----
(***************************************************************************)
(* Properties                                                              *)
(***************************************************************************)
\* A call never takes the reply to another call, however late, often or out of order
\* the server answers (_request, mcp/client.py:124).
OwnReply == \A r \in DOMAIN request : request[r].got \in {0, r, Nothing}

\* When the host is closed, after a run or because one server could not be started,
\* no server is left running and no call is left waiting (mcp/host.py:62, mcp/client.py:102).
ClosedIsQuiet ==
  host.at = "closed" =>
    /\ \A s \in Servers : session[s].proc \in {"none", "closed"}
    /\ \A r \in DOMAIN request : request[r].at # "waits"
====
