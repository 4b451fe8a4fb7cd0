---- MODULE ProtocolProofs ----
(***************************************************************************)
(* Theorems about the protocols between a run and those who ask, answer or *)
(* watch: McpClient, for any number of servers and requests, Delegation,   *)
(* for any number of subagents and questions, RpcServer, for any number of *)
(* tasks and lines, and EventStream, for any number of pages, connections  *)
(* and events.                                                             *)
(***************************************************************************)
EXTENDS McpClient, Delegation, RpcServer, EventStream,
        SequenceTheorems, FiniteSetTheorems, TLAPS

----
(***************************************************************************)
(* McpClient                                                               *)
(***************************************************************************)
Futures == UNION {[ids -> Nat] : ids \in SUBSET Nat}
Procs == {"none", "up", "dead", "closed"}
Readers == {"none", "reads", "ended"}
Stages == {"waits", "resolved", "ended"}
SessionState ==
  [proc : Procs, reader : Readers, nextId : Nat, pending : Futures, booted : Nat]
RequestState == [server : Servers, id : Nat, at : Stages, got : Int]

McpTypes == session \in [Servers -> SessionState] /\ request \in Seq(RequestState)

\* Ids are given once per server, and each future is filed under the id of its request.
OwnInv ==
  /\ McpTypes
  /\ \A r \in DOMAIN request : request[r].id < session[request[r].server].nextId
  /\ \A r, q \in DOMAIN request :
       request[r].server = request[q].server /\ request[r].id = request[q].id => r = q
  /\ \A s \in Servers : \A i \in DOMAIN session[s].pending :
       LET r == session[s].pending[i]
       IN  r \in DOMAIN request /\ request[r].server = s /\ request[r].id = i
  /\ \A r \in DOMAIN request : request[r].got \in {0, r, Nothing}

LEMMA NoFutures == <<>> \in Futures /\ DOMAIN <<>> = {}
<1>1. <<>> \in [{} -> Nat] /\ {} \in SUBSET Nat
  OBVIOUS
<1> QED BY <1>1 DEF Futures

LEMMA OneMore ==
  ASSUME NEW p \in Futures, NEW i \in Nat, NEW r \in Nat
  PROVE  /\ With(p, i, r) \in Futures
         /\ DOMAIN With(p, i, r) = DOMAIN p \union {i}
         /\ With(p, i, r)[i] = r
         /\ \A j \in DOMAIN p \ {i} : With(p, i, r)[j] = p[j]
<1>1. PICK ids \in SUBSET Nat : p \in [ids -> Nat]
  BY DEF Futures
<1>2. With(p, i, r) \in [ids \union {i} -> Nat] /\ ids \union {i} \in SUBSET Nat
  BY <1>1 DEF With
<1>3. With(p, i, r) \in Futures
  BY <1>2 DEF Futures
<1> QED BY <1>3 DEF With

LEMMA OneLess ==
  ASSUME NEW p \in Futures, NEW i
  PROVE  [j \in DOMAIN p \ {i} |-> p[j]] \in Futures
<1>1. PICK ids \in SUBSET Nat : p \in [ids -> Nat]
  BY DEF Futures
<1>2. [j \in DOMAIN p \ {i} |-> p[j]] \in [ids \ {i} -> Nat] /\ ids \ {i} \in SUBSET Nat
  BY <1>1
<1> QED BY <1>2 DEF Futures

LEMMA McpInitially == McpInit => OwnInv
<1> SUFFICES ASSUME McpInit PROVE OwnInv
  OBVIOUS
<1>1. NewSession \in SessionState /\ NewSession.pending = <<>>
  BY NoFutures DEF NewSession, SessionState, Procs, Readers
<1>2. McpTypes /\ DOMAIN request = {}
  BY <1>1 DEF McpInit, McpTypes
<1>3. \A s \in Servers : session[s].pending = <<>>
  BY <1>1 DEF McpInit
<1> QED BY <1>2, <1>3, NoFutures DEF OwnInv

LEMMA Types ==
  ASSUME OwnInv
  PROVE  /\ McpTypes
         /\ \A s \in Servers : session[s] \in SessionState
         /\ \A r \in DOMAIN request : request[r] \in RequestState /\ request[r].server \in Servers
         /\ \A r \in DOMAIN request : r \in Nat
<1>1. McpTypes
  BY DEF OwnInv
<1>2. DOMAIN request = 1 .. Len(request) /\ \A r \in DOMAIN request : request[r] \in RequestState
  BY <1>1 DEF McpTypes
<1>3. \A r \in DOMAIN request : request[r].server \in Servers
  BY <1>2 DEF RequestState
<1> QED BY <1>1, <1>2, <1>3 DEF McpTypes

\* A step that makes no request: futures may go, and a request is answered by its own reply.
LEMMA NoNewRequest ==
  ASSUME OwnInv, McpTypes',
         DOMAIN request' = DOMAIN request,
         \A r \in DOMAIN request : /\ request'[r].server = request[r].server
                                   /\ request'[r].id = request[r].id
                                   /\ request'[r].got \in {0, r, Nothing},
         \A s \in Servers : /\ session'[s].nextId = session[s].nextId
                            /\ DOMAIN session'[s].pending \subseteq DOMAIN session[s].pending
                            /\ \A i \in DOMAIN session'[s].pending :
                                 session'[s].pending[i] = session[s].pending[i]
  PROVE  OwnInv'
<1>1. \A r \in DOMAIN request : request[r].server \in Servers
  BY Types
<1>2. \A r \in DOMAIN request' : request'[r].id < session'[request'[r].server].nextId
  BY <1>1 DEF OwnInv
<1>3. \A s \in Servers : \A i \in DOMAIN session'[s].pending :
       LET r == session'[s].pending[i]
       IN  r \in DOMAIN request' /\ request'[r].server = s /\ request'[r].id = i
  BY DEF OwnInv
<1> QED BY <1>2, <1>3 DEF OwnInv

\* Of the requests only how far they are changes.
LEMMA FailAllIs ==
  ASSUME OwnInv, NEW rs, request' = FailAll(rs)
  PROVE  /\ request' \in Seq(RequestState) /\ DOMAIN request' = DOMAIN request
         /\ \A r \in DOMAIN request : /\ request'[r].server = request[r].server
                                      /\ request'[r].id = request[r].id
                                      /\ request'[r].got \in {0, r, Nothing}
<1> DEFINE new(r) == IF r \in rs THEN [request[r] EXCEPT !.at = "resolved"] ELSE request[r]
<1>1. \A r \in DOMAIN request : /\ new(r) \in RequestState /\ new(r).server = request[r].server
                                /\ new(r).id = request[r].id /\ new(r).got = request[r].got
  <2> TAKE r \in DOMAIN request
  <2>1. request[r] \in RequestState
    BY Types
  <2>2. CASE r \in rs
    <3>1. new(r) = [request[r] EXCEPT !.at = "resolved"]
      BY <2>2
    <3> HIDE DEF new
    <3> QED BY <2>1, <3>1 DEF RequestState, Stages
  <2> QED BY <2>1, <2>2
<1>2. request' = [r \in DOMAIN request |-> new(r)]
  BY DEF FailAll
<1> HIDE DEF new
<1>3. request' \in Seq(RequestState) /\ DOMAIN request' = DOMAIN request
  BY <1>1, <1>2 DEF OwnInv, McpTypes
<1> QED BY <1>1, <1>2, <1>3 DEF OwnInv

\* How far one request is changes, and maybe whose reply it has got.
LEMMA OneRequest ==
  ASSUME OwnInv, NEW q \in DOMAIN request, NEW at \in Stages, NEW got \in {0, q, Nothing},
         request' = [request EXCEPT ![q] = [@ EXCEPT !.at = at, !.got = got]]
  PROVE  /\ request' \in Seq(RequestState) /\ DOMAIN request' = DOMAIN request
         /\ \A r \in DOMAIN request : /\ request'[r].server = request[r].server
                                      /\ request'[r].id = request[r].id
                                      /\ request'[r].got \in {0, r, Nothing}
<1> DEFINE new == [request[q] EXCEPT !.at = at, !.got = got]
<1>1. /\ new \in RequestState /\ new.server = request[q].server
      /\ new.id = request[q].id /\ new.got = got
  <2>1. request[q] \in RequestState /\ got \in Int
    BY Types DEF Nothing
  <2> QED BY <2>1 DEF RequestState
<1>2. request' = [request EXCEPT ![q] = new]
  OBVIOUS
<1> HIDE DEF new
<1>3. request' \in Seq(RequestState) /\ DOMAIN request' = DOMAIN request
  BY <1>1, <1>2 DEF OwnInv, McpTypes
<1> QED BY <1>1, <1>2, <1>3 DEF OwnInv, McpTypes

\* A session of which at most the process, the loop and booted change, and futures go.
LEMMA OneSession ==
  ASSUME OwnInv, NEW s, NEW new, session' = [session EXCEPT ![s] = new],
         s \in Servers =>
           /\ new \in SessionState /\ new.nextId = session[s].nextId
           /\ DOMAIN new.pending \subseteq DOMAIN session[s].pending
           /\ \A i \in DOMAIN new.pending : new.pending[i] = session[s].pending[i]
  PROVE  /\ session' \in [Servers -> SessionState]
         /\ \A t \in Servers : /\ session'[t].nextId = session[t].nextId
                               /\ DOMAIN session'[t].pending \subseteq DOMAIN session[t].pending
                               /\ \A i \in DOMAIN session'[t].pending :
                                    session'[t].pending[i] = session[t].pending[i]
<1>1. session \in [Servers -> SessionState]
  BY DEF OwnInv, McpTypes
<1>2. \A t \in Servers : session'[t] = IF t = s THEN new ELSE session[t]
  BY <1>1
<1> QED BY <1>1, <1>2

LEMMA RequestStep ==
  ASSUME OwnInv, NEW s \in Servers, Request(s)
  PROVE  OwnInv'
<1> DEFINE id == session[s].nextId
           n == Len(request) + 1
<1>0. /\ McpTypes /\ session[s] \in SessionState /\ id \in Nat /\ n \in Nat
      /\ session[s].pending \in Futures /\ DOMAIN request = 1 .. (n - 1)
  BY Types DEF SessionState, McpTypes
<1>1. PICK at \in {"waits", "ended"} :
        request' = Append(request, [server |-> s, id |-> id, at |-> at, got |-> 0])
  BY DEF Request, NextId
<1>2. session' = [session EXCEPT ![s].nextId = @ + 1, ![s].pending = With(@, id, n)]
  BY DEF Request, NextId
<1> DEFINE made == [server |-> s, id |-> id, at |-> at, got |-> 0]
           filed == With(session[s].pending, id, n)
<1> HIDE DEF id, n, made, filed
<1>3. made \in RequestState /\ made.server = s /\ made.id = id /\ made.got = 0
  BY <1>0 DEF made, RequestState, Stages
<1>4. /\ request' \in Seq(RequestState) /\ DOMAIN request' = DOMAIN request \union {n}
      /\ request'[n] = made /\ n \notin DOMAIN request
      /\ \A r \in DOMAIN request : request'[r] = request[r]
  <2>1. request \in Seq(RequestState) /\ Len(request) \in Nat /\ n = Len(request) + 1
    BY <1>0, LenProperties DEF McpTypes, n
  <2>2. request' = Append(request, made)
    BY <1>1 DEF made
  <2>3. /\ request' \in Seq(RequestState) /\ Len(request') = n
        /\ request'[n] = made /\ \A r \in 1 .. Len(request) : request'[r] = request[r]
    BY <1>3, <2>1, <2>2, AppendProperties
  <2>4. DOMAIN request = 1 .. Len(request) /\ DOMAIN request' = 1 .. n
    BY <2>1, <2>3, LenProperties
  <2> QED BY <2>1, <2>3, <2>4
<1>5. /\ filed \in Futures /\ DOMAIN filed = DOMAIN session[s].pending \union {id} /\ filed[id] = n
      /\ \A i \in DOMAIN session[s].pending \ {id} : filed[i] = session[s].pending[i]
  <2>1. PICK p \in Futures : p = session[s].pending
    BY <1>0
  <2>2. filed = With(p, id, n)
    BY <2>1 DEF filed
  <2>3. id \in Nat /\ n \in Nat
    BY <1>0
  <2>4. /\ With(p, id, n) \in Futures /\ DOMAIN With(p, id, n) = DOMAIN p \union {id}
        /\ With(p, id, n)[id] = n /\ \A i \in DOMAIN p \ {id} : With(p, id, n)[i] = p[i]
    BY <2>3, OneMore
  <2> QED BY <2>1, <2>2, <2>4
<1>6. /\ session' \in [Servers -> SessionState]
      /\ session'[s].nextId = id + 1 /\ session'[s].pending = filed
      /\ \A t \in Servers \ {s} : session'[t] = session[t]
  <2> DEFINE new == [session[s] EXCEPT !.nextId = @ + 1, !.pending = filed]
  <2>1. session' = [session EXCEPT ![s] = new]
    BY <1>0, <1>2 DEF McpTypes, SessionState, filed
  <2>2. id + 1 \in Nat /\ new = [session[s] EXCEPT !.nextId = id + 1, !.pending = filed]
    BY <1>0 DEF id
  <2> HIDE DEF new
  <2>3. new \in SessionState /\ new.nextId = id + 1 /\ new.pending = filed
    BY <2>2, <1>0, <1>5 DEF SessionState
  <2> QED BY <2>1, <2>3, <1>0 DEF McpTypes
<1>7. \A r \in DOMAIN request :
        /\ request[r].server \in Servers /\ request[r].id \in Nat
        /\ request[r].server = s => request[r].id < id
  BY Types DEF OwnInv, RequestState, id
<1>8. \A r \in DOMAIN request' : request'[r].id < session'[request'[r].server].nextId
  <2> TAKE r \in DOMAIN request'
  <2>1. CASE r = n
    BY <2>1, <1>0, <1>3, <1>4, <1>6
  <2>2. CASE r \in DOMAIN request /\ request[r].server = s
    BY <2>2, <1>0, <1>4, <1>6, <1>7
  <2>3. CASE r \in DOMAIN request /\ request[r].server # s
    BY <2>3, <1>4, <1>6, <1>7 DEF OwnInv
  <2> QED BY <1>4, <2>1, <2>2, <2>3
<1>9. \A r, q \in DOMAIN request' :
        request'[r].server = request'[q].server /\ request'[r].id = request'[q].id => r = q
  <2>1. \A r \in DOMAIN request : ~(request[r].server = s /\ request[r].id = id)
    BY <1>7, <1>0
  <2> QED BY <1>3, <1>4, <2>1 DEF OwnInv
<1>10. \A t \in Servers : \A i \in DOMAIN session'[t].pending :
         LET r == session'[t].pending[i]
         IN  r \in DOMAIN request' /\ request'[r].server = t /\ request'[r].id = i
  <2> TAKE t \in Servers
  <2> TAKE i \in DOMAIN session'[t].pending
  <2>1. CASE t = s /\ i = id
    BY <2>1, <1>3, <1>4, <1>5, <1>6
  <2>2. CASE ~(t = s /\ i = id)
    <3>1. i \in DOMAIN session[t].pending /\ session'[t].pending[i] = session[t].pending[i]
      BY <2>2, <1>5, <1>6
    <3> QED BY <3>1, <1>4 DEF OwnInv
  <2> QED BY <2>1, <2>2
<1>11. \A r \in DOMAIN request' : request'[r].got \in {0, r, Nothing}
  BY <1>3, <1>4 DEF OwnInv
<1>12. McpTypes'
  BY <1>4, <1>6 DEF McpTypes
<1> QED BY <1>8, <1>9, <1>10, <1>11, <1>12 DEF OwnInv

LEMMA PopIs ==
  ASSUME OwnInv, NEW r \in DOMAIN request, NEW booted \in BOOLEAN,
         session' = IF booted THEN [Pop(r) EXCEPT ![request[r].server].booted = @ + 1] ELSE Pop(r)
  PROVE  /\ session' \in [Servers -> SessionState]
         /\ \A t \in Servers : /\ session'[t].nextId = session[t].nextId
                               /\ DOMAIN session'[t].pending \subseteq DOMAIN session[t].pending
                               /\ \A i \in DOMAIN session'[t].pending :
                                    session'[t].pending[i] = session[t].pending[i]
<1> DEFINE s == request[r].server
           left == [i \in DOMAIN session[s].pending \ {request[r].id} |-> session[s].pending[i]]
           once == [session[s] EXCEPT !.pending = left]
           twice == [once EXCEPT !.booted = @ + 1]
<1>1. s \in Servers /\ session[s] \in SessionState /\ session \in [Servers -> SessionState]
  BY Types DEF McpTypes
<1>2. left \in Futures /\ DOMAIN left \subseteq DOMAIN session[s].pending
      /\ \A i \in DOMAIN left : left[i] = session[s].pending[i]
  BY <1>1, OneLess DEF SessionState
<1>3. Pop(r) = [session EXCEPT ![s] = once]
  BY <1>1 DEF Pop
<1> HIDE DEF left, s
<1>4. once \in SessionState /\ once.nextId = session[s].nextId /\ once.pending = left
  BY <1>1, <1>2 DEF SessionState
<1>5. once.booted + 1 \in Nat
  BY <1>4 DEF SessionState
<1> HIDE DEF once
<1>6. twice \in SessionState /\ twice.nextId = session[s].nextId /\ twice.pending = left
  BY <1>4, <1>5 DEF SessionState
<1>7. session' = [session EXCEPT ![s] = IF booted THEN twice ELSE once]
  BY <1>1, <1>3 DEF s
<1> HIDE DEF twice
<1> QED BY <1>1, <1>2, <1>4, <1>6, <1>7, OneSession

\* Whose reply resolves a future: the one filed under the id it answers.
LEMMA DeliverStep ==
  ASSUME OwnInv, NEW r \in DOMAIN request, Deliver(r)
  PROVE  OwnInv'
<1> DEFINE s == request[r].server
           id == request[r].id
           q == session[s].pending[id]
<1>1. UNCHANGED session
  BY DEF Deliver
<1>2. CASE id \in DOMAIN session[s].pending /\ request[q].at = "waits"
  <2>1. s \in Servers
    BY Types
  <2>2. q \in DOMAIN request /\ request[q].server = s /\ request[q].id = id
    BY <1>2, <2>1 DEF OwnInv
  <2>3. q = r
    BY <2>2 DEF OwnInv
  <2>4. request' = [request EXCEPT ![q] = [@ EXCEPT !.at = "resolved", !.got = r]]
    BY <1>2 DEF Deliver
  <2>5. "resolved" \in Stages /\ r \in {0, q, Nothing}
    BY <2>3 DEF Stages
  <2> HIDE DEF q
  <2>6. /\ request' \in Seq(RequestState) /\ DOMAIN request' = DOMAIN request
        /\ \A p \in DOMAIN request : /\ request'[p].server = request[p].server
                                     /\ request'[p].id = request[p].id
                                     /\ request'[p].got \in {0, p, Nothing}
    BY <2>2, <2>4, <2>5, OneRequest
  <2> QED BY <1>1, <2>6, Types, NoNewRequest DEF McpTypes
<1>3. CASE ~(id \in DOMAIN session[s].pending /\ request[q].at = "waits")
  <2>1. UNCHANGED request
    BY <1>3 DEF Deliver
  <2> QED BY <1>1, <2>1 DEF OwnInv, McpTypes
<1> QED BY <1>2, <1>3

\* A request of the server's own ends a call, with no reply.
LEMMA ServerAsksStep ==
  ASSUME OwnInv, NEW r \in DOMAIN request, ServerAsks(r)
  PROVE  OwnInv'
<1>1. /\ UNCHANGED session /\ "resolved" \in Stages
      /\ request' = [request EXCEPT ![r] = [@ EXCEPT !.at = "resolved", !.got = Nothing]]
  BY DEF ServerAsks, Stages
<1>2. /\ request' \in Seq(RequestState) /\ DOMAIN request' = DOMAIN request
      /\ \A p \in DOMAIN request : /\ request'[p].server = request[p].server
                                   /\ request'[p].id = request[p].id
                                   /\ request'[p].got \in {0, p, Nothing}
  <2>1. PICK got : got = Nothing
    OBVIOUS
  <2>2. got \in {0, r, Nothing} /\ request' = [request EXCEPT ![r] = [@ EXCEPT !.at = "resolved", !.got = got]]
    BY <1>1, <2>1
  <2> QED BY <1>1, <2>2, OneRequest
<1> QED BY <1>1, <1>2, Types, NoNewRequest DEF McpTypes

LEMMA EndStep ==
  ASSUME OwnInv, NEW r \in DOMAIN request, Wake(r) \/ GiveUp(r)
  PROVE  OwnInv'
<1> DEFINE got == request[r].got
<1>1. request' = [request EXCEPT ![r] = [@ EXCEPT !.at = "ended", !.got = got]]
  <2>1. request[r] \in RequestState
    BY Types
  <2>2. request' = [request EXCEPT ![r] = [@ EXCEPT !.at = "ended"]]
    BY DEF Wake, GiveUp
  <2>3. [request[r] EXCEPT !.at = "ended"] = [request[r] EXCEPT !.at = "ended", !.got = got]
    BY <2>1 DEF RequestState
  <2> QED BY <2>2, <2>3
<1>2. got \in {0, r, Nothing} /\ "ended" \in Stages
  BY DEF OwnInv, Stages
<1>3. PICK booted \in BOOLEAN :
        session' = IF booted THEN [Pop(r) EXCEPT ![request[r].server].booted = @ + 1] ELSE Pop(r)
  BY DEF Wake, GiveUp
<1> HIDE DEF got
<1>4. /\ request' \in Seq(RequestState) /\ DOMAIN request' = DOMAIN request
      /\ \A p \in DOMAIN request : /\ request'[p].server = request[p].server
                                   /\ request'[p].id = request[p].id
                                   /\ request'[p].got \in {0, p, Nothing}
  BY <1>1, <1>2, OneRequest
<1>5. /\ session' \in [Servers -> SessionState]
      /\ \A t \in Servers : /\ session'[t].nextId = session[t].nextId
                            /\ DOMAIN session'[t].pending \subseteq DOMAIN session[t].pending
                            /\ \A i \in DOMAIN session'[t].pending :
                                 session'[t].pending[i] = session[t].pending[i]
  BY <1>3, PopIs
<1> QED BY <1>4, <1>5, NoNewRequest DEF McpTypes

\* A session is started, dies, ends or is closed; its futures may fail.
LEMMA SessionStep ==
  ASSUME OwnInv, NEW s, NEW proc \in Procs, NEW reader \in Readers, NEW rs,
         \/ session' = [session EXCEPT ![s].proc = proc]
         \/ session' = [session EXCEPT ![s].reader = reader]
         \/ session' = [session EXCEPT ![s].proc = proc, ![s].reader = reader]
         \/ session' = [session EXCEPT ![s].reader = reader, ![s].pending = <<>>]
         \/ session' = [session EXCEPT ![s] =
                          [@ EXCEPT !.proc = proc, !.reader = reader, !.pending = <<>>]],
         request' \in {request, FailAll(rs)}
  PROVE  OwnInv'
<1>1. /\ request' \in Seq(RequestState) /\ DOMAIN request' = DOMAIN request
      /\ \A r \in DOMAIN request : /\ request'[r].server = request[r].server
                                   /\ request'[r].id = request[r].id
                                   /\ request'[r].got \in {0, r, Nothing}
  BY FailAllIs DEF OwnInv, McpTypes
<1> DEFINE New(p, e, f) == [session[s] EXCEPT !.proc = p, !.reader = e, !.pending = f]
<1>2. session \in [Servers -> SessionState]
  BY Types DEF McpTypes
<1>3. PICK p \in Procs, e \in Readers, f \in {<<>>, session[s].pending} :
        session' = [session EXCEPT ![s] = New(p, e, f)]
  <2>1. CASE s \notin Servers
    <3>1. session' = session /\ \A x : [session EXCEPT ![s] = x] = session
      BY <1>2, <2>1
    <3> QED BY <3>1
  <2>2. CASE s \in Servers
    <3>1. session[s] \in SessionState
      BY <1>2, <2>2
    <3>2. /\ session[s].proc \in Procs /\ session[s].reader \in Readers
          /\ [session[s] EXCEPT !.proc = proc] = New(proc, session[s].reader, session[s].pending)
          /\ [session[s] EXCEPT !.reader = reader] = New(session[s].proc, reader, session[s].pending)
          /\ [session[s] EXCEPT !.proc = proc, !.reader = reader]
               = New(proc, reader, session[s].pending)
          /\ [session[s] EXCEPT !.reader = reader, !.pending = <<>>]
               = New(session[s].proc, reader, <<>>)
      BY <3>1 DEF SessionState
    <3>3. \E x \in {[session[s] EXCEPT !.proc = proc], [session[s] EXCEPT !.reader = reader],
                    [session[s] EXCEPT !.proc = proc, !.reader = reader],
                    [session[s] EXCEPT !.reader = reader, !.pending = <<>>],
                    New(proc, reader, <<>>)} :
            session' = [session EXCEPT ![s] = x]
      BY <1>2, <2>2
    <3> DEFINE Is(x) == \E p \in Procs, e \in Readers, f \in {<<>>, session[s].pending} : x = New(p, e, f)
    <3>4. /\ Is(New(proc, session[s].reader, session[s].pending))
          /\ Is(New(session[s].proc, reader, session[s].pending))
          /\ Is(New(proc, reader, session[s].pending))
          /\ Is(New(session[s].proc, reader, <<>>)) /\ Is(New(proc, reader, <<>>))
      BY <3>2
    <3> HIDE DEF New
    <3>5. \A x \in {[session[s] EXCEPT !.proc = proc], [session[s] EXCEPT !.reader = reader],
                    [session[s] EXCEPT !.proc = proc, !.reader = reader],
                    [session[s] EXCEPT !.reader = reader, !.pending = <<>>],
                    New(proc, reader, <<>>)} : Is(x)
      <4> HIDE DEF Is
      <4> QED BY <3>2, <3>4
    <3>6. PICK x : Is(x) /\ session' = [session EXCEPT ![s] = x]
      BY <3>3, <3>5
    <3>7. PICK p \in Procs, e \in Readers, f \in {<<>>, session[s].pending} : x = New(p, e, f)
      BY <3>6
    <3> QED BY <3>6, <3>7
  <2> QED BY <2>1, <2>2, ZenonT(30)
<1>4. s \in Servers =>
        /\ New(p, e, f) \in SessionState /\ New(p, e, f).nextId = session[s].nextId
        /\ New(p, e, f).pending = f
  BY <1>2, NoFutures DEF SessionState
<1> HIDE DEF New
<1> DEFINE new == New(p, e, f)
<1> HIDE DEF new
<1>5. s \in Servers =>
        /\ new \in SessionState /\ new.nextId = session[s].nextId
        /\ DOMAIN new.pending \subseteq DOMAIN session[s].pending
        /\ \A i \in DOMAIN new.pending : new.pending[i] = session[s].pending[i]
  <2>1. DOMAIN f \subseteq DOMAIN session[s].pending
        /\ \A i \in DOMAIN f : f[i] = session[s].pending[i]
    BY NoFutures
  <2> QED BY <2>1, <1>4 DEF new
<1>6. /\ session' \in [Servers -> SessionState]
      /\ \A t \in Servers : /\ session'[t].nextId = session[t].nextId
                            /\ DOMAIN session'[t].pending \subseteq DOMAIN session[t].pending
                            /\ \A i \in DOMAIN session'[t].pending :
                                 session'[t].pending[i] = session[t].pending[i]
  <2>1. session' = [session EXCEPT ![s] = new]
    BY <1>3 DEF new
  <2> QED BY <2>1, <1>5, OneSession
<1> QED BY <1>1, <1>6, NoNewRequest DEF McpTypes

LEMMA McpStep == OwnInv /\ [McpNext]_mcpVars => OwnInv'
<1> SUFFICES ASSUME OwnInv, [McpNext]_mcpVars PROVE OwnInv'
  OBVIOUS
<1> USE DEF Procs, Readers
<1>1. CASE UNCHANGED <<session, request>>
  BY <1>1 DEF OwnInv, McpTypes
<1>2. CASE Spawn
  <2>1. session' = [session EXCEPT ![host.cur].proc = "up", ![host.cur].reader = "reads"]
          \/ UNCHANGED session
    BY <1>2 DEF Spawn
  <2>2. UNCHANGED request
    BY <1>2 DEF Spawn
  <2> QED BY <1>1, <2>1, <2>2, SessionStep
<1>3. CASE CloseSession
  BY <1>3, SessionStep, ZenonT(30) DEF CloseSession
<1>4. ASSUME NEW s \in Servers, Dies(s) \/ EndOfOutput(s) PROVE OwnInv'
  BY <1>4, SessionStep, ZenonT(30) DEF Dies, EndOfOutput
<1>5. ASSUME NEW s \in Servers, Rubbish(s) PROVE OwnInv'
  BY <1>5, SessionStep DEF Rubbish
<1>6. ASSUME NEW s \in Servers, Request(s) PROVE OwnInv'
  BY <1>6, RequestStep
<1>7. ASSUME NEW r \in DOMAIN request, Wake(r) \/ GiveUp(r) PROVE OwnInv'
  BY <1>7, EndStep
<1>8. ASSUME NEW r \in DOMAIN request, Deliver(r) PROVE OwnInv'
  BY <1>8, DeliverStep
<1>9. ASSUME NEW r \in DOMAIN request, ServerAsks(r) PROVE OwnInv'
  BY <1>9, ServerAsksStep
<1> QED BY <1>1, <1>2, <1>3, <1>4, <1>5, <1>6, <1>7, <1>8, <1>9 DEF McpNext, mcpVars, CloseHost, Reply

\* A call never takes the reply to another call, however late, often or out of order
\* the servers answer and however many there are (_request, mcp/client.py:124).
THEOREM EachCallItsOwnReply == McpSpec => []OwnReply
<1>1. OwnInv => OwnReply
  BY DEF OwnInv, OwnReply
<1> QED BY <1>1, McpInitially, McpStep, PTL DEF McpSpec

----
\* A server that is not there or was closed, and nobody who waits for it.
Silent(s) ==
  /\ session[s].proc \in {"none", "closed"}
  /\ \A r \in DOMAIN request : request[r].server = s => request[r].at # "waits"

\* Connecting goes from server to server, with one request at a time; closing goes back,
\* and what it has passed is quiet.
HostInv ==
  /\ host \in [at : {"connecting", "ready", "closing", "closed"}, cur : Servers]
  /\ host.at = "connecting" =>
       /\ \A s \in Servers : s > host.cur => session[s].proc = "none"
       /\ \A r \in DOMAIN request :
            /\ request[r].server <= host.cur
            /\ request[r].at # "ended" => request[r].server = host.cur
       /\ \A r, q \in DOMAIN request : request[r].at # "ended" /\ request[q].at # "ended" => r = q
  /\ host.at = "closing" => \A s \in Servers : s > host.cur => Silent(s)
  /\ host.at = "closed" => \A s \in Servers : Silent(s)

\* Whoever waits has his future in the table: closing the session finds it there.
WaitingFiled ==
  \A r \in DOMAIN request : request[r].at = "waits" =>
    LET s == request[r].server  id == request[r].id
    IN  id \in DOMAIN session[s].pending /\ session[s].pending[id] = r

QuietInv == OwnInv /\ HostInv /\ WaitingFiled

LEMMA QuietInitially == McpInit => QuietInv
<1> SUFFICES ASSUME McpInit PROVE QuietInv
  OBVIOUS
<1>1. DOMAIN request = {} /\ host = [at |-> "connecting", cur |-> 1]
  BY DEF McpInit
<1>2. 1 \in Servers
  BY McpAssumption DEF McpAssumption, Servers
<1>3. \A s \in Servers : session[s].proc = "none"
  BY DEF McpInit, NewSession
<1> QED BY <1>1, <1>2, <1>3, McpInitially DEF QuietInv, HostInv, WaitingFiled

\* No request is made, none waits again, and no server is started.
NothingNew ==
  /\ DOMAIN request' = DOMAIN request
  /\ \A r \in DOMAIN request : /\ request'[r].server = request[r].server
                               /\ request[r].at = "ended" => request'[r].at = "ended"
                               /\ request'[r].at = "waits" => request[r].at = "waits"
  /\ \A s \in Servers : /\ session[s].proc = "none" => session'[s].proc = "none"
                        /\ session[s].proc = "closed" => session'[s].proc = "closed"

LEMMA QuietKept ==
  ASSUME HostInv, NothingNew, NEW s \in Servers, Silent(s)
  PROVE  Silent(s)'
BY DEF NothingNew, Silent

LEMMA HostKept ==
  ASSUME HostInv, NothingNew, UNCHANGED host
  PROVE  HostInv'
<1>1. \A s \in Servers : Silent(s) => Silent(s)'
  BY QuietKept
<1> QED BY <1>1 DEF HostInv, NothingNew

\* What was not reached yet is quiet when connecting fails.
LEMMA HostFails ==
  ASSUME OwnInv, HostInv, NothingNew, host.at = "connecting", host' = Failing
  PROVE  HostInv'
<1>1. host' = [at |-> "closing", cur |-> host.cur] /\ host.cur \in Servers
  BY DEF HostInv, Failing
<1>2. ASSUME NEW s \in Servers, s > host.cur PROVE Silent(s)'
  <2>1. session'[s].proc = "none"
    BY <1>2 DEF HostInv, NothingNew
  <2>2. \A r \in DOMAIN request' : request'[r].server <= host.cur /\ request'[r].server \in Servers
    BY Types DEF HostInv, NothingNew
  <2>3. \A r \in DOMAIN request' : request'[r].server # s
    BY <1>1, <1>2, <2>2 DEF Servers
  <2> QED BY <2>1, <2>3 DEF Silent
<1> QED BY <1>1, <1>2 DEF HostInv

\* The places and processes after a record is changed.
LEMMA AtChanges ==
  ASSUME OwnInv, NEW q \in DOMAIN request, NEW new,
         request' = [request EXCEPT ![q] = new]
  PROVE  /\ DOMAIN request' = DOMAIN request /\ request'[q] = new
         /\ \A r \in DOMAIN request \ {q} : request'[r] = request[r]
BY DEF OwnInv, McpTypes

LEMMA FailAllEnds ==
  ASSUME OwnInv, NEW s \in Servers, WaitingFiled,
         request' = FailAll(Unresolved(s) \intersect PendingOf(s))
  PROVE  /\ DOMAIN request' = DOMAIN request
         /\ \A r \in DOMAIN request :
              /\ request'[r].server = request[r].server /\ request'[r].id = request[r].id
              /\ request[r].server # s => request'[r] = request[r]
              /\ request[r].server = s => request'[r].at # "waits"
              /\ request[r].at = "ended" => request'[r].at = "ended"
              /\ request'[r].at = "waits" => request[r].at = "waits"
<1> DEFINE rs == Unresolved(s) \intersect PendingOf(s)
           new(r) == IF r \in rs THEN [request[r] EXCEPT !.at = "resolved"] ELSE request[r]
<1>1. request' = [r \in DOMAIN request |-> new(r)]
  BY DEF FailAll
<1>2. ASSUME NEW r \in DOMAIN request
      PROVE  /\ new(r).server = request[r].server /\ new(r).id = request[r].id
             /\ request[r].server # s => new(r) = request[r]
             /\ request[r].server = s => new(r).at # "waits"
             /\ request[r].at = "ended" => new(r).at = "ended"
             /\ new(r).at = "waits" => request[r].at = "waits"
  <2>1. request[r] \in RequestState
    BY Types
  <2>2. CASE r \in rs
    <3> DEFINE failed == [request[r] EXCEPT !.at = "resolved"]
    <3>1. new(r) = failed /\ request[r].server = s /\ request[r].at = "waits"
      BY <2>2 DEF Unresolved
    <3>2. failed.server = request[r].server /\ failed.id = request[r].id /\ failed.at = "resolved"
      BY <2>1 DEF RequestState
    <3> HIDE DEF new, failed
    <3> QED BY <3>1, <3>2
  <2>3. CASE r \notin rs
    <3>1. new(r) = request[r]
      BY <2>3
    <3>2. request[r].server = s => request[r].at # "waits"
      BY <2>3 DEF Unresolved, PendingOf, WaitingFiled
    <3> QED BY <3>1, <3>2
  <2> QED BY <2>2, <2>3
<1> HIDE DEF new
<1> QED BY <1>1, <1>2
\* A future that somebody waits for is not taken from the table.
LEMMA FiledKept ==
  ASSUME OwnInv, WaitingFiled, DOMAIN request' = DOMAIN request,
         \A r \in DOMAIN request :
           /\ request'[r].server = request[r].server /\ request'[r].id = request[r].id
           /\ request'[r].at = "waits" =>
                LET s == request[r].server  id == request[r].id
                IN  /\ request[r].at = "waits"
                    /\ id \in DOMAIN session[s].pending =>
                         /\ id \in DOMAIN session'[s].pending
                         /\ session'[s].pending[id] = session[s].pending[id]
  PROVE  WaitingFiled'
BY DEF WaitingFiled

\* A process starts or dies, or a read loop ends: the futures stay as they are.
LEMMA ProcessIs ==
  ASSUME OwnInv, NEW s \in Servers, NEW proc \in Procs, NEW reader \in Readers,
         \/ session' = [session EXCEPT ![s].proc = proc]
         \/ session' = [session EXCEPT ![s].proc = proc, ![s].reader = reader]
  PROVE  /\ session'[s].proc = proc
         /\ \A t \in Servers : session'[t].pending = session[t].pending
         /\ \A t \in Servers \ {s} : session'[t] = session[t]
<1>1. session \in [Servers -> SessionState] /\ session[s] \in SessionState
  BY Types DEF McpTypes
<1>2. CASE session' = [session EXCEPT ![s].proc = proc]
  <2> DEFINE new == [session[s] EXCEPT !.proc = proc]
  <2>1. session' = [session EXCEPT ![s] = new]
    BY <1>2
  <2>2. new.proc = proc /\ new.pending = session[s].pending
    BY <1>1 DEF SessionState
  <2> HIDE DEF new
  <2> QED BY <1>1, <2>1, <2>2
<1>3. CASE session' = [session EXCEPT ![s].proc = proc, ![s].reader = reader]
  <2> DEFINE new == [session[s] EXCEPT !.proc = proc, !.reader = reader]
  <2>1. session' = [session EXCEPT ![s] = new]
    BY <1>1, <1>3
  <2>2. new.proc = proc /\ new.pending = session[s].pending
    BY <1>1 DEF SessionState
  <2> HIDE DEF new
  <2> QED BY <1>1, <2>1, <2>2
<1> QED BY <1>2, <1>3

LEMMA ReaderEnds ==
  ASSUME OwnInv, NEW s \in Servers,
         \/ session' = [session EXCEPT ![s].reader = "ended"]
         \/ session' = [session EXCEPT ![s].reader = "ended", ![s].pending = <<>>]
         \/ session' = [session EXCEPT ![s] = [@ EXCEPT !.proc = "closed", !.reader = "ended", !.pending = <<>>]]
  PROVE  /\ session'[s].proc \in {session[s].proc, "closed"}
         /\ \A t \in Servers \ {s} : session'[t] = session[t]
         /\ session' = [session EXCEPT ![s].reader = "ended"] => session'[s].pending = session[s].pending
         /\ session' = [session EXCEPT ![s] = [@ EXCEPT !.proc = "closed", !.reader = "ended", !.pending = <<>>]]
              => session'[s].proc = "closed"
<1>1. session \in [Servers -> SessionState] /\ session[s] \in SessionState
  BY Types DEF McpTypes
<1> DEFINE one == [session[s] EXCEPT !.reader = "ended"]
           two == [session[s] EXCEPT !.reader = "ended", !.pending = <<>>]
           three == [session[s] EXCEPT !.proc = "closed", !.reader = "ended", !.pending = <<>>]
<1>2. /\ one.proc = session[s].proc /\ one.pending = session[s].pending
      /\ two.proc = session[s].proc /\ three.proc = "closed"
  BY <1>1 DEF SessionState
<1>3. /\ [session EXCEPT ![s].reader = "ended"] = [session EXCEPT ![s] = one]
      /\ [session EXCEPT ![s].reader = "ended", ![s].pending = <<>>] = [session EXCEPT ![s] = two]
      /\ [session EXCEPT ![s] = [@ EXCEPT !.proc = "closed", !.reader = "ended", !.pending = <<>>]]
           = [session EXCEPT ![s] = three]
  BY <1>1
<1> HIDE DEF one, two, three
<1> QED BY <1>1, <1>2, <1>3

\* A request leaves the table, and no other.
LEMMA PoppedIs ==
  ASSUME OwnInv, NEW r \in DOMAIN request, NEW booted \in BOOLEAN,
         session' = IF booted THEN [Pop(r) EXCEPT ![request[r].server].booted = @ + 1] ELSE Pop(r)
  PROVE  LET s == request[r].server
         IN  /\ session'[s].proc = session[s].proc
             /\ \A t \in Servers \ {s} : session'[t] = session[t]
             /\ \A i \in DOMAIN session[s].pending \ {request[r].id} :
                  i \in DOMAIN session'[s].pending /\ session'[s].pending[i] = session[s].pending[i]
<1> DEFINE s == request[r].server
           left == [i \in DOMAIN session[s].pending \ {request[r].id} |-> session[s].pending[i]]
           once == [session[s] EXCEPT !.pending = left]
           twice == [once EXCEPT !.booted = @ + 1]
<1>1. s \in Servers /\ session[s] \in SessionState /\ session \in [Servers -> SessionState]
  BY Types DEF McpTypes
<1>2. Pop(r) = [session EXCEPT ![s] = once]
  BY <1>1 DEF Pop
<1>3. \A i \in DOMAIN session[s].pending \ {request[r].id} :
        i \in DOMAIN left /\ left[i] = session[s].pending[i]
  OBVIOUS
<1>4. session' = [session EXCEPT ![s] = IF booted THEN twice ELSE once]
  BY <1>1, <1>2 DEF s
<1>5. once.proc = session[s].proc /\ once.pending = left
      /\ twice.proc = session[s].proc /\ twice.pending = left
  BY <1>1 DEF SessionState
<1> HIDE DEF once, twice
<1>6. PICK new \in {once, twice} : session' = [session EXCEPT ![s] = new]
  BY <1>4
<1>7. new.proc = session[s].proc /\ new.pending = left
  BY <1>5
<1> HIDE DEF left
<1> QED BY <1>1, <1>3, <1>6, <1>7

----
\* The steps, one by one.
LEMMA QuietSpawn ==
  ASSUME QuietInv, Spawn
  PROVE  HostInv' /\ WaitingFiled'
<1>1. /\ OwnInv /\ HostInv /\ WaitingFiled /\ UNCHANGED request
      /\ host.at = "connecting" /\ host.cur \in Servers /\ session[host.cur].proc = "none"
  BY DEF QuietInv, HostInv, Spawn
<1>2. CASE host' = Failing /\ UNCHANGED session
  <2>1. NothingNew
    BY <1>1, <1>2 DEF NothingNew
  <2> QED BY <1>1, <1>2, <2>1, HostFails, FiledKept
<1>3. CASE /\ session' = [session EXCEPT ![host.cur].proc = "up", ![host.cur].reader = "reads"]
           /\ UNCHANGED host
  <2>1. /\ \A t \in Servers : session'[t].pending = session[t].pending
        /\ \A t \in Servers \ {host.cur} : session'[t] = session[t]
    BY <1>1, <1>3, ProcessIs DEF Procs, Readers
  <2>2. HostInv'
    <3>1. \A t \in Servers : t > host.cur => t # host.cur
      BY DEF Servers
    <3>2. \A t \in Servers : t > host.cur => session'[t].proc = "none"
      BY <1>1, <2>1, <3>1 DEF HostInv
    <3> QED BY <1>1, <1>3, <3>2 DEF HostInv
  <2>3. \A r \in DOMAIN request : request[r].server \in Servers
    BY <1>1, Types
  <2> QED BY <1>1, <2>1, <2>2, <2>3, FiledKept
<1> QED BY <1>2, <1>3 DEF Spawn

LEMMA QuietSession ==
  ASSUME QuietInv, NEW s \in Servers, Dies(s) \/ EndOfOutput(s) \/ Rubbish(s)
  PROVE  HostInv' /\ WaitingFiled'
<1>1. OwnInv /\ HostInv /\ WaitingFiled /\ UNCHANGED host
  BY DEF QuietInv, Dies, EndOfOutput, Rubbish
<1>2. \A r \in DOMAIN request : request[r].server \in Servers
  BY <1>1, Types
<1>3. CASE Dies(s)
  <2>1. session[s].proc = "up" /\ UNCHANGED request
    BY <1>3 DEF Dies
  <2>2. /\ \A t \in Servers : session'[t].pending = session[t].pending
        /\ \A t \in Servers \ {s} : session'[t] = session[t]
    BY <1>1, <1>3, ProcessIs DEF Dies, Procs, Readers
  <2>3. NothingNew
    BY <2>1, <2>2 DEF NothingNew
  <2> QED BY <1>1, <1>2, <2>1, <2>2, <2>3, HostKept, FiledKept
<1>4. CASE EndOfOutput(s)
  <2>1. session[s].proc = "dead" /\ UNCHANGED request
        /\ session' = [session EXCEPT ![s].reader = "ended"]
    BY <1>4 DEF EndOfOutput
  <2>2. /\ session'[s].pending = session[s].pending
        /\ \A t \in Servers \ {s} : session'[t] = session[t]
    BY <1>1, <2>1, ReaderEnds
  <2>3. NothingNew
    BY <2>1, <2>2 DEF NothingNew
  <2> QED BY <1>1, <1>2, <2>1, <2>2, <2>3, HostKept, FiledKept
<1>5. CASE Rubbish(s)
  <2>1. /\ session[s].proc = "up" /\ request' = FailAll(Unresolved(s) \intersect PendingOf(s))
        /\ session' = [session EXCEPT ![s].reader = "ended", ![s].pending = <<>>]
    BY <1>5 DEF Rubbish
  <2>2. \A t \in Servers \ {s} : session'[t] = session[t]
    BY <1>1, <2>1, ReaderEnds
  <2>3. /\ DOMAIN request' = DOMAIN request
        /\ \A r \in DOMAIN request :
             /\ request'[r].server = request[r].server /\ request'[r].id = request[r].id
             /\ request[r].server # s => request'[r] = request[r]
             /\ request[r].server = s => request'[r].at # "waits"
             /\ request[r].at = "ended" => request'[r].at = "ended"
             /\ request'[r].at = "waits" => request[r].at = "waits"
    BY <1>1, <2>1, FailAllEnds
  <2>4. NothingNew
    BY <2>1, <2>2, <2>3 DEF NothingNew
  <2>5. WaitingFiled'
    BY <1>1, <1>2, <2>2, <2>3, FiledKept
  <2> QED BY <1>1, <2>4, <2>5, HostKept
<1> QED BY <1>3, <1>4, <1>5

\* Every call that waits for this server is in its table and fails.
LEMMA QuietClose ==
  ASSUME QuietInv, CloseSession
  PROVE  HostInv' /\ WaitingFiled'
<1>0. PICK s : s = host.cur
  OBVIOUS
<1>1. /\ OwnInv /\ HostInv /\ WaitingFiled /\ host.at = "closing" /\ s \in Servers
      /\ request' = FailAll(Unresolved(s) \intersect PendingOf(s))
      /\ session' = [session EXCEPT ![s] = [@ EXCEPT !.proc = "closed", !.reader = "ended", !.pending = <<>>]]
      /\ host' = IF s = 1 THEN [host EXCEPT !.at = "closed"] ELSE [host EXCEPT !.cur = @ - 1]
  BY <1>0 DEF QuietInv, HostInv, CloseSession
<1>2. \A r \in DOMAIN request : request[r].server \in Servers
  BY <1>1, Types
<1>3. session'[s].proc = "closed" /\ \A t \in Servers \ {s} : session'[t] = session[t]
  BY <1>1, ReaderEnds
<1>4. /\ DOMAIN request' = DOMAIN request
      /\ \A r \in DOMAIN request :
           /\ request'[r].server = request[r].server /\ request'[r].id = request[r].id
           /\ request[r].server # s => request'[r] = request[r]
           /\ request[r].server = s => request'[r].at # "waits"
           /\ request[r].at = "ended" => request'[r].at = "ended"
           /\ request'[r].at = "waits" => request[r].at = "waits"
  BY <1>1, FailAllEnds
<1>5. WaitingFiled'
  BY <1>1, <1>2, <1>3, <1>4, FiledKept
<1>6. Silent(s)' /\ \A t \in Servers : t > s => Silent(t)'
  <2>1. Silent(s)'
    BY <1>3, <1>4 DEF Silent
  <2>2. ASSUME NEW t \in Servers, t > s PROVE Silent(t)'
    <3>1. Silent(t) /\ t # s
      BY <1>0, <1>1, <2>2 DEF HostInv, Servers
    <3>2. session'[t] = session[t]
      BY <1>3, <2>2, <3>1
    <3>3. \A r \in DOMAIN request' : request'[r].server = t => request'[r] = request[r]
      BY <1>4, <3>1
    <3> QED BY <1>4, <3>1, <3>2, <3>3 DEF Silent
  <2> QED BY <2>1, <2>2
<1>7. CASE s = 1
  <2>1. host' = [at |-> "closed", cur |-> host.cur]
    BY <1>0, <1>1, <1>7 DEF HostInv
  <2>2. \A t \in Servers : t = s \/ t > s
    BY <1>7 DEF Servers
  <2> QED BY <1>0, <1>1, <1>5, <1>6, <2>1, <2>2 DEF HostInv
<1>8. CASE s # 1
  <2>1. host' = [at |-> "closing", cur |-> s - 1]
    BY <1>0, <1>1, <1>8 DEF HostInv
  <2>2. s - 1 \in Servers /\ \A t \in Servers : t > s - 1 => t = s \/ t > s
    BY <1>1, <1>8, McpAssumption DEF McpAssumption, Servers
  <2>3. \A t \in Servers : t > s - 1 => Silent(t)'
    BY <1>6, <2>2
  <2>4. host'.at = "closing" /\ host'.cur = s - 1
        /\ host' \in [at : {"connecting", "ready", "closing", "closed"}, cur : Servers]
    BY <2>1, <2>2
  <2>5. HostInv'
    BY <2>3, <2>4 DEF HostInv
  <2> QED BY <1>5, <2>5
<1> QED BY <1>7, <1>8

LEMMA QuietDeliver ==
  ASSUME QuietInv, NEW r \in DOMAIN request, Deliver(r)
  PROVE  HostInv' /\ WaitingFiled'
<1> DEFINE s == request[r].server
           id == request[r].id
           q == session[s].pending[id]
<1>1. OwnInv /\ HostInv /\ WaitingFiled /\ UNCHANGED <<host, session>>
  BY DEF QuietInv, Deliver
<1>2. CASE id \in DOMAIN session[s].pending /\ request[q].at = "waits"
  <2>1. s \in Servers /\ q \in DOMAIN request
    BY <1>1, <1>2, Types DEF OwnInv
  <2> DEFINE new == [request[q] EXCEPT !.at = "resolved", !.got = r]
  <2>2. request' = [request EXCEPT ![q] = new]
    BY <1>2 DEF Deliver
  <2>3. new.server = request[q].server /\ new.id = request[q].id /\ new.at = "resolved"
    BY <1>1, <2>1, Types DEF RequestState
  <2> HIDE DEF q, new
  <2>4. /\ DOMAIN request' = DOMAIN request /\ request'[q] = new
        /\ \A p \in DOMAIN request \ {q} : request'[p] = request[p]
    BY <1>1, <2>1, <2>2, AtChanges
  <2>5. request[q].at = "waits"
    BY <1>2 DEF q
  <2>6. NothingNew
    BY <1>1, <2>3, <2>4, <2>5 DEF NothingNew
  <2>7. WaitingFiled'
    BY <1>1, <2>3, <2>4, FiledKept
  <2> QED BY <1>1, <2>6, <2>7, HostKept
<1>3. CASE ~(id \in DOMAIN session[s].pending /\ request[q].at = "waits")
  <2>1. UNCHANGED request
    BY <1>3 DEF Deliver
  <2>2. NothingNew
    BY <1>1, <2>1 DEF NothingNew
  <2> QED BY <1>1, <2>1, <2>2, HostKept, FiledKept
<1> QED BY <1>2, <1>3

LEMMA QuietServerAsks ==
  ASSUME QuietInv, NEW r \in DOMAIN request, ServerAsks(r)
  PROVE  HostInv' /\ WaitingFiled'
<1> DEFINE new == [request[r] EXCEPT !.at = "resolved", !.got = Nothing]
<1>1. /\ OwnInv /\ HostInv /\ WaitingFiled /\ UNCHANGED <<host, session>>
      /\ request[r].at = "waits" /\ request' = [request EXCEPT ![r] = new]
  BY DEF QuietInv, ServerAsks
<1>2. new.server = request[r].server /\ new.id = request[r].id /\ new.at = "resolved"
  BY <1>1, Types DEF RequestState
<1> HIDE DEF new
<1>3. /\ DOMAIN request' = DOMAIN request /\ request'[r] = new
      /\ \A p \in DOMAIN request \ {r} : request'[p] = request[p]
  BY <1>1, AtChanges
<1>4. NothingNew
  BY <1>1, <1>2, <1>3 DEF NothingNew
<1>5. WaitingFiled'
  BY <1>1, <1>2, <1>3, FiledKept
<1> QED BY <1>1, <1>4, <1>5, HostKept

\* The end of a request is, while the host connects, the end of all there are.
LEMMA QuietEnd ==
  ASSUME QuietInv, NEW r \in DOMAIN request, Wake(r) \/ GiveUp(r)
  PROVE  HostInv' /\ WaitingFiled'
<1> DEFINE s == request[r].server
           new == [request[r] EXCEPT !.at = "ended"]
<1>1. OwnInv /\ HostInv /\ WaitingFiled /\ s \in Servers /\ request[r].at # "ended"
  BY Types DEF QuietInv, Wake, GiveUp
<1>2. new.server = s /\ new.id = request[r].id /\ new.at = "ended"
  BY <1>1, Types DEF RequestState
<1>3. request' = [request EXCEPT ![r] = new]
  BY DEF Wake, GiveUp
<1>4. PICK ok \in BOOLEAN : host' = HostAfter(s, ok)
  BY DEF Wake, GiveUp
<1>5. PICK booted \in BOOLEAN :
        session' = IF booted THEN [Pop(r) EXCEPT ![request[r].server].booted = @ + 1] ELSE Pop(r)
  BY DEF Wake, GiveUp
<1> HIDE DEF new
<1>6. /\ session'[s].proc = session[s].proc
      /\ \A t \in Servers \ {s} : session'[t] = session[t]
      /\ \A i \in DOMAIN session[s].pending \ {request[r].id} :
           i \in DOMAIN session'[s].pending /\ session'[s].pending[i] = session[s].pending[i]
  BY <1>1, <1>5, PoppedIs
<1>7. /\ DOMAIN request' = DOMAIN request /\ request'[r] = new
      /\ \A q \in DOMAIN request \ {r} : request'[q] = request[q]
  BY <1>1, <1>3, AtChanges
<1>8. \A q \in DOMAIN request : request[q].server \in Servers
  BY <1>1, Types
<1>9. \A q \in DOMAIN request \ {r} : request[q].server = s => request[q].id # request[r].id
  BY <1>1 DEF OwnInv
<1>10. WaitingFiled'
  <2>1. ASSUME NEW q \in DOMAIN request, request'[q].at = "waits"
        PROVE  /\ q # r /\ request[q].at = "waits"
               /\ request[q].id \in DOMAIN session[request[q].server].pending =>
                    /\ request[q].id \in DOMAIN session'[request[q].server].pending
                    /\ session'[request[q].server].pending[request[q].id]
                         = session[request[q].server].pending[request[q].id]
    <3>1. q # r /\ request[q].at = "waits"
      BY <1>2, <1>7, <2>1
    <3>2. CASE request[q].server = s
      BY <1>6, <1>9, <2>1, <3>1, <3>2
    <3>3. CASE request[q].server # s
      BY <1>6, <1>8, <2>1, <3>1, <3>3
    <3> QED BY <3>1, <3>2, <3>3
  <2>2. \A q \in DOMAIN request : request'[q].server = request[q].server /\ request'[q].id = request[q].id
    BY <1>2, <1>7
  <2> QED BY <1>1, <1>7, <2>1, <2>2, FiledKept
<1>11. NothingNew
  BY <1>2, <1>6, <1>7 DEF NothingNew
<1>12. CASE host' = host
  BY <1>1, <1>10, <1>11, <1>12, HostKept
<1>13. CASE host.at = "connecting" /\ host' = Failing
  BY <1>1, <1>10, <1>11, <1>13, HostFails
<1>14. CASE host.at = "connecting" /\ s = ServerCount /\ host' = [host EXCEPT !.at = "ready"]
  <2>1. host' = [at |-> "ready", cur |-> host.cur]
    BY <1>1, <1>14 DEF HostInv
  <2> QED BY <1>1, <1>10, <2>1 DEF HostInv
<1>15. CASE host.at = "connecting" /\ s # ServerCount /\ host' = [host EXCEPT !.cur = @ + 1]
  <2>1. s = host.cur /\ \A q \in DOMAIN request \ {r} : request[q].at = "ended"
    BY <1>1, <1>15 DEF HostInv
  <2>2. host' = [at |-> "connecting", cur |-> s + 1]
    BY <1>1, <1>15, <2>1 DEF HostInv
  <2>3. s + 1 \in Servers
    BY <1>1, <1>15, McpAssumption DEF McpAssumption, Servers
  <2>4. \A t \in Servers : t > s + 1 => t > s /\ t # s
    BY <1>1 DEF Servers
  <2>5. \A t \in Servers : t > s + 1 => session'[t].proc = "none"
    BY <1>1, <1>6, <1>15, <2>1, <2>4 DEF HostInv
  <2>6. \A q \in DOMAIN request' : request'[q].server <= s + 1 /\ request'[q].at = "ended"
    <3>1. \A q \in DOMAIN request : request[q].server <= s /\ request[q].server \in Servers
      BY <1>1, <1>8, <1>15, <2>1 DEF HostInv
    <3>2. \A q \in DOMAIN request : request[q].server <= s + 1
      BY <3>1, <1>1 DEF Servers
    <3> QED BY <1>2, <1>7, <2>1, <3>2
  <2> HIDE DEF s
  <2>7. HostInv'
    BY <2>2, <2>3, <2>5, <2>6 DEF HostInv
  <2> QED BY <1>10, <2>7
<1> QED BY <1>4, <1>12, <1>13, <1>14, <1>15 DEF HostAfter

LEMMA QuietRequest ==
  ASSUME QuietInv, NEW s \in Servers, Request(s)
  PROVE  HostInv' /\ WaitingFiled'
<1> DEFINE id == session[s].nextId
           n == Len(request) + 1
<1>0. /\ OwnInv /\ HostInv /\ WaitingFiled /\ MayRequest(s)
      /\ session[s] \in SessionState /\ id \in Nat /\ n \in Nat /\ session[s].pending \in Futures
      /\ session \in [Servers -> SessionState]
      /\ request \in Seq(RequestState) /\ DOMAIN request = 1 .. (n - 1) /\ Len(request) \in Nat
  BY Types DEF QuietInv, Request, SessionState, McpTypes
<1>1. PICK at \in {"waits", "ended"} :
        /\ request' = Append(request, [server |-> s, id |-> id, at |-> at, got |-> 0])
        /\ IF at = "waits" THEN UNCHANGED host ELSE host' = HostAfter(s, FALSE)
  BY DEF Request, NextId
<1>2. session' = [session EXCEPT ![s].nextId = @ + 1, ![s].pending = With(@, id, n)]
  BY DEF Request, NextId
<1> DEFINE made == [server |-> s, id |-> id, at |-> at, got |-> 0]
           filed == With(session[s].pending, id, n)
           new == [session[s] EXCEPT !.nextId = @ + 1, !.pending = filed]
<1>3. session' = [session EXCEPT ![s] = new] /\ new.proc = session[s].proc /\ new.pending = filed
  BY <1>0, <1>2 DEF SessionState
<1>4. request' = Append(request, made) /\ made \in RequestState
      /\ made.server = s /\ made.id = id /\ made.at = at
  BY <1>0, <1>1 DEF RequestState, Stages
<1> HIDE DEF id, n, made, filed, new
<1>5. /\ DOMAIN request' = DOMAIN request \union {n} /\ n \notin DOMAIN request
      /\ request'[n] = made /\ \A r \in DOMAIN request : request'[r] = request[r]
  <2>1. Len(request) \in Nat /\ n = Len(request) + 1
    BY <1>0 DEF n
  <2>2. /\ request' \in Seq(RequestState) /\ Len(request') = n
        /\ request'[n] = made /\ \A r \in 1 .. Len(request) : request'[r] = request[r]
    BY <1>0, <1>4, <2>1, AppendProperties
  <2>3. DOMAIN request = 1 .. Len(request) /\ DOMAIN request' = 1 .. n
    BY <1>0, <2>1, <2>2, LenProperties
  <2> QED BY <2>1, <2>2, <2>3
<1>6. /\ DOMAIN filed = DOMAIN session[s].pending \union {id} /\ filed[id] = n
      /\ \A i \in DOMAIN session[s].pending \ {id} : filed[i] = session[s].pending[i]
  <2>1. id \in Nat /\ n \in Nat /\ session[s].pending \in Futures
    BY <1>0
  <2> QED BY <2>1, OneMore DEF filed
<1>7. /\ session'[s].proc = session[s].proc /\ session'[s].pending = filed
      /\ \A t \in Servers \ {s} : session'[t] = session[t]
  BY <1>0, <1>3
<1>8. \A r \in DOMAIN request :
        /\ request[r].server \in Servers
        /\ request[r].server = s => request[r].id # id
  <2>1. \A r \in DOMAIN request : request[r].id \in Nat /\ request[r].server \in Servers
    BY <1>0, Types DEF RequestState
  <2>2. \A r \in DOMAIN request : request[r].server = s => request[r].id < id
    BY <1>0 DEF OwnInv, id
  <2> QED BY <1>0, <2>1, <2>2
<1>9. WaitingFiled'
  <2> SUFFICES ASSUME NEW r \in DOMAIN request', request'[r].at = "waits"
               PROVE  /\ request'[r].id \in DOMAIN session'[request'[r].server].pending
                      /\ session'[request'[r].server].pending[request'[r].id] = r
    BY DEF WaitingFiled
  <2>1. CASE r = n
    BY <1>4, <1>5, <1>6, <1>7, <2>1
  <2>2. CASE r # n
    <3>1. r \in DOMAIN request /\ request'[r] = request[r]
      BY <1>5, <2>2
    <3>2. /\ request[r].id \in DOMAIN session[request[r].server].pending
          /\ session[request[r].server].pending[request[r].id] = r
      BY <1>0, <3>1 DEF WaitingFiled
    <3> QED BY <1>6, <1>7, <1>8, <3>1, <3>2
  <2> QED BY <2>1, <2>2
<1>10. CASE host.at = "ready"
  <2>1. host' = host
    BY <1>1, <1>10 DEF HostAfter
  <2> QED BY <1>0, <1>9, <1>10, <2>1 DEF HostInv
<1>11. CASE host.at # "ready"
  <2>1. /\ host.at = "connecting" /\ s = host.cur
        /\ \A r \in DOMAIN request : request[r].server = s => request[r].at = "ended"
    BY <1>0, <1>11 DEF MayRequest
  <2>2. \A r \in DOMAIN request :
          request[r].at = "ended" /\ request[r].server <= s /\ request[r].server \in Servers
    BY <1>0, <1>8, <2>1 DEF HostInv
  <2>3. \A t \in Servers : t > s => session'[t].proc = "none"
    <3>1. \A t \in Servers : t > s => t # s
      BY DEF Servers
    <3> QED BY <1>0, <1>7, <2>1, <3>1 DEF HostInv
  <2>4. \A r \in DOMAIN request' :
          /\ request'[r].server <= s /\ request'[r].server \in Servers
          /\ request'[r].at # "ended" => request'[r].server = s /\ r = n
    <3>1. s <= s
      BY DEF Servers
    <3> QED BY <1>4, <1>5, <2>2, <3>1
  <2>5. CASE UNCHANGED host
    BY <1>0, <1>9, <2>1, <2>3, <2>4, <2>5 DEF HostInv
  <2>6. CASE at = "ended" /\ host' = HostAfter(s, FALSE)
    <3>1. host' = [at |-> "closing", cur |-> s]
      BY <1>0, <2>1, <2>6 DEF HostAfter, Failing, HostInv
    <3>2. ASSUME NEW t \in Servers, t > s PROVE Silent(t)'
      <4>1. \A r \in DOMAIN request' : request'[r].server # t
        BY <2>4, <3>2 DEF Servers
      <4> QED BY <2>3, <3>2, <4>1 DEF Silent
    <3> QED BY <1>0, <1>9, <3>1, <3>2 DEF HostInv
  <2> QED BY <1>1, <2>5, <2>6
<1> QED BY <1>10, <1>11

LEMMA QuietStep == QuietInv /\ [McpNext]_mcpVars => QuietInv'
<1> SUFFICES ASSUME QuietInv, [McpNext]_mcpVars PROVE QuietInv'
  OBVIOUS
<1>1. OwnInv'
  BY McpStep DEF QuietInv
<1>2. CASE UNCHANGED <<host, session, request>>
  BY <1>1, <1>2 DEF QuietInv, HostInv, WaitingFiled, Silent
<1>3. CASE Spawn \/ CloseSession
  BY <1>1, <1>3, QuietSpawn, QuietClose DEF QuietInv
<1>4. CASE CloseHost
  <2>1. /\ host' = [at |-> "closing", cur |-> ServerCount] /\ UNCHANGED <<session, request>>
        /\ ServerCount \in Servers /\ \A s \in Servers : ~(s > ServerCount)
    BY <1>4, McpAssumption DEF CloseHost, McpAssumption, Servers
  <2>2. HostInv'
    BY <2>1 DEF HostInv
  <2> QED BY <1>1, <2>1, <2>2 DEF QuietInv, WaitingFiled
<1>5. ASSUME NEW s \in Servers, Request(s) \/ Dies(s) \/ EndOfOutput(s) \/ Rubbish(s)
      PROVE  QuietInv'
  BY <1>1, <1>5, QuietRequest, QuietSession DEF QuietInv
<1>6. ASSUME NEW r \in DOMAIN request, Wake(r) \/ GiveUp(r) \/ Deliver(r) \/ ServerAsks(r)
      PROVE  QuietInv'
  BY <1>1, <1>6, QuietEnd, QuietDeliver, QuietServerAsks DEF QuietInv
<1> QED BY <1>2, <1>3, <1>4, <1>5, <1>6 DEF McpNext, mcpVars, Reply

\* When the host is closed, after a run or because one server could not be started, no
\* server is left running and no call is left waiting, for any number of servers and
\* calls (mcp/host.py:62, mcp/client.py:102).
THEOREM ClosedQuiet == McpSpec => []ClosedIsQuiet
<1>1. QuietInv => ClosedIsQuiet
  <2> SUFFICES ASSUME QuietInv, host.at = "closed"
               PROVE  /\ \A s \in Servers : session[s].proc \in {"none", "closed"}
                      /\ \A r \in DOMAIN request : request[r].at # "waits"
    BY DEF ClosedIsQuiet
  <2>1. \A r \in DOMAIN request : request[r].server \in Servers
    BY Types DEF QuietInv
  <2> QED BY <2>1 DEF QuietInv, HostInv, Silent
<1> QED BY <1>1, QuietInitially, QuietStep, PTL DEF McpSpec

----
(***************************************************************************)
(* Delegation                                                              *)
(***************************************************************************)
Answers == {"open", "yes", "no", "cancelled"}
Places == {"thinks", "acts", "asks", "done"}

DelTypes ==
  /\ question \in Seq(Answers)
  /\ latest \in Seq(Nat) /\ Len(latest) = Len(question)
  /\ agent \in [Agents -> [at : Places, turns : Nat, asked : Nat]]

\* The slot holds the question shown last; a yes was said to the one shown last.
SlotInv ==
  /\ approval = Len(question)
  /\ \A q \in DOMAIN question : question[q] = "yes" => latest[q] = q
  /\ \A a \in Agents : agent[a].at = "asks" => agent[a].asked \in DOMAIN question
  /\ \A q \in allowed : q \in DOMAIN question /\ question[q] = "yes"

DelInv == DelTypes /\ SlotInv

LEMMA DelInitially == DelInit => DelInv
BY DEF DelInit, DelInv, DelTypes, SlotInv, Answers, Places

\* The slot is answered, by the user or by a stop.
LEMMA ResolveKeepsSlot ==
  ASSUME DelInv, NEW answer \in {"yes", "no"}, Resolve(answer), UNCHANGED <<agent, approval, allowed>>
  PROVE  DelInv'
<1>1. CASE SlotOpen
  <2> DEFINE n == Len(question)
  <2>1. n \in DOMAIN question /\ approval = n /\ DOMAIN latest = DOMAIN question
    BY <1>1 DEF SlotOpen, DelInv, DelTypes, SlotInv
  <2>2. question' = [question EXCEPT ![n] = answer] /\ latest' = [latest EXCEPT ![n] = n]
    BY <1>1, <2>1 DEF Resolve
  <2>3. /\ question' \in Seq(Answers) /\ Len(question') = n /\ DOMAIN question' = DOMAIN question
        /\ latest' \in Seq(Nat) /\ Len(latest') = n
    BY <2>1, <2>2 DEF DelInv, DelTypes, Answers
  <2>4. /\ \A q \in DOMAIN question \ {n} : question'[q] = question[q] /\ latest'[q] = latest[q]
        /\ latest'[n] = n /\ question[n] = "open"
    BY <2>1, <2>2, <1>1 DEF DelInv, DelTypes, SlotOpen
  <2> QED BY <2>1, <2>3, <2>4 DEF DelInv, DelTypes, SlotInv
<1>2. CASE ~SlotOpen
  BY <1>2 DEF Resolve, DelInv, DelTypes, SlotInv
<1> QED BY <1>1, <1>2

LEMMA PutQuestionKeepsSlot ==
  ASSUME DelInv, NEW a \in Agents, PutQuestion(a)
  PROVE  DelInv'
<1> DEFINE n == Len(question) + 1
<1>1. /\ question' = Append(question, "open") /\ latest' = Append(latest, 0) /\ approval' = n
      /\ agent' = [agent EXCEPT ![a].at = "asks", ![a].asked = n] /\ allowed' = allowed
  BY DEF PutQuestion, SlotAfter
<1>2. /\ question' \in Seq(Answers) /\ Len(question') = n /\ n \in DOMAIN question'
      /\ latest' \in Seq(Nat) /\ Len(latest') = n /\ n \in Nat
      /\ question'[n] = "open"
      /\ \A q \in DOMAIN question : q \in DOMAIN question' /\ question'[q] = question[q] /\ latest'[q] = latest[q]
      /\ \A q \in DOMAIN question' : q = n \/ q \in DOMAIN question
  BY <1>1 DEF DelInv, DelTypes, Answers
<1>3. agent' \in [Agents -> [at : Places, turns : Nat, asked : Nat]]
  BY <1>1, <1>2, ZenonT(30) DEF DelInv, DelTypes, Places
<1>4. \A b \in Agents : agent'[b].at = "asks" => agent'[b].asked \in DOMAIN question'
  BY <1>1, <1>2 DEF DelInv, DelTypes, SlotInv
<1> QED BY <1>1, <1>2, <1>3, <1>4 DEF DelInv, DelTypes, SlotInv

LEMMA DelStep == DelInv /\ [DelNext]_delVars => DelInv'
<1> SUFFICES ASSUME DelInv, [DelNext]_delVars PROVE DelInv'
  OBVIOUS
<1>1. CASE UNCHANGED delVars
  BY <1>1 DEF delVars, DelInv, DelTypes, SlotInv
<1>2. CASE AnswerSlot
  BY <1>2, ResolveKeepsSlot DEF AnswerSlot
<1>3. CASE InterruptAll
  BY <1>3, ResolveKeepsSlot DEF InterruptAll
<1>4. CASE SteerRun \/ RunEnds
  BY <1>4 DEF SteerRun, RunEnds, DelInv, DelTypes, SlotInv
<1>5. CASE SteeredAway
  <2>1. /\ DOMAIN question' = DOMAIN question /\ question' \in Seq(Answers) /\ Len(question') = Len(question)
        /\ \A q \in DOMAIN question :
             question'[q] = question[q] \/ (question[q] = "open" /\ question'[q] = "cancelled")
    BY <1>5 DEF SteeredAway, DelInv, DelTypes, Answers
  <2>2. /\ agent' \in [Agents -> [at : Places, turns : Nat, asked : Nat]]
        /\ \A a \in Agents : agent'[a].at = "done"
    BY <1>5 DEF SteeredAway, DelInv, DelTypes, Places
  <2>3. UNCHANGED <<approval, latest, allowed>>
    BY <1>5 DEF SteeredAway
  <2> QED BY <2>1, <2>2, <2>3 DEF DelInv, DelTypes, SlotInv
<1>6. ASSUME NEW a \in Agents, SubagentEnds(a) \/ Think(a) \/ Act(a) PROVE DelInv'
  <2>1. /\ agent' \in [Agents -> [at : Places, turns : Nat, asked : Nat]]
        /\ \A b \in Agents : agent'[b].at = "asks" => agent[b].at = "asks" /\ agent'[b].asked = agent[b].asked
    <3>1. CASE SubagentEnds(a) \/ Act(a)
      BY <3>1 DEF SubagentEnds, Act, At, DelInv, DelTypes, Places
    <3>2. CASE Think(a)
      <4> DEFINE new == [agent[a] EXCEPT !.at = "acts", !.turns = @ + 1]
      <4>1. agent[a] \in [at : Places, turns : Nat, asked : Nat] /\ agent' = [agent EXCEPT ![a] = new]
        <5>1. agent[a] \in [at : Places, turns : Nat, asked : Nat]
          BY DEF DelInv, DelTypes
        <5> QED BY <3>2, <5>1 DEF Think
      <4>2. new \in [at : Places, turns : Nat, asked : Nat] /\ new.at = "acts"
        <5> DEFINE turns == agent[a].turns + 1
        <5>1. turns \in Nat /\ new = [agent[a] EXCEPT !.at = "acts", !.turns = turns]
          BY <4>1
        <5> HIDE DEF turns
        <5> QED BY <4>1, <5>1 DEF Places
      <4> QED BY <4>1, <4>2 DEF DelInv, DelTypes
    <3> QED BY <1>6, <3>1, <3>2
  <2>2. UNCHANGED <<question, approval, latest, allowed>>
    BY <1>6 DEF SubagentEnds, Think, Act, Quiet
  <2> QED BY <2>1, <2>2 DEF DelInv, DelTypes, SlotInv
<1>7. ASSUME NEW a \in Agents, HearAnswer(a) PROVE DelInv'
  <2>1. /\ agent' \in [Agents -> [at : Places, turns : Nat, asked : Nat]]
        /\ \A b \in Agents : agent'[b].at = "asks" => agent[b].at = "asks" /\ agent'[b].asked = agent[b].asked
    BY <1>7 DEF HearAnswer, At, DelInv, DelTypes, Places
  <2>2. UNCHANGED <<question, approval, latest>>
    BY <1>7 DEF HearAnswer, Quiet
  <2>3. \A q \in allowed' : q \in DOMAIN question /\ question[q] = "yes"
    BY <1>7 DEF HearAnswer, DelInv, SlotInv
  <2> QED BY <2>1, <2>2, <2>3 DEF DelInv, DelTypes, SlotInv
<1>8. ASSUME NEW a \in Agents, PutQuestion(a) PROVE DelInv'
  BY <1>8, PutQuestionKeepsSlot
<1> QED BY <1>1, <1>2, <1>3, <1>4, <1>5, <1>6, <1>7, <1>8 DEF DelNext

\* A tool that asked runs only on a yes that was given when its own question was the
\* last one shown, however many subagents ask at the same time (controller.py:97, 177).
THEOREM YesIsForItsQuestion == DelSpec => []YesIsForTheShownQuestion
<1>1. DelInv => YesIsForTheShownQuestion
  BY DEF DelInv, SlotInv, YesIsForTheShownQuestion
<1> QED BY <1>1, DelInitially, DelStep, PTL DEF DelSpec

----
(***************************************************************************)
(* RpcServer                                                               *)
(***************************************************************************)
RunStates ==
  [at : {"fresh", "works", "asks", "over", "forwarded"}, asks : BOOLEAN, stopped : BOOLEAN,
   verdict : {"none", "succeeded", "failed", "interrupted"}]

\* A task that was started and is not forwarded to its end has its forwarder at work,
\* or had one that failed; that is what a wait reads in _idle_events.
RpcInv ==
  /\ run \in [Runs -> RunStates]
  /\ \A t \in Runs : run[t].at \in {"works", "asks", "over"} => t \in idleEvents \union silent
  /\ told \subseteq Runs /\ IdleMeansOver

LEMMA RpcInitially == RpcInit => RpcInv
  BY DEF RpcInit, RpcInv, RunStates, Fresh, IdleMeansOver

\* What a task or its forwarder does leaves every other task as it is, and takes none back
\* that was forwarded to its end.
LEMMA RunsGoOn ==
  ASSUME RpcInv, NEW t \in Runs, NEW to \in RunStates,
         run' = [run EXCEPT ![t] = to],
         run[t].at = "forwarded" => to.at = "forwarded",
         to.at \in {"works", "asks", "over"} => t \in idleEvents' \union silent',
         idleEvents \ {t} \subseteq idleEvents', silent \subseteq silent', told' = told
  PROVE  RpcInv'
<1>1. run' \in [Runs -> RunStates] /\ run'[t] = to /\ \A u \in Runs \ {t} : run'[u] = run[u]
  BY DEF RpcInv
<1>2. \A u \in Runs : run'[u].at \in {"works", "asks", "over"} => u \in idleEvents' \union silent'
  BY <1>1 DEF RpcInv
<1>3. IdleMeansOver'
  BY <1>1 DEF RpcInv, IdleMeansOver
<1> QED BY <1>1, <1>2, <1>3 DEF RpcInv

LEMMA RpcStep == RpcInv /\ [RpcNext]_rpcVars => RpcInv'
<1> SUFFICES ASSUME RpcInv, [RpcNext]_rpcVars PROVE RpcInv'
  OBVIOUS
<1>1. CASE UNCHANGED <<told, run, idleEvents, silent>>
  BY <1>1 DEF RpcInv, IdleMeansOver
<1>2. CASE SendLine \/ ReadLine \/ EndOfInput \/ Refuse \/ Serve
  BY <1>1, <1>2 DEF SendLine, ReadLine, EndOfInput, Refuse, Serve, Finish
<1>3. CASE Launch
  <2>1. PICK t \in Runs, asks \in BOOLEAN :
           /\ run[t].at = "fresh"
           /\ run' = [run EXCEPT ![t] = [Fresh EXCEPT !.at = "works", !.asks = asks]]
           /\ idleEvents' = idleEvents \union {t}
    BY <1>3 DEF Launch
  <2>2. PICK to : to = [Fresh EXCEPT !.at = "works", !.asks = asks]
    OBVIOUS
  <2>3. to \in RunStates
    BY <2>2 DEF RunStates, Fresh
  <2>4. told' = told /\ silent' = silent
    BY <1>3 DEF Launch, Finish
  <2> QED BY <2>1, <2>2, <2>3, <2>4, RunsGoOn
<1>4. CASE Abort \/ AnswerQuestion
  <2>1. UNCHANGED <<told, idleEvents, silent>>
    BY <1>4 DEF Abort, AnswerQuestion, Finish
  <2>2. CASE run' = run
    BY <1>1, <2>1, <2>2
  <2>3. CASE run' # run
    <3>1. serving.run \in Runs /\ run[serving.run].at \in {"works", "asks"}
      <4>1. CASE Abort
        <5>1. serving.run \in Runs /\ run[serving.run].at # "fresh" /\ ~Finished(serving.run)
          BY <2>3, <4>1 DEF Abort, Acceptable, Serves, Known
        <5> QED BY <5>1 DEF RpcInv, RunStates, Finished
      <4>2. CASE AnswerQuestion
        BY <2>3, <4>2 DEF AnswerQuestion, Acceptable, Serves, Known
      <4> QED BY <1>4, <4>1, <4>2
    <3>2. PICK t \in Runs : t = serving.run
      BY <3>1
    <3>3. \E to \in RunStates : to.at = "works" /\ run' = [run EXCEPT ![t] = to]
      <4>0. run[t] \in RunStates
        BY DEF RpcInv
      <4>1. CASE Abort
        <5>1. run' = [run EXCEPT ![t] = [run[t] EXCEPT !.stopped = TRUE, !.at = "works"]]
          BY <2>3, <3>2, <4>1 DEF Abort, RpcInv
        <5> QED BY <4>0, <5>1 DEF RunStates
      <4>2. CASE AnswerQuestion
        <5>1. run' = [run EXCEPT ![t] = [run[t] EXCEPT !.at = "works"]]
          BY <2>3, <3>2, <4>2 DEF AnswerQuestion, RpcInv
        <5> QED BY <4>0, <5>1 DEF RunStates
      <4> QED BY <1>4, <4>1, <4>2
    <3>4. PICK to \in RunStates : to.at = "works" /\ run' = [run EXCEPT ![t] = to]
      BY <3>3
    <3>5. t \in idleEvents \union silent
      BY <3>1, <3>2 DEF RpcInv
    <3> QED BY <2>1, <3>1, <3>2, <3>4, <3>5, RunsGoOn
  <2> QED BY <2>2, <2>3
<1>5. CASE WaitIdle
  <2>1. /\ told' = told \union {t \in Runs : t = serving.run /\ Known(t)}
        /\ serving.run \notin idleEvents /\ UNCHANGED <<run, idleEvents, silent>>
    BY <1>5 DEF WaitIdle, Finish
  <2>2. ASSUME NEW t \in Runs, t = serving.run, Known(t)
        PROVE  run[t].at = "forwarded" \/ t \in silent
    BY <2>1, <2>2 DEF RpcInv, RunStates, Known
  <2> QED BY <2>1, <2>2 DEF RpcInv, IdleMeansOver
<1>6. ASSUME NEW t \in Runs, Ask(t) \/ EndOfTask(t) PROVE RpcInv'
  <2>0. run[t] \in RunStates /\ run[t].at = "works" /\ t \in idleEvents \union silent
    BY <1>6 DEF Ask, EndOfTask, RpcInv
  <2>1. UNCHANGED <<told, idleEvents, silent>>
    BY <1>6 DEF Ask, EndOfTask
  <2>2. \E to \in RunStates : run' = [run EXCEPT ![t] = to]
    <3>1. CASE Ask(t)
      <4>1. run' = [run EXCEPT ![t] = [run[t] EXCEPT !.at = "asks"]]
        BY <3>1 DEF Ask, RpcInv
      <4> QED BY <2>0, <4>1 DEF RunStates
    <3>2. CASE EndOfTask(t)
      <4>1. PICK how \in IF run[t].stopped THEN {"interrupted"} ELSE {"succeeded", "failed"} :
               run' = [run EXCEPT ![t].at = "over", ![t].verdict = how]
        BY <3>2 DEF EndOfTask
      <4>2. run' = [run EXCEPT ![t] = [run[t] EXCEPT !.at = "over", !.verdict = how]]
        BY <4>1 DEF RpcInv
      <4>3. how \in {"succeeded", "failed", "interrupted"}
        OBVIOUS
      <4> QED BY <2>0, <4>2, <4>3 DEF RunStates
    <3> QED BY <1>6, <3>1, <3>2
  <2>3. PICK to \in RunStates : run' = [run EXCEPT ![t] = to]
    BY <2>2
  <2> QED BY <2>0, <2>1, <2>3, RunsGoOn
<1>7. ASSUME NEW t \in Runs, Forwarded(t) PROVE RpcInv'
  <2>0. run[t] \in RunStates
    BY DEF RpcInv
  <2>1. /\ run' = [run EXCEPT ![t] = [run[t] EXCEPT !.at = "forwarded"]]
        /\ idleEvents' = idleEvents \ {t} /\ UNCHANGED <<told, silent>>
    BY <1>7 DEF Forwarded, ForwardedOf, RpcInv
  <2>2. PICK to : to = [run[t] EXCEPT !.at = "forwarded"]
    OBVIOUS
  <2>3. to \in RunStates /\ to.at = "forwarded"
    BY <2>0, <2>2 DEF RunStates
  <2> QED BY <2>1, <2>2, <2>3, RunsGoOn
<1>8. ASSUME NEW t \in Runs, ForwarderFails(t) PROVE RpcInv'
  <2>1. /\ run' = run /\ told' = told /\ silent' = silent \union {t}
        /\ idleEvents' = idleEvents \ {t}
    BY <1>8 DEF ForwarderFails, ForwardedOf
  <2> QED BY <2>1 DEF RpcInv, IdleMeansOver
<1> QED BY <1>1, <1>2, <1>3, <1>4, <1>5, <1>6, <1>7, <1>8 DEF RpcNext, RunStep, ServerStep, rpcVars

\* A client that waits is told of no task as idle that still works, asks or has events to
\* pass on, whatever other tasks end or fail meanwhile, unless the task's own forwarder
\* failed; for any number of tasks and lines (rpc.py:107, 135).
THEOREM IdleTasksAreOver == RpcSpec => []IdleMeansOver
<1>1. RpcInv => IdleMeansOver
  BY DEF RpcInv
<1> QED BY <1>1, RpcInitially, RpcStep, PTL DEF RpcSpec

----
(***************************************************************************)
(* EventStream                                                             *)
(***************************************************************************)
Kinds == {"none", "sse", "ws", "rpc"}
LinkState ==
  [page : Pages \union {"none"}, kind : Kinds, at : {"unused", "replay", "live", "over"},
   replay : Seq(Nat), upTo : Nat, there : BOOLEAN]

\* The events a page has, or has lost to another connection.
Has(p) == seen[p] \union diverted[p]

\* The queue holds recorded events in their order, and perhaps the end mark.
QueueInv ==
  /\ recorded \in Nat /\ queue \in Seq(Nat)
  /\ \A i \in DOMAIN queue : queue[i] <= recorded
  /\ \A i, j \in DOMAIN queue : i < j /\ queue[i] # EndMark /\ queue[j] # EndMark => queue[i] < queue[j]

\* A page has every event up to the one it got last.
SeenInv ==
  /\ seen \in [Pages -> SUBSET Nat] /\ diverted \in [Pages -> SUBSET Nat]
  /\ lastSeen \in [Pages -> Nat]
  /\ \A p \in Pages : lastSeen[p] <= recorded /\ 1 .. lastSeen[p] \subseteq Has(p)

\* A connection replays without a gap, from where its page has everything.
Backlog(l) ==
  /\ l.at = "replay" => l.kind \in {"sse", "ws"}
  /\ l.there => l.page \in Pages
  /\ l.upTo <= recorded
  /\ \A i \in DOMAIN l.replay : l.replay[i] = l.replay[1] + i - 1 /\ l.replay[i] \in 1 .. recorded
  /\ l.there /\ l.kind = "ws" => 1 .. l.upTo \subseteq Has(l.page)
  /\ l.there /\ l.replay # <<>> => 1 .. l.replay[1] - 1 \subseteq Has(l.page)

LinkInv ==
  /\ link \in [Connections -> LinkState]
  /\ \A c \in Connections : Backlog(link[c])

\* What NothingMissed says of one connection.
Reaches(c) ==
  Open(c) /\ link[c].there =>
    1 .. recorded \subseteq Has(link[c].page) \union ToSet(Left(c)) \union ToSet(queue)

StreamInv == QueueInv /\ SeenInv /\ LinkInv /\ (\A c \in Connections : Reaches(c))

LEMMA NoLinkIs ==
  /\ NoLink \in LinkState /\ Over \in LinkState
  /\ NoLink.at = "unused" /\ NoLink.upTo = 0 /\ NoLink.replay = <<>> /\ NoLink.there = FALSE
  /\ Over.at = "over" /\ Over.upTo = 0 /\ Over.replay = <<>> /\ Over.there = FALSE
<1>1. <<>> \in Seq(Nat)
  OBVIOUS
<1> QED BY <1>1 DEF NoLink, Over, LinkState, Kinds

LEMMA NothingToReplay ==
  ASSUME recorded \in Nat, NEW l, l.upTo = 0, l.replay = <<>>, l.there => l.page \in Pages,
         l.at = "replay" => l.kind \in {"sse", "ws"}
  PROVE  Backlog(l)
<1>1. DOMAIN l.replay = {} /\ 1 .. l.upTo = {}
  OBVIOUS
<1> QED BY <1>1 DEF Backlog

LEMMA StreamInitially == StreamInit => StreamInv
<1> SUFFICES ASSUME StreamInit PROVE StreamInv
  OBVIOUS
<1>1. /\ recorded = 0 /\ queue = <<>> /\ link = [c \in Connections |-> NoLink]
      /\ seen = [p \in Pages |-> {}] /\ diverted = [p \in Pages |-> {}] /\ lastSeen = [p \in Pages |-> 0]
  BY DEF StreamInit
<1>2. queue \in Seq(Nat) /\ DOMAIN queue = {} /\ 1 .. 0 = {}
  BY <1>1
<1>3. QueueInv /\ SeenInv
  BY <1>1, <1>2 DEF QueueInv, SeenInv
<1>4. \A c \in Connections : link[c] = NoLink /\ ~Open(c)
  BY <1>1, NoLinkIs DEF Open
<1>5. \A c \in Connections : Backlog(link[c])
  BY <1>1, <1>4, NoLinkIs, NothingToReplay
<1>6. link \in [Connections -> LinkState]
  BY <1>1, NoLinkIs
<1> QED BY <1>3, <1>4, <1>5, <1>6 DEF StreamInv, LinkInv, Reaches

\* What is behind a connection stays behind it.
LEMMA BacklogKept ==
  ASSUME QueueInv, NEW l \in LinkState, Backlog(l), recorded' \in Nat, recorded <= recorded',
         \A p \in Pages : Has(p) \subseteq Has(p)'
  PROVE  Backlog(l)'
<1>1. l.upTo \in Nat /\ l.replay \in Seq(Nat)
  BY DEF LinkState
<1>2. l.upTo <= recorded'
  BY <1>1 DEF Backlog, QueueInv
<1>3. \A i \in DOMAIN l.replay : l.replay[i] = l.replay[1] + i - 1 /\ l.replay[i] \in 1 .. recorded'
  BY <1>1 DEF Backlog, QueueInv
<1>4. l.there => Has(l.page) \subseteq Has(l.page)'
  BY DEF Backlog
<1> QED BY <1>2, <1>3, <1>4 DEF Backlog

\* A step of one open connection: what leaves the queue is lost to no other page.
LEMMA OpenMoves ==
  ASSUME StreamInv, NEW c \in Connections, Open(c), NEW new \in LinkState,
         link' = [link EXCEPT ![c] = new], recorded' = recorded,
         \A p \in Pages : Has(p) \subseteq Has(p)',
         QueueInv', SeenInv', Backlog(new)',
         \A d \in Connections \ {c} :
           Open(d) /\ link[d].there => ToSet(queue) \subseteq ToSet(queue') \union Has(link[d].page)',
         Open(c)' /\ new.there =>
           1 .. recorded \subseteq Has(new.page)' \union ToSet(Left(c)') \union ToSet(queue')
  PROVE  StreamInv'
<1>1. /\ QueueInv /\ LinkInv /\ link \in [Connections -> LinkState] /\ recorded \in Nat
  BY DEF StreamInv, LinkInv, QueueInv
<1>2. link' \in [Connections -> LinkState] /\ link'[c] = new
  BY <1>1
<1>3. ASSUME NEW d \in Connections, d # c
      PROVE  Backlog(link[d])' /\ Reaches(d)'
  <2>1. link'[d] = link[d] /\ link[d] \in LinkState /\ Backlog(link[d])
    BY <1>1, <1>3 DEF LinkInv
  <2>2. Backlog(link[d])'
    <3>1. PICK l : l = link[d]
      OBVIOUS
    <3>2. l \in LinkState /\ Backlog(l) /\ l = link'[d]
      BY <2>1, <3>1
    <3>3. recorded' \in Nat /\ recorded <= recorded'
      BY <1>1
    <3>4. Backlog(l)'
      BY <1>1, <3>2, <3>3, BacklogKept
    <3> QED BY <3>2, <3>4 DEF Backlog
  <2>3. ASSUME Open(d)', link'[d].there
        PROVE  1 .. recorded \subseteq Has(link[d].page)' \union ToSet(Left(d)') \union ToSet(queue')
    <3>0. link'[d] = link[d] /\ recorded' = recorded
      BY <2>1
    <3>1. Open(d) /\ link[d].there /\ Left(d)' = Left(d)
      <4>1. Open(d) /\ link[d].there
        BY <2>3, <3>0 DEF Open
      <4>2. Left(d)' = Left(d)
        <5>1. PICK l, r : l = link[d] /\ r = recorded
          OBVIOUS
        <5>2. l = link'[d] /\ r = recorded'
          BY <3>0, <5>1
        <5> QED BY ONLY <5>1, <5>2 DEF Left
      <4> QED BY <4>1, <4>2
    <3>2. link[d].page \in Pages
      BY <2>1, <3>1 DEF Backlog
    <3>3. Has(link[d].page) \subseteq Has(link[d].page)'
      <4>1. PICK p \in Pages : p = link[d].page
        BY <3>2
      <4>2. Has(p) \subseteq Has(p)'
        OBVIOUS
      <4> QED BY <2>1, <4>1, <4>2
    <3>4. 1 .. recorded \subseteq Has(link[d].page) \union ToSet(Left(d)) \union ToSet(queue)
      BY <3>1 DEF StreamInv, Reaches
    <3>5. ToSet(queue) \subseteq ToSet(queue') \union Has(link[d].page)'
      BY <1>3, <3>1
    <3> QED BY <3>1, <3>3, <3>4, <3>5
  <2>4. Reaches(d)'
    BY <2>1, <2>3 DEF Reaches
  <2> QED BY <2>1, <2>2, <2>4
<1>4. LinkInv'
  <2>1. \A d \in Connections : Backlog(link[d])'
    BY <1>2, <1>3
  <2> QED BY <1>2, <2>1 DEF LinkInv
<1>5. Reaches(c)'
  BY <1>2 DEF Reaches
<1>6. \A d \in Connections : Reaches(d)'
  BY <1>3, <1>5
<1> QED BY <1>4, <1>6 DEF StreamInv

\* The event that is taken from the queue or replayed is the next its page lacks, or one
\* it has.
LEMMA SendKeeps ==
  ASSUME StreamInv, NEW c \in Connections, Open(c), NEW event \in 1 .. recorded, NEW next \in LinkState,
         next.page = link[c].page, Send(c, event, next), recorded' = recorded, QueueInv',
         diverted' \in [Pages -> SUBSET Nat], \A p \in Pages : diverted[p] \subseteq diverted'[p],
         link[c].there => 1 .. event - 1 \subseteq Has(link[c].page),
         link[c].there => Backlog(next)',
         \A d \in Connections \ {c} :
           Open(d) /\ link[d].there =>
             ToSet(queue) \subseteq ToSet(queue') \union diverted'[link[d].page]
               \union {e \in {event} : link[c].there /\ link[d].page = link[c].page},
         link[c].there /\ next.there =>
           (link' = [link EXCEPT ![c] = next] =>
              1 .. recorded \subseteq Has(link[c].page) \union {event} \union ToSet(Left(c)') \union ToSet(queue'))
  PROVE  StreamInv'
<1>0. PICK p : p = link[c].page
  OBVIOUS
<1>1. /\ recorded \in Nat /\ event \in Nat /\ SeenInv /\ link \in [Connections -> LinkState]
      /\ link[c].there => p \in Pages
  BY <1>0 DEF StreamInv, QueueInv, LinkInv, Backlog
<1>9. \A d \in Connections : Open(d) /\ link[d].there => link[d].page \in Pages
  BY DEF StreamInv, LinkInv, Backlog
<1>2. CASE link[c].there
  <2>1. /\ p \in Pages /\ link' = [link EXCEPT ![c] = next] /\ seen' = [seen EXCEPT ![p] = @ \union {event}]
        /\ lastSeen' = [lastSeen EXCEPT ![p] = event]
    BY <1>0, <1>1, <1>2 DEF Send
  <2>2. /\ seen' \in [Pages -> SUBSET Nat] /\ lastSeen' \in [Pages -> Nat]
        /\ seen'[p] = seen[p] \union {event} /\ lastSeen'[p] = event
        /\ \A q \in Pages \ {p} : seen'[q] = seen[q] /\ lastSeen'[q] = lastSeen[q]
    BY <1>1, <2>1 DEF SeenInv
  <2>3. \A q \in Pages : Has(q) \subseteq Has(q)'
    BY <2>2 DEF Has
  <2>4. event \in Has(p)' /\ 1 .. event \subseteq Has(p)'
    <3>1. 1 .. event \subseteq (1 .. event - 1) \union {event}
      BY <1>1
    <3>2. event \in Has(p)'
      BY <2>2 DEF Has
    <3>3. 1 .. event - 1 \subseteq Has(p)
      BY <1>0, <1>2
    <3> QED BY <2>1, <2>3, <3>1, <3>2, <3>3
  <2>5. SeenInv'
    <3>1. ASSUME NEW q \in Pages PROVE lastSeen'[q] <= recorded' /\ 1 .. lastSeen'[q] \subseteq Has(q)'
      BY <1>1, <2>2, <2>3, <2>4 DEF SeenInv
    <3> QED BY <2>2, <3>1 DEF SeenInv
  <2>6. ASSUME NEW d \in Connections \ {c}, Open(d), link[d].there
        PROVE  ToSet(queue) \subseteq ToSet(queue') \union Has(link[d].page)'
    <3>1. PICK q : q = link[d].page
      OBVIOUS
    <3>2. q \in Pages /\ link'[d] = link[d]
      BY <1>1, <1>9, <2>1, <2>6, <3>1
    <3>3. q = p => event \in Has(q)'
      BY <2>4
    <3>4. diverted'[q] \subseteq Has(q)'
      BY DEF Has
    <3>5. ToSet(queue) \subseteq ToSet(queue') \union Has(q)'
      BY <1>0, <2>6, <3>1, <3>3, <3>4
    <3> QED BY <3>1, <3>2, <3>5
  <2>7. next.there =>
          1 .. recorded \subseteq Has(next.page)' \union ToSet(Left(c)') \union ToSet(queue')
    <3>1. Has(p) \union {event} \subseteq Has(p)'
      BY <2>1, <2>3, <2>4
    <3> QED BY <1>0, <1>2, <2>1, <3>1
  <2> QED BY <1>2, <2>1, <2>3, <2>5, <2>6, <2>7, OpenMoves
<1>3. CASE ~link[c].there
  <2>1. link' = [link EXCEPT ![c] = Over] /\ UNCHANGED <<seen, lastSeen>>
    BY <1>3 DEF Send
  <2>2. \A q \in Pages : Has(q) \subseteq Has(q)'
    BY <2>1 DEF Has
  <2>3. SeenInv'
    BY <1>1, <2>1, <2>2 DEF SeenInv
  <2>4. Backlog(Over)'
    BY <1>1, NoLinkIs, NothingToReplay DEF Backlog
  <2>5. ASSUME NEW d \in Connections \ {c}, Open(d), link[d].there
        PROVE  ToSet(queue) \subseteq ToSet(queue') \union Has(link[d].page)'
    <3>1. link'[d] = link[d]
      BY <1>1, <2>1, <2>5
    <3>2. ToSet(queue) \subseteq ToSet(queue') \union diverted'[link[d].page]
      BY <1>3, <2>5
    <3> QED BY <3>1, <3>2 DEF Has
  <2> QED BY <2>1, <2>2, <2>3, <2>4, <2>5, NoLinkIs, OpenMoves
<1> QED BY <1>2, <1>3

LEMMA QueueGrows ==
  ASSUME QueueInv, NEW e \in Nat, queue' = Append(queue, e),
         \/ e = EndMark /\ recorded' = recorded
         \/ e = recorded + 1 /\ recorded' = e
  PROVE  QueueInv' /\ ToSet(queue') = ToSet(queue) \union {e}
<1>1. /\ queue' \in Seq(Nat) /\ Len(queue') = Len(queue) + 1 /\ queue'[Len(queue) + 1] = e
      /\ \A i \in 1 .. Len(queue) : queue'[i] = queue[i]
      /\ recorded' \in Nat /\ recorded <= recorded' /\ e <= recorded' /\ Len(queue) \in Nat
  BY DEF QueueInv, EndMark
<1>2. \A i \in DOMAIN queue' : queue'[i] <= recorded'
  BY <1>1 DEF QueueInv
<1>3. ASSUME NEW i \in DOMAIN queue', NEW j \in DOMAIN queue', i < j,
             queue'[i] # EndMark, queue'[j] # EndMark
      PROVE  queue'[i] < queue'[j]
  <2>1. i \in 1 .. Len(queue)
    BY <1>1, <1>3
  <2>2. CASE j \in 1 .. Len(queue)
    BY <1>1, <1>3, <2>1, <2>2 DEF QueueInv
  <2>3. CASE j = Len(queue) + 1
    <3>1. e = recorded + 1
      BY <1>1, <1>3, <2>3
    <3> QED BY <1>1, <2>1, <2>3, <3>1 DEF QueueInv
  <2> QED BY <1>1, <1>3, <2>2, <2>3
<1>4. ToSet(queue') = ToSet(queue) \union {e}
  <2>1. \A i \in DOMAIN queue : i \in DOMAIN queue' /\ queue'[i] = queue[i]
    BY <1>1 DEF QueueInv
  <2>2. \A i \in DOMAIN queue' : i \in DOMAIN queue \/ queue'[i] = e
    BY <1>1 DEF QueueInv
  <2>3. Len(queue) + 1 \in DOMAIN queue'
    BY <1>1
  <2> QED BY <1>1, <2>1, <2>2, <2>3 DEF ToSet
<1> QED BY <1>1, <1>2, <1>3, <1>4 DEF QueueInv

\* The head of the queue goes.
LEMMA QueueShrinks ==
  ASSUME QueueInv, queue # <<>>, queue' = Tail(queue), recorded' = recorded
  PROVE  /\ QueueInv' /\ ToSet(queue) \subseteq ToSet(queue') \union {Head(queue)}
         /\ Head(queue) \in 0 .. recorded
         /\ Head(queue) # EndMark => \A x \in ToSet(queue) : x = EndMark \/ x >= Head(queue)
<1>1. /\ queue' \in Seq(Nat) /\ Len(queue') = Len(queue) - 1 /\ Head(queue) = queue[1]
      /\ \A i \in 1 .. Len(queue) - 1 : queue'[i] = queue[i + 1]
      /\ Len(queue) \in Nat \ {0} /\ recorded \in Nat /\ queue \in Seq(Nat)
  BY DEF QueueInv
<1>2. \A i \in DOMAIN queue' : i + 1 \in DOMAIN queue /\ queue'[i] = queue[i + 1] /\ i \in Nat
  BY <1>1
<1>3. QueueInv'
  <2>1. \A i \in DOMAIN queue' : queue'[i] <= recorded
    BY <1>2 DEF QueueInv
  <2>2. \A i, j \in DOMAIN queue' : i < j => i + 1 < j + 1
    BY <1>2
  <2>3. \A i, j \in DOMAIN queue' :
          i < j /\ queue'[i] # EndMark /\ queue'[j] # EndMark => queue'[i] < queue'[j]
    BY <1>2, <2>2 DEF QueueInv
  <2> QED BY <1>1, <2>1, <2>3 DEF QueueInv
<1>4. ASSUME NEW x \in ToSet(queue) PROVE x \in ToSet(queue') \union {Head(queue)}
  <2>1. PICK i \in DOMAIN queue : x = queue[i]
    BY <1>4 DEF ToSet
  <2>2. CASE i # 1
    <3>1. i - 1 \in DOMAIN queue' /\ queue'[i - 1] = x
      BY <1>1, <2>1, <2>2
    <3> QED BY <3>1 DEF ToSet
  <2> QED BY <1>1, <2>1, <2>2
<1>5. 1 \in DOMAIN queue /\ Head(queue) \in 0 .. recorded
  BY <1>1 DEF QueueInv
<1>6. ASSUME NEW x \in ToSet(queue), Head(queue) # EndMark, x # EndMark PROVE x >= Head(queue)
  <2>1. PICK i \in DOMAIN queue : x = queue[i]
    BY <1>6 DEF ToSet
  <2>2. CASE i # 1
    BY <1>1, <1>5, <1>6, <2>1, <2>2 DEF QueueInv
  <2> QED BY <1>1, <1>5, <2>1, <2>2
<1> QED BY <1>3, <1>4, <1>5, <1>6

----
(***************************************************************************)
(* The steps of a connection                                               *)
(***************************************************************************)
LEMMA EventsSinceIs ==
  ASSUME recorded \in Nat, NEW last \in 0 .. recorded
  PROVE  /\ EventsSince(last) \in Seq(Nat) /\ Len(EventsSince(last)) = recorded - last
         /\ ToSet(EventsSince(last)) = last + 1 .. recorded
         /\ \A i \in DOMAIN EventsSince(last) : EventsSince(last)[i] = last + i
<1> DEFINE n == recorded - last
<1>1. n \in Nat /\ last \in Nat
  OBVIOUS
<1>2. EventsSince(last) = [i \in 1 .. n |-> last + i]
  BY DEF EventsSince
<1>3. \A i \in 1 .. n : last + i \in Nat /\ last + i \in last + 1 .. recorded
  BY <1>1
<1>4. \A x \in last + 1 .. recorded : x - last \in 1 .. n /\ x = last + (x - last)
  BY <1>1
<1>5. [i \in 1 .. n |-> last + i] \in Seq(Nat) /\ Len([i \in 1 .. n |-> last + i]) = n
  <2> HIDE DEF n
  <2> QED BY <1>1, <1>3
<1> HIDE DEF n
<1>6. ToSet(EventsSince(last)) = {last + i : i \in 1 .. n}
  BY <1>2 DEF ToSet
<1>7. ToSet(EventsSince(last)) = last + 1 .. recorded
  BY <1>3, <1>4, <1>6
<1> QED BY <1>2, <1>5, <1>7 DEF n

LEMMA ConnectKeeps ==
  ASSUME StreamInv, NEW c \in Connections, NEW p \in Pages, NEW kind \in {"sse", "ws", "rpc"},
         Connect(c, p, kind)
  PROVE  StreamInv'
<1>0. PICK last, new :
        /\ last = lastSeen[p]
        /\ new = [page |-> p, kind |-> kind, there |-> TRUE, upTo |-> 0,
                  at |-> IF kind = "rpc" THEN "live" ELSE "replay",
                  replay |-> IF kind = "sse" THEN EventsSince(last) ELSE <<>>]
  OBVIOUS
<1>1. /\ QueueInv /\ SeenInv /\ LinkInv /\ link \in [Connections -> LinkState] /\ recorded \in Nat
      /\ last \in 0 .. recorded /\ 1 .. last \subseteq Has(p)
  BY <1>0 DEF StreamInv, LinkInv, QueueInv, SeenInv
<1>2. /\ link[c].at = "unused" /\ link' = [link EXCEPT ![c] = new]
      /\ kind = "rpc" => recorded = 0
      /\ UNCHANGED <<recorded, queue, seen, lastSeen, diverted>>
  BY <1>0 DEF Connect
<1>4. /\ new \in LinkState /\ new.upTo = 0 /\ new.there /\ new.page = p
      /\ new.replay = (IF kind = "sse" THEN EventsSince(last) ELSE <<>>)
      /\ new.kind = kind /\ new.at = (IF kind = "rpc" THEN "live" ELSE "replay")
  <2>1. <<>> \in Seq(Nat) /\ EventsSince(last) \in Seq(Nat)
    BY <1>1, EventsSinceIs
  <2> QED BY <1>0, <2>1 DEF LinkState, Kinds
<1>5. Backlog(new)
  <2>1. CASE new.replay = <<>>
    BY <1>1, <1>4, <2>1, NothingToReplay
  <2>2. CASE new.replay # <<>>
    <3>1. new.replay = EventsSince(last) /\ last \in Nat
      BY <1>1, <1>4, <2>2
    <3>2. /\ new.replay \in Seq(Nat) /\ Len(new.replay) = recorded - last /\ Len(new.replay) # 0
          /\ \A i \in DOMAIN new.replay : new.replay[i] = last + i
      BY <1>1, <2>2, <3>1, EventsSinceIs
    <3>3. new.replay[1] = last + 1 /\ last + 1 - 1 = last
      BY <1>1, <3>1, <3>2
    <3>4. \A i \in DOMAIN new.replay : new.replay[i] = new.replay[1] + i - 1 /\ new.replay[i] \in 1 .. recorded
      BY <1>1, <3>1, <3>2, <3>3
    <3>5. 1 .. new.replay[1] - 1 \subseteq Has(p)
      BY <1>1, <3>3
    <3>6. 1 .. new.upTo = {}
      BY <1>4
    <3> QED BY <1>1, <1>4, <3>4, <3>5, <3>6 DEF Backlog
  <2> QED BY <2>1, <2>2
<1>6. /\ link' \in [Connections -> LinkState] /\ link'[c] = new
      /\ \A d \in Connections : d # c => link'[d] = link[d]
  BY <1>1, <1>2, <1>4
<1>3. \A q : Has(q)' = Has(q)
  BY <1>2 DEF Has
<1>7. LinkInv'
  <2>1. \A d \in Connections : Backlog(link'[d])
    BY <1>1, <1>5, <1>6 DEF LinkInv
  <2>2. \A d \in Connections : Backlog(link[d])'
    BY <1>2, <2>1 DEF Backlog, Has
  <2> QED BY <1>6, <2>2 DEF LinkInv
<1>8. 1 .. recorded \subseteq Has(p) \union ToSet(Left(c)')
  <2>1. CASE kind = "rpc"
    BY <1>2, <2>1
  <2>2. CASE kind = "sse"
    <3>1. Left(c)' = EventsSince(last)
      BY <1>4, <1>6, <2>2 DEF Left
    <3>2. 1 .. recorded \subseteq (1 .. last) \union (last + 1 .. recorded)
      BY <1>1
    <3> QED BY <1>1, <3>1, <3>2, EventsSinceIs
  <2>3. CASE kind = "ws"
    <3>1. Left(c)' = [i \in 1 .. (recorded - 0) |-> 0 + i]
      BY <1>2, <1>4, <1>6, <2>3 DEF Left
    <3>2. Left(c)' = EventsSince(0)
      BY <3>1 DEF EventsSince
    <3>3. ToSet(EventsSince(0)) = 0 + 1 .. recorded /\ 0 + 1 = 1
      BY <1>1, EventsSinceIs
    <3> QED BY <3>2, <3>3
  <2> QED BY <2>1, <2>2, <2>3
<1>9. ASSUME NEW d \in Connections PROVE Reaches(d)'
  <2>1. CASE d = c
    <3>1. 1 .. recorded' \subseteq Has(p)' \union ToSet(Left(c)') \union ToSet(queue')
      BY <1>2, <1>3, <1>8
    <3> QED BY <1>4, <1>6, <2>1, <3>1 DEF Reaches
  <2>2. CASE d # c
    BY <1>2, <1>6, <2>2 DEF StreamInv, Reaches, Open, Left, Has
  <2> QED BY <2>1, <2>2
<1>10. QueueInv' /\ SeenInv'
  BY <1>1, <1>2 DEF QueueInv, SeenInv, Has
<1> QED BY <1>7, <1>9, <1>10 DEF StreamInv

\* The first event it has to replay is the next one its page lacks.
LEMMA ReplayKeeps ==
  ASSUME StreamInv, NEW c \in Connections, Replay(c)
  PROVE  StreamInv'
<1>0. PICK l, event : l = link[c] /\ event = Head(Left(c))
  OBVIOUS
<1>1. /\ QueueInv /\ link \in [Connections -> LinkState] /\ recorded \in Nat /\ Backlog(l)
      /\ Open(c) /\ l.at = "replay" /\ Left(c) # <<>>
      /\ UNCHANGED <<recorded, queue, emitting, diverted>>
      /\ l \in LinkState /\ l.upTo \in Nat /\ l.replay \in Seq(Nat)
  <2>1. link \in [Connections -> LinkState] /\ link[c] \in LinkState
    BY DEF StreamInv, LinkInv
  <2> QED BY <1>0, <2>1 DEF StreamInv, LinkInv, QueueInv, Replay, Open, LinkState
<1>2. QueueInv'
  BY <1>1 DEF QueueInv
<1>3. l.there => 1 .. recorded \subseteq Has(l.page) \union ToSet(Left(c)) \union ToSet(queue)
  BY <1>0, <1>1 DEF StreamInv, Reaches
<1>6. /\ diverted' \in [Pages -> SUBSET Nat] /\ \A p \in Pages : diverted[p] \subseteq diverted'[p]
      /\ ToSet(queue) \subseteq ToSet(queue')
  BY <1>1 DEF StreamInv, SeenInv
<1>7. ASSUME l.there, NEW event1, NEW next, Send(c, event1, next)
      PROVE  Has(l.page) \subseteq Has(l.page)' /\ event1 \in Has(l.page)'
  <2>1. l.page \in Pages /\ seen \in [Pages -> SUBSET Nat]
    BY <1>1, <1>7 DEF Backlog, StreamInv, SeenInv
  <2>2. seen'[l.page] = seen[l.page] \union {event1}
    BY <1>0, <1>7, <2>1 DEF Send
  <2> QED BY <1>1, <2>2 DEF Has
<1>4. CASE l.kind = "sse"
  <2>0. PICK rest, next : rest = Tail(l.replay) /\ next = [l EXCEPT !.upTo = event, !.replay = rest]
    OBVIOUS
  <2>1. /\ Left(c) = l.replay /\ event = l.replay[1] /\ rest \in Seq(Nat) /\ Len(l.replay) \in Nat \ {0}
        /\ Len(rest) = Len(l.replay) - 1
        /\ \A i \in 1 .. Len(rest) : rest[i] = l.replay[i + 1]
    BY <1>0, <1>1, <1>4, <2>0 DEF Left
  <2>2. event \in 1 .. recorded /\ event \in Nat /\ (l.there => 1 .. event - 1 \subseteq Has(l.page))
    BY <1>1, <2>1 DEF Backlog
  <2>3. ToSet(Left(c)) \subseteq {event} \union ToSet(rest)
    <3> SUFFICES ASSUME NEW i \in DOMAIN l.replay, i # 1 PROVE l.replay[i] \in ToSet(rest)
      BY <2>1 DEF ToSet
    <3>1. i \in 1 .. Len(l.replay) /\ DOMAIN rest = 1 .. Len(rest)
      BY <1>1, <2>1
    <3>2. i - 1 \in 1 .. Len(rest) /\ (i - 1) + 1 = i
      BY <2>1, <3>1
    <3>3. i - 1 \in DOMAIN rest /\ rest[i - 1] = l.replay[i]
      BY <2>1, <3>1, <3>2
    <3> QED BY <3>3 DEF ToSet
  <2>4. \A i \in DOMAIN rest : rest[i] = event + i /\ rest[i] \in 1 .. recorded
    <3> SUFFICES ASSUME NEW i \in DOMAIN rest PROVE rest[i] = event + i /\ rest[i] \in 1 .. recorded
      OBVIOUS
    <3>1. i \in Nat /\ i + 1 \in DOMAIN l.replay /\ rest[i] = l.replay[i + 1]
      <4>1. i \in 1 .. Len(rest) /\ DOMAIN l.replay = 1 .. Len(l.replay)
        BY <1>1, <2>1, SMTT(30)
      <4>2. i \in Nat /\ i + 1 \in 1 .. Len(l.replay)
        BY <2>1, <4>1
      <4> QED BY <2>1, <4>1, <4>2
    <3>2. l.replay[i + 1] = l.replay[1] + (i + 1) - 1 /\ l.replay[i + 1] \in 1 .. recorded
      BY <1>1, <3>1 DEF Backlog
    <3> QED BY <2>1, <2>2, <3>1, <3>2
  <2>5. Send(c, event, next)
    BY <1>0, <1>1, <1>4, <2>0 DEF Replay
  <2>6. /\ next \in LinkState /\ next.upTo = event /\ next.replay = rest
        /\ next.kind = l.kind /\ next.at = "replay" /\ next.there = l.there /\ next.page = l.page
    BY <1>1, <2>0, <2>1, <2>2 DEF LinkState
  <2>7. ASSUME l.there PROVE Backlog(next)'
    <3>1. Has(l.page) \subseteq Has(l.page)' /\ event \in Has(l.page)'
      BY <1>7, <2>5, <2>7
    <3>2. 1 .. event \subseteq Has(l.page)'
      BY <2>2, <2>7, <3>1
    <3>3. rest # <<>> => rest[1] = event + 1 /\ event + 1 - 1 = event
      BY <2>1, <2>2, <2>4
    <3>4. \A i \in DOMAIN rest : rest[i] = rest[1] + i - 1 /\ rest[i] \in 1 .. recorded
      <4> SUFFICES ASSUME NEW i \in DOMAIN rest PROVE rest[i] = rest[1] + i - 1
        BY <2>4
      <4>1. 1 \in DOMAIN rest /\ i \in Nat
        BY <2>1
      <4> QED BY <2>2, <2>4, <4>1
    <3> QED BY <1>1, <1>4, <2>2, <2>6, <3>2, <3>3, <3>4 DEF Backlog
  <2>8. ASSUME l.there, link' = [link EXCEPT ![c] = next]
        PROVE  1 .. recorded \subseteq Has(l.page) \union {event} \union ToSet(Left(c)') \union ToSet(queue')
    <3>1. Left(c)' = rest
      BY <1>0, <1>1, <1>4, <2>6, <2>8 DEF Left
    <3> QED BY <1>1, <1>3, <2>3, <2>8, <3>1
  <2> QED BY <1>0, <1>1, <1>2, <1>6, <2>2, <2>5, <2>6, <2>7, <2>8, SendKeeps
<1>5. CASE l.kind = "ws"
  <2>0. PICK next : next = [l EXCEPT !.upTo = event]
    OBVIOUS
  <2> DEFINE n == recorded - l.upTo
  <2>1. n \in Nat /\ l.upTo <= recorded
    BY <1>1 DEF Backlog
  <2>2. Left(c) = [i \in 1 .. n |-> l.upTo + i]
    BY <1>0, <1>1, <1>5 DEF Left
  <2>3. n # 0 /\ event = l.upTo + 1
    <3> HIDE DEF n
    <3>1. n # 0
      BY <1>1, <2>1, <2>2
    <3>2. 1 \in 1 .. n /\ Head(Left(c)) = Left(c)[1]
      BY <2>1, <2>2, <3>1
    <3> QED BY <1>0, <2>2, <3>1, <3>2
  <2>4. event \in 1 .. recorded /\ event \in Nat /\ event - 1 = l.upTo
    BY <1>1, <2>1, <2>3
  <2>5. Send(c, event, next)
    <3> DEFINE long == [l EXCEPT !.upTo = event, !.replay = @]
    <3>1. long = next
      BY <1>1, <2>0 DEF LinkState
    <3>2. Send(c, event, long)
      BY <1>0, <1>1, <1>5 DEF Replay
    <3> QED BY <3>1, <3>2
  <2>6. /\ next \in LinkState /\ next.upTo = event /\ next.replay = l.replay
        /\ next.kind = l.kind /\ next.at = "replay" /\ next.there = l.there /\ next.page = l.page
    BY <1>1, <2>0, <2>4 DEF LinkState
  <2>7. l.there => 1 .. event - 1 \subseteq Has(l.page)
    BY <1>1, <1>5, <2>4 DEF Backlog
  <2>8. ASSUME l.there PROVE Backlog(next)'
    <3>1. Has(l.page) \subseteq Has(l.page)' /\ event \in Has(l.page)'
      BY <1>7, <2>5, <2>8
    <3>2. 1 .. event \subseteq Has(l.page)'
      BY <2>4, <2>7, <2>8, <3>1
    <3> QED BY <1>1, <1>5, <2>4, <2>6, <3>1, <3>2 DEF Backlog
  <2>9. ASSUME l.there, link' = [link EXCEPT ![c] = next]
        PROVE  1 .. recorded \subseteq Has(l.page) \union {event} \union ToSet(Left(c)') \union ToSet(queue')
    <3>1. link'[c] = next
      BY <1>1, <2>9
    <3>2. Left(c)' = [i \in 1 .. (recorded - event) |-> event + i]
      BY <1>0, <1>1, <1>5, <2>6, <3>1 DEF Left
    <3>3. Left(c)' = EventsSince(event)
      BY <3>2 DEF EventsSince
    <3>4. ToSet(EventsSince(event)) = event + 1 .. recorded
      BY <1>1, <2>4, EventsSinceIs
    <3> QED BY <1>1, <2>4, <2>7, <2>9, <3>3, <3>4
  <2> QED BY <1>0, <1>1, <1>2, <1>6, <2>4, <2>5, <2>6, <2>7, <2>8, <2>9, SendKeeps
<1> QED BY <1>0, <1>1, <1>4, <1>5 DEF Backlog

LEMMA GoLiveKeeps ==
  ASSUME StreamInv, NEW c \in Connections, GoLive(c)
  PROVE  StreamInv'
<1>0. PICK l, new : l = link[c] /\ new = [l EXCEPT !.at = "live", !.upTo = 0]
  OBVIOUS
<1>1. /\ QueueInv /\ SeenInv /\ link \in [Connections -> LinkState] /\ Backlog(l) /\ l \in LinkState
      /\ recorded \in Nat /\ Open(c) /\ Left(c) = <<>>
      /\ UNCHANGED <<recorded, queue, seen, lastSeen, diverted>>
  BY <1>0 DEF StreamInv, LinkInv, QueueInv, GoLive, Open
<1>2. link' = [link EXCEPT ![c] = new]
  BY <1>0, <1>1 DEF GoLive
<1>3. /\ new \in LinkState /\ new.at = "live" /\ new.upTo = 0
      /\ new.kind = l.kind /\ new.replay = l.replay /\ new.there = l.there /\ new.page = l.page
  BY <1>0, <1>1 DEF LinkState
<1>4. QueueInv' /\ SeenInv' /\ (\A q : Has(q)' = Has(q)) /\ ToSet(queue) \subseteq ToSet(queue')
  BY <1>1 DEF QueueInv, SeenInv, Has
<1>5. Backlog(new)'
  BY <1>1, <1>3, <1>4 DEF Backlog, Has
<1>6. ASSUME new.there
      PROVE  1 .. recorded \subseteq Has(new.page)' \union ToSet(Left(c)') \union ToSet(queue')
  <2>1. Left(c)' = <<>>
    BY <1>1, <1>2, <1>3 DEF Left
  <2>2. 1 .. recorded \subseteq Has(new.page) \union ToSet(Left(c)) \union ToSet(queue)
    BY <1>0, <1>1, <1>3, <1>6 DEF StreamInv, Reaches
  <2> QED BY <1>1, <1>4, <2>1, <2>2
<1> QED BY <1>1, <1>2, <1>3, <1>4, <1>5, <1>6, OpenMoves

LEMMA TakeKeeps ==
  ASSUME StreamInv, NEW c \in Connections, TakeEvent(c) \/ TakeEnd(c)
  PROVE  StreamInv'
<1>0. PICK l, event : l = link[c] /\ event = Head(queue)
  OBVIOUS
<1>1. /\ QueueInv /\ SeenInv /\ link \in [Connections -> LinkState] /\ Backlog(l) /\ l \in LinkState
      /\ recorded \in Nat /\ Open(c) /\ l.at = "live" /\ Left(c) = <<>>
      /\ queue # <<>> /\ queue' = Tail(queue) /\ recorded' = recorded
  BY <1>0 DEF StreamInv, LinkInv, QueueInv, TakeEvent, TakeEnd, Open, Left
<1>2. /\ QueueInv' /\ ToSet(queue) \subseteq ToSet(queue') \union {Head(queue)}
      /\ Head(queue) \in 0 .. recorded
      /\ Head(queue) # EndMark => \A x \in ToSet(queue) : x = EndMark \/ x >= Head(queue)
  BY <1>1, QueueShrinks
<1>3. l.there => 1 .. recorded \subseteq Has(l.page) \union ToSet(queue)
  <2>1. ToSet(Left(c)) = {}
    BY <1>1 DEF ToSet
  <2> QED BY <1>0, <1>1, <2>1 DEF StreamInv, Reaches
<1>4. CASE TakeEvent(c)
  <2>1. /\ Send(c, event, l) /\ event # EndMark
        /\ diverted' = [p \in Pages |->
             diverted[p] \union {e \in {event} : Attached(p) /\ (l.there => l.page # p)}]
    BY <1>0, <1>4 DEF TakeEvent
  <2>2. event \in 1 .. recorded
    BY <1>0, <1>1, <1>2, <2>1 DEF EndMark
  <2>3. l.there => 1 .. event - 1 \subseteq Has(l.page)
    BY <1>0, <1>1, <1>2, <1>3, <2>1, <2>2 DEF EndMark
  <2>7. diverted' \in [Pages -> SUBSET Nat] /\ \A p \in Pages : diverted[p] \subseteq diverted'[p]
    <3>1. event \in Nat /\ diverted \in [Pages -> SUBSET Nat]
      BY <1>1, <2>2 DEF SeenInv
    <3> QED BY <2>1, <3>1
  <2>4. ASSUME l.there PROVE Backlog(l)'
    <3>1. l.page \in Pages /\ seen \in [Pages -> SUBSET Nat]
      BY <1>1, <2>4 DEF Backlog, SeenInv
    <3>2. seen'[l.page] = seen[l.page] \union {event}
      BY <1>0, <2>1, <2>4, <3>1 DEF Send
    <3>3. Has(l.page) \subseteq Has(l.page)'
      BY <2>7, <3>1, <3>2 DEF Has
    <3> QED BY <1>1, <3>3 DEF Backlog
  <2>5. l.there => 1 .. recorded \subseteq Has(l.page) \union {event} \union ToSet(queue')
    BY <1>0, <1>2, <1>3
  <2>6. ASSUME link' = [link EXCEPT ![c] = l] PROVE ToSet(Left(c)') = {}
    <3>1. Left(c)' = <<>>
      BY <1>1, <2>6 DEF Left
    <3> QED BY <3>1 DEF ToSet
  <2>8. ASSUME NEW d \in Connections \ {c}, Open(d), link[d].there
        PROVE  ToSet(queue) \subseteq ToSet(queue') \union diverted'[link[d].page]
                 \union {e \in {event} : l.there /\ link[d].page = l.page}
    <3>1. Attached(link[d].page) /\ link[d].page \in Pages
      BY <2>8 DEF Attached, StreamInv, LinkInv, Backlog
    <3>2. CASE l.there /\ link[d].page = l.page
      BY <1>0, <1>2, <3>2
    <3>3. CASE ~(l.there /\ link[d].page = l.page)
      <4>1. event \in diverted'[link[d].page]
        BY <2>1, <3>1, <3>3
      <4> QED BY <1>0, <1>2, <4>1
    <3> QED BY <3>2, <3>3
  <2> QED BY <1>0, <1>1, <1>2, <2>1, <2>2, <2>3, <2>4, <2>5, <2>6, <2>7, <2>8, SendKeeps
<1>5. CASE TakeEnd(c)
  <2>1. link' = [link EXCEPT ![c] = Over] /\ UNCHANGED <<seen, lastSeen, diverted>> /\ event = EndMark
    BY <1>0, <1>5 DEF TakeEnd
  <2>2. SeenInv' /\ \A q : Has(q)' = Has(q)
    BY <1>1, <2>1 DEF SeenInv, Has
  <2>3. Backlog(Over)'
    BY <1>1, NoLinkIs, NothingToReplay DEF Backlog
  <2>4. ASSUME NEW d \in Connections \ {c}, Open(d)', link'[d].there PROVE Reaches(d)'
    <3>1. link'[d] = link[d] /\ Left(d)' = Left(d) /\ Open(d)
      BY <1>1, <2>1, <2>4 DEF Left, Open
    <3>2. 1 .. recorded \subseteq Has(link[d].page) \union ToSet(Left(d)) \union ToSet(queue)
      BY <2>4, <3>1 DEF StreamInv, Reaches
    <3>3. 0 \notin 1 .. recorded
      BY <1>1
    <3>4. 1 .. recorded \subseteq Has(link[d].page) \union ToSet(Left(d)) \union ToSet(queue')
      BY <1>0, <1>2, <2>1, <3>2, <3>3 DEF EndMark
    <3>5. Has(link[d].page) = Has(link[d].page)'
      BY <2>1, <3>1 DEF Has
    <3> QED BY <1>1, <3>1, <3>4, <3>5 DEF Reaches
  <2>5. Reaches(c)'
    <3>1. ~Open(c)'
      BY <1>1, <2>1, NoLinkIs DEF Open
    <3> QED BY <3>1 DEF Reaches
  <2>6. \A d \in Connections : Reaches(d)'
    BY <2>4, <2>5 DEF Reaches
  <2>7. LinkInv'
    <3>1. link' \in [Connections -> LinkState]
      BY <1>1, <2>1, NoLinkIs
    <3>2. ASSUME NEW d \in Connections PROVE Backlog(link[d])'
      <4>1. CASE d = c
        BY <1>1, <2>1, <2>3, <4>1 DEF Backlog
      <4>2. CASE d # c
        <5>1. link'[d] = link[d] /\ Backlog(link[d])
          BY <1>1, <2>1, <4>2 DEF StreamInv, LinkInv
        <5> QED BY <1>1, <2>1, <5>1 DEF Backlog, Has
      <4> QED BY <4>1, <4>2
    <3> QED BY <3>1, <3>2 DEF LinkInv
  <2> QED BY <1>2, <2>2, <2>6, <2>7 DEF StreamInv
<1> QED BY <1>4, <1>5

LEMMA LeaveKeeps ==
  ASSUME StreamInv, NEW c \in Connections, Leave(c)
  PROVE  StreamInv'
<1>0. PICK l, gone : l = link[c] /\ gone = [l EXCEPT !.there = FALSE]
  OBVIOUS
<1>1. /\ QueueInv /\ SeenInv /\ link \in [Connections -> LinkState] /\ Backlog(l) /\ l \in LinkState
      /\ recorded \in Nat /\ Open(c) /\ UNCHANGED <<recorded, queue, seen, lastSeen, diverted>>
  BY <1>0 DEF StreamInv, LinkInv, QueueInv, Leave
<1>2. PICK new \in {gone, Over} : link' = [link EXCEPT ![c] = new]
  BY <1>0 DEF Leave
<1>3. /\ gone \in LinkState /\ gone.there = FALSE /\ gone.upTo = l.upTo /\ gone.replay = l.replay
      /\ gone.at = l.at /\ gone.kind = l.kind /\ gone.page = l.page
  BY <1>0, <1>1 DEF LinkState
<1>4. QueueInv' /\ SeenInv' /\ (\A q : Has(q)' = Has(q)) /\ ToSet(queue) \subseteq ToSet(queue')
  BY <1>1 DEF QueueInv, SeenInv, Has
<1>5. Backlog(gone)' /\ Backlog(Over)'
  BY <1>1, <1>3, NoLinkIs, NothingToReplay DEF Backlog
<1>6. CASE new = gone
  BY <1>1, <1>2, <1>3, <1>4, <1>5, <1>6, OpenMoves
<1>7. CASE new = Over
  BY <1>1, <1>2, <1>4, <1>5, <1>7, NoLinkIs, OpenMoves
<1> QED BY <1>6, <1>7

LEMMA StreamStep ==
  ASSUME StreamInv, [StreamNext]_streamVars
  PROVE  StreamInv'
<1>1. /\ QueueInv /\ SeenInv /\ LinkInv /\ link \in [Connections -> LinkState]
      /\ recorded \in Nat /\ queue \in Seq(Nat)
  BY DEF StreamInv, LinkInv, QueueInv, SeenInv
<1>2. CASE UNCHANGED streamVars
  BY <1>2 DEF streamVars, StreamInv, QueueInv, SeenInv, LinkInv, Backlog, Reaches, Open, Left, Has
<1>3. CASE Emit
  <2>1. /\ recorded' = recorded + 1 /\ queue' = Append(queue, recorded + 1)
        /\ UNCHANGED <<link, seen, lastSeen, diverted>>
    BY <1>3 DEF Emit
  <2>2. QueueInv' /\ recorded' \in Nat /\ recorded <= recorded' /\ ToSet(queue') = ToSet(queue) \union {recorded + 1}
    BY <1>1, <2>1, QueueGrows DEF EndMark
  <2>3. SeenInv' /\ \A q : Has(q)' = Has(q)
    <3>1. \A q : Has(q)' = Has(q)
      BY <2>1 DEF Has
    <3>2. \A p \in Pages : lastSeen[p] \in Nat /\ lastSeen[p] <= recorded /\ 1 .. lastSeen[p] \subseteq Has(p)
      BY <1>1 DEF SeenInv
    <3>3. \A p \in Pages : lastSeen[p] <= recorded'
      BY <1>1, <2>1, <3>2
    <3> QED BY <1>1, <2>1, <3>1, <3>2, <3>3 DEF SeenInv
  <2>4. ASSUME NEW c \in Connections PROVE Backlog(link[c])'
    <3>1. PICK l : l = link[c]
      OBVIOUS
    <3>2. l \in LinkState /\ Backlog(l)
      BY <1>1, <3>1 DEF LinkInv
    <3>3. Backlog(l)'
      BY <1>1, <2>2, <2>3, <3>2, BacklogKept
    <3> QED BY <2>1, <3>1, <3>3 DEF Backlog
  <2>5. LinkInv'
    BY <1>1, <2>1, <2>4 DEF LinkInv
  <2>6. ASSUME NEW c \in Connections, Open(c), link[c].there
        PROVE  1 .. recorded' \subseteq Has(link[c].page) \union ToSet(Left(c)') \union ToSet(queue')
    <3>1. 1 .. recorded \subseteq Has(link[c].page) \union ToSet(Left(c)) \union ToSet(queue)
      BY <2>6 DEF StreamInv, Reaches
    <3>2. ToSet(Left(c)) \subseteq ToSet(Left(c)')
      <4>1. CASE Left(c)' = Left(c)
        BY <4>1
      <4>2. CASE Left(c)' # Left(c)
        <5>1. link[c].upTo \in Nat
          BY <1>1, <2>6 DEF LinkState
        <5>2. /\ Left(c) = [i \in 1 .. (recorded - link[c].upTo) |-> link[c].upTo + i]
              /\ Left(c)' = [i \in 1 .. (recorded' - link[c].upTo) |-> link[c].upTo + i]
          BY <2>1, <4>2 DEF Left
        <5>3. 1 .. (recorded - link[c].upTo) \subseteq 1 .. (recorded' - link[c].upTo)
          BY <1>1, <2>1, <5>1
        <5> QED BY <5>2, <5>3 DEF ToSet
      <4> QED BY <4>1, <4>2
    <3>3. 1 .. recorded' = (1 .. recorded) \union {recorded + 1}
      BY <1>1, <2>1
    <3> QED BY <2>1, <2>2, <3>1, <3>2, <3>3
  <2>7. \A c \in Connections : Reaches(c)'
    BY <2>1, <2>6 DEF Reaches, Open, Has
  <2> QED BY <2>2, <2>3, <2>5, <2>7 DEF StreamInv
<1>4. CASE EndOfRun
  <2>1. queue' = Append(queue, EndMark) /\ UNCHANGED <<recorded, link, seen, lastSeen, diverted>>
    BY <1>4 DEF EndOfRun
  <2>2. QueueInv' /\ ToSet(queue') = ToSet(queue) \union {EndMark}
    BY <1>1, <2>1, QueueGrows DEF EndMark
  <2>3. SeenInv' /\ LinkInv'
    BY <1>1, <2>1 DEF SeenInv, LinkInv, Backlog, Has
  <2>4. \A c \in Connections : Reaches(c)'
    BY <2>1, <2>2 DEF StreamInv, Reaches, Open, Left, Has
  <2> QED BY <2>2, <2>3, <2>4 DEF StreamInv
<1>5. ASSUME NEW c \in Connections, NEW p \in Pages, NEW kind \in {"sse", "ws", "rpc"}, Connect(c, p, kind)
      PROVE  StreamInv'
  BY <1>5, ConnectKeeps
<1>6. ASSUME NEW c \in Connections, Replay(c) PROVE StreamInv'
  BY <1>6, ReplayKeeps
<1>7. ASSUME NEW c \in Connections, GoLive(c) PROVE StreamInv'
  BY <1>7, GoLiveKeeps
<1>8. ASSUME NEW c \in Connections, TakeEvent(c) \/ TakeEnd(c) PROVE StreamInv'
  BY <1>8, TakeKeeps
<1>9. ASSUME NEW c \in Connections, Leave(c) PROVE StreamInv'
  BY <1>9, LeaveKeeps
<1> QED BY <1>2, <1>3, <1>4, <1>5, <1>6, <1>7, <1>8, <1>9 DEF StreamNext

\* However many connections there are at once, and whatever was lost with earlier ones: an
\* attached page has each recorded event, will get it replayed or finds it in the queue,
\* unless another connection took it while the page was attached (http/sse.py:16,
\* controller.py:241).
THEOREM NothingIsMissed == StreamSpec => []NothingMissed
<1>1. StreamInv => NothingMissed
  BY DEF StreamInv, Reaches, NothingMissed, Has
<1>2. StreamInv /\ [StreamNext]_streamVars => StreamInv'
  BY StreamStep
<1> QED BY <1>1, <1>2, StreamInitially, PTL DEF StreamSpec
====
