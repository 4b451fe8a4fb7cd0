---- MODULE Network ----
(***************************************************************************)
(* Commands in containers whose network is restricted (sandbox/network.py, *)
(* docker.py).  Each has a proxy of its own that lets through requests     *)
(* with its token to allowed hosts; all share one Docker bridge without    *)
(* masquerading, which the first to need it creates.  Without the bridge a *)
(* container can go around its proxy ("best-effort").                      *)
(*                                                                         *)
(* The commands may belong to several processes.  A stop, a timeout or a   *)
(* steering message ends the wait for a command; only the last leaves its  *)
(* container as it is.  Proxy.stop waits until every connection is closed, *)
(* by its handler or because the client is lost.                           *)
(*                                                                         *)
(* Abstracted: hosts and tokens to whether they are right; data.           *)
(* External: the Docker daemon, what runs in a container, remote hosts.    *)
(***************************************************************************)
EXTENDS Naturals

CONSTANTS
  Boxed,    \* the commands
  Links     \* per command, the connections it may make

VARIABLES
  daemon,   \* Docker "creates" networks, or "refuses"
  bridge,   \* coderking-restricted exists
  boxed,    \* per command: where run() is, its network, its container, its proxy
  route      \* per command and link: the connection's handler, what was asked, if the client is lost

netVars == <<daemon, bridge, boxed, route>>

NoRoute == [at |-> "none", token |-> FALSE, listed |-> FALSE, method |-> "none", gone |-> FALSE]

NetInit ==
  /\ daemon \in {"creates", "refuses"} /\ bridge \in BOOLEAN
  /\ boxed = [c \in Boxed |-> [at |-> "unused", net |-> "none", container |-> "none", proxy |-> "none"]]
  /\ route = [c \in Boxed |-> [k \in Links |-> NoRoute]]

Goes(c, place) == boxed' = [boxed EXCEPT ![c].at = place]
Joins(c, net) == boxed' = [boxed EXCEPT ![c].net = net, ![c].at = "starts"]

----
(***************************************************************************)
(* ensure_restricted_docker_network                                        *)
(***************************************************************************)
InspectBridge(c) ==
  /\ boxed[c].at = "unused"
  /\ IF bridge THEN Joins(c, "bridge") ELSE Goes(c, "creates")
  /\ UNCHANGED <<daemon, bridge, route>>

\* There cannot be two networks of a name.
CreateBridge(c) ==
  /\ boxed[c].at = "creates"
  /\ IF daemon = "creates" /\ ~bridge
     THEN bridge' = TRUE /\ Joins(c, "bridge")
     ELSE UNCHANGED bridge /\ Goes(c, "looksAgain")
  /\ UNCHANGED <<daemon, route>>

NetAfterFailure(c) == "bestEffort"         \* mutant: whoever created it, it is not there
\* Another process may have created it in between.
NetAfter(c) == IF bridge THEN "bridge" ELSE "bestEffort"

InspectAgain(c) ==
  /\ boxed[c].at = "looksAgain"
  /\ Joins(c, NetAfter(c))
  /\ UNCHANGED <<daemon, bridge, route>>

----
(***************************************************************************)
(* DockerSandbox.run                                                       *)
(***************************************************************************)
StartProxy(c) ==
  /\ boxed[c].at = "starts"
  /\ boxed' = [boxed EXCEPT ![c].proxy = "open", ![c].at = "launches"]
  /\ UNCHANGED <<daemon, bridge, route>>

LaunchBox(c) ==
  /\ boxed[c].at = "launches"
  /\ boxed' = [boxed EXCEPT ![c].container = "up", ![c].at = "waits"]
  /\ UNCHANGED <<daemon, bridge, route>>

BoxExits(c) ==
  /\ boxed[c].container = "up"
  /\ boxed' = [boxed EXCEPT ![c].container = "exited"]
  /\ UNCHANGED <<daemon, bridge, route>>

\* The command is over, or a timeout or the stop ends it: the container is removed
\* and the proxy takes no more connections.
RemoveBox(c) ==
  /\ boxed[c].at = "waits"
  /\ boxed' = [boxed EXCEPT ![c].container = "gone", ![c].proxy = "closing", ![c].at = "stops"]
  /\ UNCHANGED <<daemon, bridge, route>>

\* A steering message or Ctrl-C cancels run(): no handler is there for that, but the
\* finally is; the client of Docker goes on.  If the finally already waits for the proxy
\* run() ends at once, and the proxy's handlers go on.
SteerBox(c) ==
  /\ \/ boxed[c].at \in {"creates", "looksAgain", "starts"} /\ Goes(c, "returned")
     \/ /\ boxed[c].at \in {"launches", "waits"}
        /\ \E container \in {boxed[c].container} \union
                            (IF boxed[c].at = "launches" THEN {"up"} ELSE {}) :
             boxed' = [boxed EXCEPT ![c].container = container, ![c].proxy = "closing", ![c].at = "stops"]
     \/ boxed[c].at = "stops" /\ Goes(c, "returned")
  /\ UNCHANGED <<daemon, bridge, route>>

Handled == {"asked", "dials", "tunnel", "forward"}

ProxyStopped(c) ==
  /\ boxed[c].at = "stops"
  /\ \A k \in Links : route[c][k].at \in Handled => route[c][k].gone
  /\ boxed' = [boxed EXCEPT ![c].proxy = "closed", ![c].at = "returned"]
  /\ UNCHANGED <<daemon, bridge, route>>

----
(***************************************************************************)
(* AllowlistProxy, and what goes around it                                 *)
(***************************************************************************)
\* Of a closed connection nothing is kept.
Turned(r, place) == IF place = "closed" THEN [NoRoute EXCEPT !.at = place] ELSE [r EXCEPT !.at = place]
Becomes(c, k, place) ==
  /\ route' = [route EXCEPT ![c][k] = Turned(@, place)]
  /\ UNCHANGED <<daemon, bridge, boxed>>

\* Any process of the host may connect; the token is known in the container.
Asks(c, k) ==
  /\ boxed[c].proxy = "open" /\ route[c][k].at = "none"
  /\ \E knows, listed \in BOOLEAN, method \in {"connect", "get"} :
       /\ knows => boxed[c].container = "up"
       /\ route' = [route EXCEPT ![c][k] = [at |-> "asked", token |-> knows,
                                         listed |-> listed, method |-> method,
                                         gone |-> FALSE]]
  /\ UNCHANGED <<daemon, bridge, boxed>>

\* 407 without the token, 403 for another host.
Judged(c, k) ==
  /\ route[c][k].at = "asked"
  /\ Becomes(c, k, IF route[c][k].token /\ route[c][k].listed THEN "dials" ELSE "closed")

\* The client may be lost while the handler waits for the host.
ClientLost(c, k) ==
  /\ route[c][k].at \in {"dials", "tunnel", "forward"}
  /\ route' = [route EXCEPT ![c][k].gone = TRUE]
  /\ UNCHANGED <<daemon, bridge, boxed>>

\* The host is reached, or it is denied as well; a tunnel needs the client at once.
Reached(c, k) ==
  /\ route[c][k].at = "dials"
  /\ \/ route[c][k].method = "connect" /\ ~route[c][k].gone /\ Becomes(c, k, "tunnel")
     \/ route[c][k].method = "get" /\ Becomes(c, k, "forward")
     \/ Becomes(c, k, "closed")

\* A tunnel ends with either side; a forwarded request only with the answer.
PipeEnds(c, k) ==
  /\ route[c][k].at \in {"tunnel", "forward"}
  /\ Becomes(c, k, "closed")

\* Without the bridge a container reaches whom it likes.
GoesAround(c, k) ==
  /\ boxed[c].container = "up" /\ boxed[c].net = "bestEffort" /\ route[c][k].at = "none"
  /\ Becomes(c, k, "direct")

----
NetNext ==
  \E c \in Boxed :
    \/ InspectBridge(c) \/ CreateBridge(c) \/ InspectAgain(c) \/ StartProxy(c)
    \/ LaunchBox(c) \/ BoxExits(c) \/ RemoveBox(c) \/ SteerBox(c) \/ ProxyStopped(c)
    \/ \E k \in Links :
         \/ Asks(c, k) \/ Judged(c, k) \/ ClientLost(c, k) \/ Reached(c, k)
         \/ PipeEnds(c, k) \/ GoesAround(c, k)

NetSpec == NetInit /\ [][NetNext]_netVars

----
\* What leaves a restricted container goes through its own proxy, with its token, to
\* an allowed host, and while run() has not returned, unless run() was cancelled when it
\* waited for the proxy, or the one who asked is gone; only where Docker refuses the bridge
\* can it go another way, however many commands looked for the bridge at the same time
\* (network.py:75, 273; docker.py:275).
EgressIsControlled ==
  \A c \in Boxed, k \in Links :
    /\ route[c][k].at \in {"tunnel", "forward"} =>
         /\ route[c][k].token /\ route[c][k].listed
         /\ boxed[c].at = "returned" => boxed[c].proxy = "closing" \/ route[c][k].gone
    /\ route[c][k].at = "direct" => daemon = "refuses"
====
